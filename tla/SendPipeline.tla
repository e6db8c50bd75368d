---------------------------- MODULE SendPipeline ----------------------------
(***************************************************************************)
(* The path of a campaign message: the doser claims a target and inserts   *)
(* an outbox row in one transaction, the outbox worker publishes the row   *)
(* to the queue of the sender account and marks it processed only after    *)
(* the whole batch, an external MAX worker sends the message and reports   *)
(* a result (through the results queue and, for some outcomes, through the *)
(* HTTP callback too), and the result consumer writes the outcome to the   *)
(* target and acknowledges.  Every queue is at-least-once, the process may *)
(* crash between any two steps, and an AMQP channel that closes stays so   *)
(* until the process is started again.                                     *)
(*                                                                         *)
(* One tenant, one campaign that stays in processing and lists a phone     *)
(* once, so that a target stands for its phone.  Quotas, accounts          *)
(* and their cooldown are the subject of Dosing, the campaign counters and *)
(* the reply texts of no property here: the columns that hold them are     *)
(* projected away.                                                         *)
(***************************************************************************)
EXTENDS Domain, FiniteSets

CONSTANTS
  Target,            \* rows of campaign_targets
  Cold,              \* those whose contact_type is cold
  NoTarget,          \* the doser holds no target
  NoResult,          \* the consumer holds no result
  MaxRetryAttempts,  \* cfg.MaxRetryAttempts
  BatchLimit,        \* rows fetched at a time (100 in the code)
  WorkerOutcome,     \* outcomes a worker reports of a message
  CallbackOutcome,   \* outcomes a worker also posts to the HTTP callback
  RecipientStatus,   \* what a recipient who was reached may do next
  MaxFaults          \* bound on crashes, lost confirms and failed writes

ASSUME MaxRetryAssumption == MaxRetryAttempts \in Nat \ {0}
ASSUME BatchAssumption == BatchLimit \in Nat \ {0}
ASSUME OutcomeAssumption == WorkerOutcome \subseteq Outcome
                         /\ CallbackOutcome \subseteq Outcome
                         /\ RecipientStatus \subseteq {"viewed", "replied"}
ASSUME MaxFaultsAssumption == MaxFaults \in Nat
ASSUME NullAssumption == NoTarget \notin Target
ASSUME ColdAssumption == Cold \subseteq Target

VARIABLES
  (* Postgres *)
  status,     \* campaign_targets.status
  attempt,    \* campaign_targets.attempt_count
  waiting,    \* targets whose next_attempt_at is in the future
  blocked,    \* recipients in tenant_blocked_recipients
  outbox,     \* outbox_messages, keyed by target and attempt
  (* locals of the goroutines of the orchestrator *)
  selected,   \* CampaignDoser: the target read before Assign
  batch,      \* OutboxWorker: rows fetched and not yet handled
  published,  \* OutboxWorker: processedIDs
  amqpChan,   \* OutboxWorker: its one channel, "open" or "closed"
  hand,       \* ResultConsumer: the result being flushed
  applied,    \* ResultConsumer: its transaction has committed
  consumer,   \* ResultConsumer: "running", "closed" (its deliveries have
              \* ended) or "stuck" (flush waits for its own mutex)
  buffered,   \* results the library still holds of the ended deliveries
  (* RabbitMQ and the workers *)
  sendQueue,  \* messages in the account send queues
  results,    \* unacknowledged messages of the results queue
  callbacks,  \* HTTP callbacks on their way
  reached,    \* recipients with whom a chat exists
  (* observation *)
  faults      \* faults so far

dbVars     == <<status, attempt, waiting, blocked, outbox>>
doserVars  == <<selected>>
outboxVars == <<batch, published, amqpChan>>
consVars   == <<hand, applied, consumer, buffered>>
brokerVars == <<sendQueue, results, callbacks, reached>>
vars == <<dbVars, doserVars, outboxVars, consVars, brokerVars, faults>>

Row     == [target : Target, attempt : Nat]
\* copy tells apart the publications of one row
Message == [target : Target, attempt : Nat, copy : Nat]
Result  == [target : Target, attempt : Nat, copy : Nat,
            status : TaskStatus, code : ErrorCode]
\* before stands for publish_at: the rows enqueued earlier.  copies and rejects
\* count what the outbox worker did with the row and are observations
RowState == [status : {"pending", "processed"}, before : SUBSET Row,
             copies : Nat, rejects : Nat]

PendingRows == {r \in DOMAIN outbox : outbox[r].status = "pending"}

TypeOK ==
  /\ status \in [Target -> TaskStatus]
  /\ attempt \in [Target -> Nat]
  /\ waiting \subseteq Target
  /\ blocked \subseteq Target
  /\ DOMAIN outbox \subseteq Row
  /\ outbox \in [DOMAIN outbox -> RowState]
  /\ selected \in Target \cup {NoTarget}
  /\ batch \subseteq Row
  /\ published \subseteq Row
  /\ amqpChan \in {"open", "closed"}
  /\ hand \in Result \cup {NoResult}
  /\ applied \in BOOLEAN
  /\ consumer \in {"running", "closed", "stuck"}
  /\ buffered \subseteq Result
  /\ sendQueue \subseteq Message
  /\ results \subseteq Result
  /\ callbacks \subseteq Result
  /\ reached \subseteq Target
  /\ faults \in 0..MaxFaults

Init ==
  /\ status = [t \in Target |-> "pending"]
  /\ attempt = [t \in Target |-> 0]
  /\ waiting = {}
  /\ blocked = {}
  /\ outbox = [r \in {} |-> 0]
  /\ selected = NoTarget
  /\ batch = {}
  /\ published = {}
  /\ amqpChan = "open"
  /\ hand = NoResult
  /\ applied = FALSE
  /\ consumer = "running"
  /\ buffered = {}
  /\ sendQueue = {}
  /\ results = {}
  /\ callbacks = {}
  /\ reached = {}
  /\ faults = 0

Fault == faults < MaxFaults /\ faults' = faults + 1

\* What closes one channel may close the other, which shares its connection.
\* The library may still hand over what it had been delivered.
ChannelsMayClose ==
  /\ amqpChan' \in {amqpChan, "closed"}
  /\ \/ UNCHANGED <<consumer, buffered>>
     \/ /\ consumer = "running"
        /\ consumer' = "closed"
        /\ buffered' = results \ {hand}

-----------------------------------------------------------------------------
(* CampaignDoser                                                           *)

\* Mutant: a dosed target that is pending can be claimed again.
EligibleByStatus(t) ==
  \/ status[t] = "pending"
  \/ status[t] = "retry_pending" /\ t \notin waiting

\* The condition the claim is read and re-read under.
Eligible(t) ==
  \/ status[t] = "pending" /\ attempt[t] = 0
  \/ status[t] = "retry_pending" /\ t \notin waiting

\* getNextPendingTarget: the read commits at once, so its row lock protects
\* nothing afterwards.
SelectTarget(t) ==
  /\ selected = NoTarget
  /\ Eligible(t)
  /\ t \notin blocked
  /\ selected' = t
  /\ UNCHANGED <<dbVars, outboxVars, consVars, brokerVars, faults>>

\* Mutant: the row carries the attempt number read before the increment.
NewRowBeforeIncrement(t) == [target |-> t, attempt |-> attempt[t]]

NewRow(t) == [target |-> t, attempt |-> attempt[t] + 1]

\* AssignAccountAndEnqueueTarget commits: claim, attempt and outbox row.
AssignAndEnqueue ==
  /\ selected # NoTarget
  /\ Eligible(selected)
  /\ status' = [status EXCEPT ![selected] = "pending"]
  /\ attempt' = [attempt EXCEPT ![selected] = @ + 1]
  /\ waiting' = waiting \ {selected}
  /\ outbox' = [r \in DOMAIN outbox \cup {NewRow(selected)} |->
                  IF r = NewRow(selected)
                  THEN [status |-> "pending", before |-> DOMAIN outbox,
                        copies |-> 0, rejects |-> 0]
                  ELSE outbox[r]]
  /\ selected' = NoTarget
  /\ UNCHANGED <<blocked, outboxVars, consVars, brokerVars, faults>>

\* The claim finds the target no longer eligible, the daily limit of the
\* account is exhausted, or the transaction fails: nothing is written.
AssignRefused ==
  /\ selected # NoTarget
  /\ selected' = NoTarget
  /\ UNCHANGED <<dbVars, outboxVars, consVars, brokerVars, faults>>

\* No account can send today: due retries move to the next work day.
DeferRetries ==
  /\ selected = NoTarget
  /\ waiting' = waiting \cup {t \in Target : status[t] = "retry_pending"}
  /\ waiting' # waiting
  /\ UNCHANGED <<status, attempt, blocked, outbox, doserVars, outboxVars,
                 consVars, brokerVars, faults>>

\* next_attempt_at passes.
RetryDue(t) ==
  /\ t \in waiting
  /\ waiting' = waiting \ {t}
  /\ UNCHANGED <<status, attempt, blocked, outbox, doserVars, outboxVars,
                 consVars, brokerVars, faults>>

-----------------------------------------------------------------------------
(* OutboxWorker.  The oldest rows are fetched; those of one batch are       *)
(* handled in any order.                                                   *)

Copies(r) == outbox[r].copies + outbox[r].rejects

\* ORDER BY publish_at LIMIT
Oldest == {r \in PendingRows :
             Cardinality(outbox[r].before \cap PendingRows) < BatchLimit}

\* Mutant: a row that was sent once is not fetched again.
FetchBatchFresh ==
  /\ batch = {} /\ published = {}
  /\ batch' = {r \in Oldest : Copies(r) = 0}
  /\ batch' # {}
  /\ UNCHANGED <<dbVars, doserVars, published, amqpChan, consVars, brokerVars,
                 faults>>

FetchBatch ==
  /\ batch = {} /\ published = {}
  /\ PendingRows # {}
  /\ batch' = Oldest
  /\ UNCHANGED <<dbVars, doserVars, published, amqpChan, consVars, brokerVars,
                 faults>>

NextMessage(r) ==
  [target |-> r.target, attempt |-> r.attempt, copy |-> Copies(r) + 1]

ReportOf(m, o) ==
  [target |-> m.target, attempt |-> m.attempt, copy |-> m.copy,
   status |-> o.status, code |-> o.code]

\* Mutant: a status that task_status_enum does not have.
BlockedOutcomeUnlisted == [status |-> "blocked", code |-> "BLOCKED_RECIPIENT"]

BlockedOutcome == [status |-> "failed", code |-> "BLOCKED_RECIPIENT"]

\* Published with a confirm.  The in-memory blocklist may lag behind the
\* table, so a blocked recipient can still be published to.
PublishRow(r) ==
  /\ r \in batch
  /\ amqpChan = "open"
  /\ batch' = batch \ {r}
  /\ published' = published \cup {r}
  /\ sendQueue' = sendQueue \cup {NextMessage(r)}
  /\ outbox' = [outbox EXCEPT ![r].copies = @ + 1]
  /\ UNCHANGED <<status, attempt, waiting, blocked, doserVars, amqpChan,
                 consVars, results, callbacks, reached, faults>>

\* The recipient is blocked: the row is answered by a failed result, which
\* is neither persistent nor confirmed, and may be lost with the channel.
RejectRow(r) ==
  /\ r \in batch
  /\ r.target \in blocked
  /\ amqpChan = "open"
  /\ batch' = batch \ {r}
  /\ published' = published \cup {r}
  /\ outbox' = [outbox EXCEPT ![r].rejects = @ + 1]
  /\ \/ /\ results' = results \cup {ReportOf(NextMessage(r), BlockedOutcome)}
        /\ UNCHANGED <<amqpChan, consumer, buffered, faults>>
     \/ Fault /\ ChannelsMayClose /\ UNCHANGED results
  /\ UNCHANGED <<status, attempt, waiting, blocked, doserVars, hand, applied,
                 sendQueue, callbacks, reached>>

\* Why a row of the batch is left pending: cold outside the work window; the
\* channel is closed, so that no queue can be declared and nothing published;
\* the broker nacks the message.
LeftPending(r) ==
  \/ (r.target \in Cold \/ amqpChan = "closed") /\ UNCHANGED faults
  \/ Fault

\* Mutant: a row that is skipped is marked with the others.
SkipRowMarked(r) ==
  /\ r \in batch
  /\ LeftPending(r)
  /\ batch' = batch \ {r}
  /\ published' = published \cup {r}
  /\ UNCHANGED <<dbVars, doserVars, amqpChan, consVars, brokerVars>>

SkipRow(r) ==
  /\ r \in batch
  /\ LeftPending(r)
  /\ batch' = batch \ {r}
  /\ UNCHANGED <<dbVars, doserVars, published, amqpChan, consVars, brokerVars>>

\* The broker took the message but the confirm does not arrive, as when the
\* channel closes: the row stays pending and will be published again.
ConfirmLost(r) ==
  /\ r \in batch
  /\ amqpChan = "open"
  /\ Fault
  /\ ChannelsMayClose
  /\ batch' = batch \ {r}
  /\ sendQueue' = sendQueue \cup {NextMessage(r)}
  /\ outbox' = [outbox EXCEPT ![r].copies = @ + 1]
  /\ UNCHANGED <<status, attempt, waiting, blocked, doserVars, published,
                 hand, applied, results, callbacks, reached>>

\* Mutant: the batch is not written.
MarkProcessedUnwritten ==
  /\ batch = {} /\ published # {}
  /\ published' = {}
  /\ UNCHANGED <<dbVars, doserVars, batch, amqpChan, consVars, brokerVars,
                 faults>>

\* MarkAsProcessedBatch, once every row of the batch has been handled.
MarkProcessed ==
  /\ batch = {} /\ published # {}
  /\ outbox' = [r \in DOMAIN outbox |->
                  IF r \in published
                  THEN [outbox[r] EXCEPT !.status = "processed"]
                  ELSE outbox[r]]
  /\ published' = {}
  /\ UNCHANGED <<status, attempt, waiting, blocked, doserVars, batch, amqpChan,
                 consVars, brokerVars, faults>>

\* The update fails and is only logged.
MarkFails ==
  /\ batch = {} /\ published # {}
  /\ Fault
  /\ published' = {}
  /\ UNCHANGED <<dbVars, doserVars, batch, amqpChan, consVars, brokerVars>>

-----------------------------------------------------------------------------
(* The MAX worker of an account (external).                                *)

\* The worker takes a message, tries to send it and reports one outcome.
\* A retryable or unknown failure does not say that the recipient did not
\* receive it; a final one does.
MayReach(o) ==
  o.status \in SuccessStatus \/ WriterOfResult(o) \in {"retry", "unknown"}

WorkerSend(m, o) ==
  /\ m \in sendQueue
  /\ sendQueue' = sendQueue \ {m}
  /\ results' = results \cup {ReportOf(m, o)}
  /\ callbacks' = callbacks \cup
       (IF o \in CallbackOutcome THEN {ReportOf(m, o)} ELSE {})
  /\ \/ MayReach(o) /\ reached' = reached \cup {m.target}
     \/ o.status \notin SuccessStatus /\ UNCHANGED reached
  /\ UNCHANGED <<dbVars, doserVars, outboxVars, consVars, faults>>

\* A recipient who was reached reads the message, or answers it.
RecipientReport(t, s) ==
  /\ t \in reached
  /\ results' = results \cup
       {ReportOf([target |-> t, attempt |-> 0, copy |-> 0],
                 [status |-> s, code |-> ""])}
  /\ UNCHANGED <<dbVars, doserVars, outboxVars, consVars, sendQueue,
                 callbacks, reached, faults>>

-----------------------------------------------------------------------------
(* ResultConsumer: batchSize is 1, so a delivery is flushed at once.       *)

\* Mutant: the delivery is acknowledged when it is taken.
TakeResultAutoAck(r) ==
  /\ hand = NoResult
  /\ r \in results
  /\ \/ consumer = "running"
     \/ consumer = "closed" /\ r \in buffered
  /\ hand' = r
  /\ buffered' = buffered \ {r}
  /\ results' = results \ {r}
  /\ UNCHANGED <<dbVars, doserVars, outboxVars, applied, consumer, sendQueue,
                 callbacks, reached, faults>>

\* The delivery loop of Run is handed the next result.
TakeResult(r) ==
  /\ hand = NoResult
  /\ r \in results
  /\ \/ consumer = "running"
     \/ consumer = "closed" /\ r \in buffered
  /\ hand' = r
  /\ buffered' = buffered \ {r}
  /\ UNCHANGED <<dbVars, doserVars, outboxVars, applied, consumer, brokerVars,
                 faults>>

\* The deliveries have ended: Run returns for good, and what the library still
\* held is only delivered again after a restart.
RunExits ==
  /\ consumer = "closed"
  /\ buffered # {}
  /\ buffered' = {}
  /\ UNCHANGED <<dbVars, doserVars, outboxVars, hand, applied, consumer,
                 brokerVars, faults>>

\* next_attempt_at after a result: a retry waits for RetryDelay, exhausted
\* retries and an unknown delivery clear it, UpdateTargetStatus keeps it.
WaitingAfter(r) ==
  LET t == r.target IN
  CASE WriterOfResult(r) = "retry" /\ RetryAccepted(status[t]) ->
         IF attempt[t] < MaxRetryAttempts THEN waiting \cup {t}
                                          ELSE waiting \ {t}
    [] /\ WriterOfResult(r) = "unknown"
       /\ status[t] \notin SuccessStatus \cup {"delivery_unknown"} ->
         waiting \ {t}
    [] OTHER -> waiting

ApplyResult ==
  /\ hand # NoResult /\ ~applied
  /\ hand.status # "replied"
  /\ status' = [status EXCEPT ![hand.target] =
                  StatusAfterResult(@, attempt[hand.target],
                                    MaxRetryAttempts, hand)]
  /\ waiting' = WaitingAfter(hand)
  /\ applied' = TRUE
  /\ UNCHANGED <<attempt, blocked, outbox, doserVars, outboxVars, hand, consumer,
                 buffered, brokerVars, faults>>

\* RegisterReply: the status is set unconditionally; a text that is an
\* unsubscribe word blocks the recipient in the same transaction.
RegisterReply(t) ==
  /\ status' = [status EXCEPT ![t] = "replied"]
  /\ blocked' \in {blocked, blocked \cup {t}}
  /\ UNCHANGED <<attempt, waiting, outbox>>

ApplyReply ==
  /\ hand # NoResult /\ ~applied
  /\ hand.status = "replied"
  /\ RegisterReply(hand.target)
  /\ applied' = TRUE
  /\ UNCHANGED <<doserVars, outboxVars, hand, consumer, buffered, brokerVars,
                 faults>>

\* On a channel that has closed the ack fails and the message stays.
Acked == results' = IF consumer = "running" THEN results \ {hand} ELSE results

AckResult ==
  /\ hand # NoResult /\ applied
  /\ Acked
  /\ hand' = NoResult
  /\ applied' = FALSE
  /\ UNCHANGED <<dbVars, doserVars, outboxVars, consumer, buffered, sendQueue,
                 callbacks, reached, faults>>

\* After the ack of an answer its notification cannot be published: flush, which
\* holds rc.mu, calls reconnect, which waits for it.
AckAndHang ==
  /\ hand # NoResult /\ applied
  /\ hand.status = "replied"
  /\ Fault
  /\ Acked
  /\ hand' = NoResult
  /\ applied' = FALSE
  /\ consumer' = "stuck"
  /\ buffered' = {}
  /\ UNCHANGED <<dbVars, doserVars, outboxVars, sendQueue, callbacks, reached>>

\* The transaction fails, or commits but the caller is not told: the message is
\* put back into the queue and will be delivered again.
ResultRedelivered ==
  /\ hand # NoResult
  /\ Fault
  /\ hand' = NoResult
  /\ applied' = FALSE
  /\ UNCHANGED <<dbVars, doserVars, outboxVars, consumer, buffered, brokerVars>>

-----------------------------------------------------------------------------
(* HTTP handlers                                                           *)

WorkerCallback(c) ==
  /\ c \in callbacks
  /\ status' = [status EXCEPT ![c.target] = StatusAfterCallback(@, c)]
  /\ callbacks' = callbacks \ {c}
  /\ UNCHANGED <<attempt, waiting, blocked, outbox, doserVars, outboxVars,
                 consVars, sendQueue, results, reached, faults>>

\* The request is lost or the handler fails: nothing retries it.
CallbackLost(c) ==
  /\ c \in callbacks
  /\ callbacks' = callbacks \ {c}
  /\ UNCHANGED <<dbVars, doserVars, outboxVars, consVars, sendQueue, results,
                 reached, faults>>

\* A poller's answer for a recipient who was reached.
RepliesWebhook(t) ==
  /\ t \in reached
  /\ "replied" \in RecipientStatus
  /\ RegisterReply(t)
  /\ UNCHANGED <<doserVars, outboxVars, consVars, brokerVars, faults>>

\* The same phone unsubscribes in a reply to another campaign of the tenant.
UnsubscribedElsewhere(t) ==
  /\ t \notin blocked
  /\ blocked' = blocked \cup {t}
  /\ UNCHANGED <<status, attempt, waiting, outbox, doserVars, outboxVars,
                 consVars, brokerVars, faults>>

-----------------------------------------------------------------------------
(* What the broker, the connection and the host do to the process.         *)

\* A channel exception or a lost connection.  Both are only logged: neither
\* the outbox worker nor Run opens a channel again.
ChannelCloses ==
  /\ Fault
  /\ ChannelsMayClose
  /\ <<amqpChan, consumer>>' # <<amqpChan, consumer>>
  /\ UNCHANGED <<dbVars, doserVars, batch, published, hand, applied, brokerVars>>

\* The process stops and is started again: what it held in memory is gone, what
\* the broker did not get acknowledged is delivered again, on new channels.  A
\* restart because the outbox channel has closed is not counted: the closing was.
Crash ==
  /\ \/ amqpChan = "closed" /\ UNCHANGED faults
     \/ Fault
  /\ selected' = NoTarget
  /\ batch' = {}
  /\ published' = {}
  /\ amqpChan' = "open"
  /\ hand' = NoResult
  /\ applied' = FALSE
  /\ consumer' = "running"
  /\ buffered' = {}
  /\ UNCHANGED <<dbVars, brokerVars>>

-----------------------------------------------------------------------------
Doser ==
  \/ \E t \in Target : SelectTarget(t)
  \/ AssignAndEnqueue
  \/ AssignRefused
  \/ DeferRetries

Outbox ==
  \/ FetchBatch
  \/ \E r \in batch : PublishRow(r)
  \/ \E r \in batch : RejectRow(r)
  \/ \E r \in batch : SkipRow(r)
  \/ \E r \in batch : ConfirmLost(r)
  \/ MarkProcessed
  \/ MarkFails

Worker ==
  \/ \E m \in sendQueue, o \in WorkerOutcome : WorkerSend(m, o)
  \/ \E t \in reached, s \in RecipientStatus : RecipientReport(t, s)

Consumer ==
  \/ \E r \in results : TakeResult(r)
  \/ ApplyResult
  \/ ApplyReply
  \/ AckResult
  \/ AckAndHang
  \/ ResultRedelivered
  \/ RunExits

Http ==
  \/ \E c \in callbacks : WorkerCallback(c)
  \/ \E c \in callbacks : CallbackLost(c)
  \/ \E t \in reached : RepliesWebhook(t)
  \/ \E t \in Target : UnsubscribedElsewhere(t)

Next ==
  \/ Doser
  \/ Outbox
  \/ Worker
  \/ Consumer
  \/ Http
  \/ \E t \in Target : RetryDue(t)
  \/ ChannelCloses
  \/ Crash

Spec == Init /\ [][Next]_vars

\* The outbox worker is a ticker loop: each tick fetches, handles every row it
\* fetched, whatever becomes of it, and marks.  Nothing is claimed of a closed
\* channel.  A cold row is not skipped at every tick: a work window that is not
\* empty comes back every day, and a row that is among the oldest stays there.
\* The delivery loop of Run finishes what it is handed and is handed the results
\* in the order of the queue, for as long as it runs; once its deliveries have
\* ended, or flush hangs, TakeResult is disabled and nothing is claimed.
\* External: a worker that holds a message eventually reports, and what is
\* published on an open channel is confirmed or nacked.
Fairness ==
  /\ WF_vars(FetchBatch)
  /\ WF_vars(\E r \in batch : PublishRow(r) \/ RejectRow(r) \/ SkipRow(r))
  /\ \A t \in Cold :
       SF_vars(\E r \in batch : r.target = t /\ (PublishRow(r) \/ RejectRow(r)))
  /\ WF_vars(MarkProcessed)
  /\ WF_vars(\E m \in sendQueue, o \in WorkerOutcome : WorkerSend(m, o))
  /\ \A t \in Target :
       SF_vars(\E r \in results : r.target = t /\ r.attempt > 0 /\ TakeResult(r))
  /\ WF_vars(ApplyResult \/ ApplyReply)
  /\ WF_vars(AckResult)

FairSpec == Spec /\ Fairness

-----------------------------------------------------------------------------
(* Safety                                                                  *)

\* The retry budget: no target is ever dosed more than MaxRetryAttempts
\* times, and one that waits for a retry still has an attempt left, however
\* results are repeated and whatever reaches the callback handler first
\* (ApplyRetryableFailure is the only writer that reopens a target).
AttemptBound ==
  \A t \in Target :
    /\ attempt[t] <= MaxRetryAttempts
    /\ status[t] = "retry_pending" => attempt[t] < MaxRetryAttempts

\* The claim and its outbox row are one transaction: the outbox holds exactly
\* one row for every attempt counted on the target, whatever crashes.
RowPerAttempt ==
  /\ \A r \in DOMAIN outbox : r.attempt \in 1..attempt[r.target]
  /\ \A t \in Target : \A k \in 1..attempt[t] :
       [target |-> t, attempt |-> k] \in DOMAIN outbox

\* A row is marked processed only if the broker has its message or a blocked
\* result was issued for it: no attempt is dropped between the outbox and
\* the queue by a crash, a skip or a failed write.
NoRowLost ==
  \A r \in DOMAIN outbox : outbox[r].status = "processed" => Copies(r) > 0

\* At-least-once, and not more often than faults explain: a row reaches its
\* queue once, plus at most once for every crash, lost confirm, closed channel or
\* failed MarkAsProcessedBatch.
CopiesBounded ==
  \A r \in DOMAIN outbox : Copies(r) <= 1 + faults

\* The attempts of a target that may still send a message: the row is still
\* to be published, or its message is in the queue.
OpenAttempts(t) ==
  {r.attempt : r \in {x \in PendingRows \ published : x.target = t}}
  \cup {m.attempt : m \in {x \in sendQueue : x.target = t}}

\* "A pending target with attempt_count > 0 already has an in-flight outbox
\* and is NOT re-selected until the worker returns a terminal or retryable
\* result.  This prevents the duplicate-dosing race": at most one attempt of
\* a target can still send (getNextPendingTarget).
SingleFlight ==
  \A t \in Target : Cardinality(OpenAttempts(t)) <= 1

\* The same, as long as nothing is delivered or published twice.
SingleFlightWithoutFaults == faults = 0 => SingleFlight

\* "Rank is used so viewed/replied cannot be overwritten by an earlier
\* status": a target that was viewed or answered stays so.
ViewedRepliedKept ==
  [][\A t \in Target :
       status[t] \in {"viewed", "replied"}
         => status'[t] \in {"viewed", "replied"}]_vars

\* What a target looks like from outside.
Lifecycle ==
  INSTANCE TargetLifecycle
    WITH phase <- [t \in Target |-> Phase(status[t], attempt[t])],
         doses <- attempt,
         enqueued <- DOMAIN outbox

\* The pipeline keeps what TargetLifecycle promises: crashes, redelivered
\* results, lost confirms and callbacks that overtake results notwithstanding,
\* a target is dosed only when nothing recorded is in flight, within its
\* budget, with one outbox row per dose, and never after it was closed.
ImplementsLifecycle == Lifecycle!Spec

-----------------------------------------------------------------------------
(* Liveness, under FairSpec                                                *)

\* The channel of the outbox worker is not closed forever, and Run is not left
\* forever: each time one ends, a restart follows.
OutboxConnected   == []<>(amqpChan = "open")
ConsumerConnected == []<>(consumer = "running")

\* Every outbox row is eventually published or rejected and marked, behind cold
\* rows that wait for the work window, with crashes, lost confirms, failed
\* updates and closed channels in between, unless the channel of the worker
\* closes and no restart follows.
OutboxDrains ==
  OutboxConnected =>
    \A t \in Target :
      (\E r \in PendingRows : r.target = t) ~>
        ~(\E r \in PendingRows : r.target = t)

\* A dosed target eventually leaves pending, provided that the processes at both
\* ends of the queues are restarted whenever their channels close, and unless
\* its row was answered by the unconfirmed blocked result, which may be lost.
InFlightResolves ==
  OutboxConnected /\ ConsumerConnected =>
    \A t \in Target :
      (status[t] = "pending" /\ attempt[t] > 0) ~>
        \/ status[t] # "pending"
        \/ \E r \in DOMAIN outbox : r.target = t /\ outbox[r].rejects > 0
=============================================================================
