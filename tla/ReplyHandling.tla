--------------------------- MODULE ReplyHandling ---------------------------
(***************************************************************************)
(* ResultConsumer and a client's reply: Run receives it and flushes at     *)
(* once (batchSize is 1), a ticker goroutine flushes too, and rc.mu is     *)
(* held from the beginning of a flush to its end.  The flush registers the *)
(* reply, adds an unsubscriber to the blocklist, acknowledges, and then    *)
(* sleeps and publishes one notification for every admin phone.  Beside it *)
(* run the replies webhook, which registers the same replies, the results  *)
(* that change the status of the target, and the refresh of the blocklist. *)
(*                                                                         *)
(* One tenant with known admin phones, one sender account.  A reply is     *)
(* identified with its text; two deliveries of it are close enough in time *)
(* to be taken for duplicates.                                             *)
(***************************************************************************)
EXTENDS BlocklistCache, Naturals

CONSTANTS
  Reply,          \* replies of clients, delivered through the results queue
  TargetOf,       \* the target a reply belongs to
  Unsubscribe,    \* replies whose text is an unsubscribe word
  AdminPhone,     \* the tenant's admin phones
  NoReply,        \* a target without a reply, a goroutine without one
  MaxWebhooks,    \* bound on the replies registered by the webhook
  MaxFaults       \* bound on failed statements, lost acks and restarts

ASSUME ReplyAssumption ==
  /\ TargetOf \in [Reply -> Recipient]
  /\ Unsubscribe \subseteq Reply
  /\ NoReply \notin Reply
ASSUME BoundAssumption == MaxWebhooks \in Nat /\ MaxFaults \in Nat

VARIABLES
  status,      \* campaign_targets.status, as far as replies look at it
  lastReply,   \* campaign_targets.last_reply_text
  rows,        \* campaign_replies: number of rows of a reply
  queue,       \* replies in the results queue, unacknowledged ones included
  ready,       \* those of them that are not with a consumer
  deliveries,  \* the channel on which Run consumes
  run,         \* where Run is
  got,         \* the reply Run has received
  tick,        \* where flushLoop is
  results,     \* rc.results
  mu,          \* who holds rc.mu
  step,        \* where the flush of that goroutine is
  hand,        \* the reply being flushed
  left,        \* admin phones still to be notified of it
  chan,        \* rc.amqpChan
  (* observations *)
  notified,    \* notifications published of a reply to a phone
  webhooks, faults

dbVars    == <<status, lastReply, rows, table>>
flushVars == <<mu, step, hand, left>>
brokerVars == <<queue, ready, deliveries>>
loopVars  == <<run, got, tick, results>>
vars == <<dbVars, cacheVars, brokerVars, loopVars, flushVars, chan, notified,
          webhooks, faults>>

Goroutine == {"run", "tick"}
FlushStep == {"none", "check", "register", "target", "load", "store", "ack",
              "notify", "publish", "reconnect"}

TypeOK ==
  /\ CacheTypeOK
  /\ status \in [Recipient -> {"sent", "replied", "failed"}]
  /\ lastReply \in [Recipient -> Reply \cup {NoReply}]
  /\ rows \in [Reply -> Nat]
  /\ queue \subseteq Reply
  /\ ready \subseteq queue
  /\ deliveries \in {"open", "closed"}
  /\ run \in {"start", "receive", "append", "flush", "exited"}
  /\ got \in Reply \cup {NoReply}
  /\ tick \in {"wait", "flush"}
  /\ results \subseteq Reply
  /\ mu \in Goroutine \cup {"free"}
  /\ step \in FlushStep
  /\ hand \in Reply \cup {NoReply}
  /\ left \subseteq AdminPhone
  /\ chan \in {"open", "closed"}
  /\ notified \in [Reply -> [AdminPhone -> Nat]]
  /\ webhooks \in 0..MaxWebhooks
  /\ faults \in 0..MaxFaults

Init ==
  /\ CacheInit
  /\ status = [p \in Recipient |-> "sent"]
  /\ lastReply = [p \in Recipient |-> NoReply]
  /\ rows = [r \in Reply |-> 0]
  /\ queue = Reply /\ ready = Reply /\ deliveries = "closed"
  /\ run = "start" /\ got = NoReply /\ tick = "wait"
  /\ results = {}
  /\ mu = "free" /\ step = "none" /\ hand = NoReply /\ left = {}
  /\ chan = "closed"
  /\ notified = [r \in Reply |-> [a \in AdminPhone |-> 0]]
  /\ webhooks = 0
  /\ faults = 0

Fault == faults < MaxFaults /\ faults' = faults + 1

-----------------------------------------------------------------------------
(* rc.amqpChan                                                             *)

\* reconnect locks rc.mu.  NewResultConsumer calls it when the process
\* starts, before Run opens a channel of its own; a flush whose publication
\* failed calls it, too, with rc.mu held.
Reconnect ==
  /\ run = "start" \/ step = "reconnect"
  /\ mu = "free"
  /\ chan' = "open"
  /\ IF run = "start"
     THEN run' = "receive" /\ deliveries' = "open"
     ELSE UNCHANGED <<run, deliveries>>
  /\ step' = IF step = "reconnect" THEN "publish" ELSE step
  /\ UNCHANGED <<dbVars, cacheVars, queue, ready, got, tick, results, mu, hand,
                 left, notified, webhooks, faults>>

\* The broker closes a channel, or both with the connection.
ChannelCloses ==
  /\ run # "start"
  /\ Fault
  /\ chan' \in {chan, "closed"}
  /\ deliveries' \in {deliveries, "closed"}
  /\ <<chan, deliveries>>' # <<chan, deliveries>>
  /\ UNCHANGED <<dbVars, cacheVars, queue, ready, loopVars, flushVars, notified,
                 webhooks>>

-----------------------------------------------------------------------------
(* Run and flushLoop                                                       *)

\* Mutant: the delivery is not taken from the broker.
ReceiveWithoutTaking(r) ==
  /\ run = "receive"
  /\ r \in ready
  /\ run' = "append"
  /\ got' = r
  /\ UNCHANGED <<dbVars, cacheVars, brokerVars, tick, results, flushVars, chan,
                 notified, webhooks, faults>>

\* What the library has buffered is received from a closed channel, too.
Receive(r) ==
  /\ run = "receive"
  /\ r \in ready
  /\ ready' = ready \ {r}
  /\ run' = "append"
  /\ got' = r
  /\ UNCHANGED <<dbVars, cacheVars, queue, deliveries, tick, results, flushVars,
                 chan, notified, webhooks, faults>>

\* The delivery channel is closed: Run returns and nothing starts it again.
RunExits ==
  /\ run = "receive"
  /\ deliveries = "closed"
  /\ run' = "exited"
  /\ UNCHANGED <<dbVars, cacheVars, brokerVars, got, tick, results, flushVars,
                 chan, notified, webhooks, faults>>

\* Mutant: the batch may grow before it is flushed.
AppendWithoutFlush ==
  /\ run = "append" /\ mu = "free"
  /\ results' = results \cup {got}
  /\ got' = NoReply
  /\ run' = "receive"
  /\ UNCHANGED <<dbVars, cacheVars, brokerVars, tick, flushVars, chan, notified,
                 webhooks, faults>>

Append ==
  /\ run = "append" /\ mu = "free"
  /\ results' = results \cup {got}
  /\ got' = NoReply
  /\ run' = "flush"
  /\ UNCHANGED <<dbVars, cacheVars, brokerVars, tick, flushVars, chan, notified,
                 webhooks, faults>>

Tick ==
  /\ run # "start"
  /\ tick = "wait"
  /\ tick' = "flush"
  /\ UNCHANGED <<dbVars, cacheVars, brokerVars, run, got, results, flushVars, chan,
                 notified, webhooks, faults>>

Return(g) ==
  IF g = "run" THEN run' = "receive" /\ UNCHANGED tick
               ELSE tick' = "wait" /\ UNCHANGED run

\* flush locks rc.mu and takes what is queued; there is never more than one
\* result (SingleResult).
BeginFlush(g) ==
  /\ (g = "run" /\ run = "flush") \/ (g = "tick" /\ tick = "flush")
  /\ mu = "free"
  /\ IF results = {}
     THEN Return(g) /\ UNCHANGED <<results, flushVars>>
     ELSE /\ mu' = g /\ step' = "check" /\ left' = {}
          /\ hand' \in results
          /\ results' = results \ {hand'}
          /\ UNCHANGED <<run, tick>>
  /\ UNCHANGED <<dbVars, cacheVars, brokerVars, got, chan, notified, webhooks,
                 faults>>

EndFlush ==
  /\ Return(mu)
  /\ mu' = "free" /\ step' = "none" /\ hand' = NoReply /\ left' = {}

-----------------------------------------------------------------------------
(* The flush of a reply                                                    *)

\* The target is answered with the same text.
Duplicate(r) ==
  /\ status[TargetOf[r]] = "replied"
  /\ lastReply[TargetOf[r]] = r

\* The broker hears of an acknowledgement while the channel of Run is open.
AckHand ==
  /\ queue' = IF deliveries = "open" THEN queue \ {hand} ELSE queue
  /\ UNCHANGED <<ready, deliveries>>

\* Mutant: the duplicate is not left there.
CheckDuplicateGoesOn ==
  /\ step = "check"
  /\ step' = IF Duplicate(hand) THEN "ack" ELSE "register"
  /\ UNCHANGED <<dbVars, cacheVars, brokerVars, loopVars, mu, hand, left, chan,
                 notified, webhooks, faults>>

\* A duplicate is acknowledged and left at that, unless the target cannot be
\* read, or was answered more than two minutes before or after: then it is
\* registered like any other reply.
CheckDuplicate ==
  /\ step = "check"
  /\ \/ Duplicate(hand) /\ EndFlush /\ AckHand
     \/ step' = "register" /\ UNCHANGED <<run, tick, mu, hand, left, brokerVars>>
  /\ UNCHANGED <<dbVars, cacheVars, got, results, chan, notified, webhooks,
                 faults>>

\* Mutant: the block is left to the cache.
RegisterWithoutBlock(r) ==
  /\ status' = [status EXCEPT ![TargetOf[r]] = "replied"]
  /\ lastReply' = [lastReply EXCEPT ![TargetOf[r]] = r]
  /\ rows' = [rows EXCEPT ![r] = @ + 1]
  /\ UNCHANGED table

\* RegisterReply commits: status, text, a row, and the block.
Register(r) ==
  /\ status' = [status EXCEPT ![TargetOf[r]] = "replied"]
  /\ lastReply' = [lastReply EXCEPT ![TargetOf[r]] = r]
  /\ rows' = [rows EXCEPT ![r] = @ + 1]
  /\ IF r \in Unsubscribe THEN BlockRecipient(TargetOf[r]) ELSE UNCHANGED table

RegisterReply ==
  /\ step = "register"
  /\ Register(hand)
  /\ step' = "target"
  /\ UNCHANGED <<cacheVars, brokerVars, loopVars, mu, hand, left, chan, notified,
                 webhooks, faults>>

\* The target is read for its phone and name.
GetTarget ==
  /\ step = "target"
  /\ step' = IF hand \in Unsubscribe THEN "load" ELSE "ack"
  /\ UNCHANGED <<dbVars, cacheVars, brokerVars, loopVars, mu, hand, left, chan,
                 notified, webhooks, faults>>

\* Mutants: the failed result is not put back; it is acknowledged like any
\* other.
NackDrops ==
  /\ step \in {"register", "target"}
  /\ Fault
  /\ EndFlush
  /\ UNCHANGED <<dbVars, cacheVars, brokerVars, got, results, chan, notified,
                 webhooks>>
NackAcknowledges ==
  /\ step \in {"register", "target"}
  /\ Fault
  /\ step' = "ack"
  /\ UNCHANGED <<dbVars, cacheVars, brokerVars, loopVars, mu, hand, left, chan,
                 notified, webhooks>>

\* RegisterReply or the read after it fails: nack with requeue.
Nack ==
  /\ step \in {"register", "target"}
  /\ Fault
  /\ EndFlush
  /\ ready' = IF deliveries = "open" THEN ready \cup {hand} ELSE ready
  /\ UNCHANGED <<dbVars, cacheVars, queue, deliveries, got, results, chan,
                 notified, webhooks>>

BlocklistAdd ==
  /\ \/ step = "load" /\ AddLoad(TargetOf[hand]) /\ step' = "store"
     \/ step = "store" /\ AddEnd /\ step' = "ack"
  /\ UNCHANGED <<dbVars, brokerVars, loopVars, mu, hand, left, chan, notified,
                 webhooks, faults>>

Ack ==
  /\ step = "ack"
  /\ AckHand
  /\ step' = "notify"
  /\ left' = AdminPhone
  /\ UNCHANGED <<dbVars, cacheVars, loopVars, mu, hand, chan, notified, webhooks,
                 faults>>

\* The delay before the next phone is over.  On a closed channel the queue
\* cannot be declared and the notification is given up.
Notify ==
  /\ step = "notify" /\ left # {}
  /\ IF chan = "open" THEN step' = "publish" /\ UNCHANGED left
     ELSE \E a \in left : left' = left \ {a} /\ UNCHANGED step
  /\ UNCHANGED <<dbVars, cacheVars, brokerVars, loopVars, mu, hand, chan, notified,
                 webhooks, faults>>

Publish(a) ==
  /\ step = "publish" /\ a \in left
  /\ chan = "open"
  /\ notified' = [notified EXCEPT ![hand][a] = @ + 1]
  /\ left' = left \ {a}
  /\ step' = "notify"
  /\ UNCHANGED <<dbVars, cacheVars, brokerVars, loopVars, mu, hand, chan, webhooks,
                 faults>>

\* The channel was closed after the queue had been declared.
PublishFails ==
  /\ step = "publish"
  /\ chan = "closed"
  /\ step' = "reconnect"
  /\ UNCHANGED <<dbVars, cacheVars, brokerVars, loopVars, mu, hand, left, chan,
                 notified, webhooks, faults>>

Notified ==
  /\ step = "notify" /\ left = {}
  /\ EndFlush
  /\ UNCHANGED <<dbVars, cacheVars, brokerVars, got, results, chan, notified,
                 webhooks, faults>>

-----------------------------------------------------------------------------
(* Meanwhile                                                               *)

\* A poller found the same reply and posts it.
RepliesWebhook(r) ==
  /\ run # "start"
  /\ webhooks < MaxWebhooks
  /\ webhooks' = webhooks + 1
  /\ Register(r)
  /\ UNCHANGED <<cacheVars, brokerVars, loopVars, flushVars, chan, notified, faults>>

\* A final failure of the message arrives late.
LateFailure(p) ==
  /\ run # "start"
  /\ status[p] # "failed"
  /\ status' = [status EXCEPT ![p] = "failed"]
  /\ UNCHANGED <<lastReply, rows, table, cacheVars, brokerVars, loopVars, flushVars,
                 chan, notified, webhooks, faults>>

Refresh ==
  /\ RefreshList \/ RefreshStore
  /\ UNCHANGED <<dbVars, brokerVars, loopVars, flushVars, chan, notified, webhooks,
                 faults>>

\* ListBlockedRecipients fails: the map is left as it is.
RefreshFails ==
  /\ listed # NoMap
  /\ listed' = NoMap
  /\ UNCHANGED <<dbVars, cache, loaded, adding, brokerVars, loopVars, flushVars,
                 chan, notified, webhooks, faults>>

Restart ==
  /\ Fault
  /\ CacheRestart
  /\ run' = "start" /\ got' = NoReply /\ tick' = "wait"
  /\ results' = {}
  /\ mu' = "free" /\ step' = "none" /\ hand' = NoReply /\ left' = {}
  /\ chan' = "closed"
  /\ deliveries' = "closed" /\ ready' = queue
  /\ UNCHANGED <<dbVars, queue, notified, webhooks>>

-----------------------------------------------------------------------------
Flush ==
  \/ CheckDuplicate
  \/ RegisterReply
  \/ GetTarget
  \/ Nack
  \/ BlocklistAdd
  \/ Ack
  \/ Notify
  \/ \E a \in AdminPhone : Publish(a)
  \/ PublishFails
  \/ Notified

Next ==
  \/ Reconnect
  \/ ChannelCloses
  \/ \E r \in Reply : Receive(r)
  \/ RunExits
  \/ Append
  \/ Tick
  \/ \E g \in Goroutine : BeginFlush(g)
  \/ Flush
  \/ \E r \in Reply : RepliesWebhook(r)
  \/ \E p \in Recipient : LateFailure(p)
  \/ Refresh
  \/ RefreshFails
  \/ Restart

Spec == Init /\ [][Next]_vars

\* The goroutines of the consumer run, each delivery is received in its turn,
\* a mutex that is free again and again is acquired by whoever waits for it,
\* and a refresh does not fail forever.
Fairness ==
  /\ WF_vars(Reconnect)
  /\ \A r \in Reply : SF_vars(Receive(r))
  /\ SF_vars(Append)
  /\ \A g \in Goroutine : SF_vars(BeginFlush(g))
  /\ WF_vars(Flush)
  /\ WF_vars(RefreshList /\ Refresh)
  /\ SF_vars(RefreshStore /\ Refresh)

FairSpec == Spec /\ Fairness

-----------------------------------------------------------------------------
(* Properties                                                              *)

\* A flush never finds more than one result: Run flushes after every
\* delivery, although the ticker may have taken the result already.
SingleResult == Cardinality(results) <= 1

\* A reply leaves the queue only after a transaction has registered it: no
\* failure, duplicate or restart loses one.
AckedMeansRegistered == \A r \in Reply : r \notin queue => rows[r] > 0

\* No admin is notified twice of one registration: a redelivery after the
\* commit is either recognised as a duplicate or registered again.
NotifyBounded ==
  \A r \in Reply, a \in AdminPhone : notified[r][a] <= rows[r]

Delivery ==
  INSTANCE ReplyDelivery
    WITH queued <- queue, registered <- rows, answer <- lastReply,
         blocked <- table, told <- notified

\* Whatever is lost, repeated or done twice at once on the way, the replies
\* stay within the promise of ReplyDelivery: the two properties above, and one
\* step for the text, the row and the block.
ImplementsDelivery == Delivery!Spec

\* Once a recipient is in the cache and neither a refresh nor an addition
\* that does not know it is under way, it stays there until a restart.
SettledStays ==
  [][\A p \in Recipient : Settled(p) => Settled(p)' \/ run' = "start"]_vars

\* A recipient who unsubscribed is eventually in the cache, although a
\* refresh may drop what Add stored, Add may drop what a refresh stored, the
\* webhook does not add, and a nacked reply comes back as a duplicate.
CacheCatchesUp ==
  \A p \in Recipient : p \in table ~> IsBlocked(p)

\* Every reply in the queue is eventually registered, unless the channel of
\* Run was closed or a flush is waiting for the mutex that it holds.
RepliesRegistered ==
  \A r \in Reply :
    r \in queue ~> \/ rows[r] > 0
                   \/ deliveries = "closed" /\ run # "start"
                   \/ step = "reconnect"

\* "trying to reconnect ... Try once more after reconnect": a publication
\* that failed is tried again.
ReconnectReturns == step = "reconnect" ~> step # "reconnect"
=============================================================================
