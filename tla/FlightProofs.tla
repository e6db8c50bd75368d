---------------------------- MODULE FlightProofs -----------------------------
(***************************************************************************)
(* Why SendPipeline has one attempt of a target in flight at a time, as    *)
(* long as nothing is delivered or published twice, and why it never has   *)
(* a target in flight without one, whatever fails.                         *)
(*                                                                         *)
(* An attempt is handed on like a token: it is a row to be published, then *)
(* a message in the queue of its account, then, if the worker asks for a   *)
(* retry, a report to be applied; and only applying that report lets the   *)
(* doser claim the target again.  FlightInv says that each target has one  *)
(* token at most, and none while it waits for a retry; CarriedInv that the *)
(* current attempt of a target in flight has one at least.                 *)
(***************************************************************************)
EXTENDS SendPipelineProofs, FiniteSetTheorems

\* Rows that are still to be published.
Waiting == PendingRows \ published

\* Reports that ask for a retry and have not been applied.
Retrying ==
  {x \in results : WriterOfResult(x) = "retry" /\ ~(applied /\ hand = x)}

Tokens(t) == {x \in Waiting \cup sendQueue \cup Retrying : x.target = t}

TokenOK(t) ==
  /\ \A x, y \in Tokens(t) : x = y
  /\ \A x \in Tokens(t) : x.attempt = attempt[t]
  /\ status[t] = "retry_pending" => Tokens(t) = {}

\* The result that is being flushed has not left the queue.
HandInv == IF hand = NoResult THEN ~applied ELSE hand \in results

FlightInv ==
  /\ HandInv
  /\ faults = 0 => \A t \in Target : TokenOK(t)

\* Nothing is a row, a message and a report at the same time.
LEMMA TokensApart ==
  /\ \A x \in Row : x \notin Message /\ x \notin Result
  /\ \A x \in Message : x \notin Result
  <1>1. \A x \in Row : DOMAIN x = {"target", "attempt"}
    BY DEF Row
  <1>2. \A x \in Message : DOMAIN x = {"target", "attempt", "copy"}
    BY DEF Message
  <1>3. \A x \in Result : DOMAIN x = {"target", "attempt", "copy", "status", "code"}
    BY DEF Result
  <1> QED BY <1>1, <1>2, <1>3

\* A token has a target, and its kind is the set it is in.
LEMMA TokenTypes ==
  ASSUME TypeInv
  PROVE  /\ Waiting \subseteq Row /\ sendQueue \subseteq Message
         /\ Retrying \subseteq Result
  BY DEF TypeInv, TypeOK, Waiting, PendingRows, Retrying

\* A step that makes no token and lets no target wait for a retry.
LEMMA TokenKept ==
  ASSUME NEW t \in Target, TokenOK(t), Tokens(t)' \subseteq Tokens(t),
         attempt'[t] = attempt[t],
         status'[t] = "retry_pending" => status[t] = "retry_pending"
  PROVE  TokenOK(t)'
  BY DEF TokenOK

LEMMA TokensFewer ==
  ASSUME NEW t, Waiting' \subseteq Waiting, sendQueue' \subseteq sendQueue,
         Retrying' \subseteq Retrying
  PROVE  Tokens(t)' \subseteq Tokens(t)
  BY DEF Tokens

LEMMA FewerStep ==
  ASSUME FlightInv, faults' = 0 => faults = 0,
         Waiting' \subseteq Waiting, sendQueue' \subseteq sendQueue,
         Retrying' \subseteq Retrying, UNCHANGED attempt,
         \A t \in Target :
            status'[t] = "retry_pending" => status[t] = "retry_pending",
         HandInv'
  PROVE  FlightInv'
  <1> SUFFICES ASSUME faults' = 0, NEW t \in Target PROVE TokenOK(t)'
    BY DEF FlightInv
  <1>1. TokenOK(t) /\ Tokens(t)' \subseteq Tokens(t)
    BY TokensFewer DEF FlightInv
  <1> QED BY <1>1, TokenKept

-----------------------------------------------------------------------------
(* The steps that move a token.                                            *)

\* A claim mints the only token of its target: it had none before.
LEMMA ClaimFlight ==
  ASSUME BudgetInv, FlightInv, AssignAndEnqueue
  PROVE  FlightInv'
  <1> PICK u \in Target, row \in Row :
        /\ u = selected /\ row = NewRow(u)
        /\ Eligible(u)
        /\ status' = [status EXCEPT ![u] = "pending"]
        /\ attempt' = [attempt EXCEPT ![u] = @ + 1]
        /\ row.target = u /\ row.attempt = attempt[u] + 1
    <2>1. selected \in Target /\ Eligible(selected)
      BY DEF AssignAndEnqueue, BudgetInv, TypeInv, TypeOK
    <2>2. attempt[selected] \in Nat
      BY <2>1 DEF BudgetInv, TypeInv, TypeOK
    <2>3. /\ NewRow(selected) \in Row
          /\ NewRow(selected).target = selected
          /\ NewRow(selected).attempt = attempt[selected] + 1
      BY <2>1, <2>2 DEF NewRow, Row
    <2>4. /\ status' = [status EXCEPT ![selected] = "pending"]
          /\ attempt' = [attempt EXCEPT ![selected] = @ + 1]
      BY DEF AssignAndEnqueue
    <2> QED BY <2>1, <2>3, <2>4
  <1>1. /\ UNCHANGED <<published, sendQueue, results, hand, applied, faults>>
        /\ Waiting' \subseteq Waiting \cup {row}
    <2>1. UNCHANGED <<published, sendQueue, results, hand, applied, faults>>
      BY DEF AssignAndEnqueue, outboxVars, consVars, brokerVars
    <2>2. outbox' = [r \in DOMAIN outbox \cup {row} |->
                       IF r = row
                       THEN [status |-> "pending", before |-> DOMAIN outbox,
                             copies |-> 0, rejects |-> 0]
                       ELSE outbox[r]]
      BY DEF AssignAndEnqueue
    <2>3. PendingRows' \subseteq PendingRows \cup {row}
      BY <2>2 DEF PendingRows
    <2> QED BY <2>1, <2>3 DEF Waiting
  <1>2. Retrying' = Retrying
    BY <1>1 DEF Retrying
  <1>3. HandInv'
    BY <1>1 DEF FlightInv, HandInv
  <1> SUFFICES ASSUME faults = 0, NEW t \in Target PROVE TokenOK(t)'
    BY <1>1, <1>3 DEF FlightInv
  <1>4. TokenOK(t)
    BY DEF FlightInv
  <1>5. status \in [Target -> TaskStatus] /\ attempt \in [Target -> Nat]
    BY DEF BudgetInv, TypeInv, TypeOK
  <1>6. CASE t # u
    <2>1. Tokens(t)' \subseteq Tokens(t)
      BY <1>1, <1>2, <1>6 DEF Tokens
    <2> QED BY <1>4, <1>5, <1>6, <2>1, TokenKept
  <1>7. CASE t = u
    <2>1. ASSUME attempt[u] = 0 PROVE Tokens(t) = {}
      <3>1. ASSUME NEW x \in Waiting PROVE x.target # u
        <4>1. x \in DOMAIN outbox /\ x.attempt \in 1..attempt[x.target]
          BY DEF Waiting, PendingRows, BudgetInv, RowPerAttempt
        <4> QED BY <2>1, <4>1
      <3>2. \A x \in sendQueue \cup Retrying : x.target # u
        BY <2>1 DEF Retrying, BudgetInv, DosedInv
      <3> QED BY <1>7, <3>1, <3>2 DEF Tokens
    <2>2. status[u] = "retry_pending" => Tokens(t) = {}
      BY <1>4, <1>7 DEF TokenOK
    <2>3. Tokens(t) = {}
      BY <2>1, <2>2 DEF Eligible
    <2>4. Tokens(t)' \subseteq {row}
      BY <1>1, <1>2, <2>3 DEF Tokens
    <2>5. attempt'[t] = row.attempt /\ status'[t] = "pending"
      BY <1>5, <1>7
    <2> QED BY <2>4, <2>5 DEF TokenOK
  <1> QED BY <1>6, <1>7

\* One token x of a target is exchanged for another, y, of the same attempt.
LEMMA TokenMoved ==
  ASSUME NEW t \in Target, TokenOK(t), NEW x \in Tokens(t), NEW y,
         y.attempt = x.attempt,
         Tokens(t)' \subseteq (Tokens(t) \ {x}) \cup {y},
         UNCHANGED <<status, attempt>>
  PROVE  TokenOK(t)'
  <1>1. Tokens(t)' \subseteq {y}
    BY DEF TokenOK
  <1> QED BY <1>1 DEF TokenOK

\* The same for all targets: a token of t alone is exchanged, or disappears.
LEMMA MoveStep ==
  ASSUME FlightInv, NEW t \in Target, NEW x \in Tokens(t), NEW y,
         y.target = t, y.attempt = x.attempt,
         \A u \in Target :
            Tokens(u)' \subseteq
              (Tokens(u) \ {x}) \cup (IF u = t THEN {y} ELSE {}),
         UNCHANGED <<status, attempt>>, faults' = 0 => faults = 0, HandInv'
  PROVE  FlightInv'
  <1> SUFFICES ASSUME faults' = 0, NEW u \in Target PROVE TokenOK(u)'
    BY DEF FlightInv
  <1>1. TokenOK(u)
    BY DEF FlightInv
  <1>2. CASE u = t
    BY <1>1, <1>2, TokenMoved
  <1>3. CASE u # t
    <2>1. Tokens(u)' \subseteq Tokens(u)
      BY <1>3
    <2> QED BY <1>1, <2>1, TokenKept
  <1> QED BY <1>2, <1>3

\* Publishing exchanges the row for its message.
LEMMA PublishFlight ==
  ASSUME TypeInv, FlightInv, NEW r \in batch, PublishRow(r)
  PROVE  FlightInv'
  <1>1. r \in DOMAIN outbox /\ r \in Row /\ r \in Waiting
    BY DEF TypeInv, BatchOK, TypeOK, PendingRows, Waiting
  <1>2. r.target \in Target /\ r \in Tokens(r.target)
    BY <1>1 DEF Row, Tokens
  <1> DEFINE m == NextMessage(r)
  <1>3. m.target = r.target /\ m.attempt = r.attempt
    BY DEF NextMessage
  <1>4. UNCHANGED <<status, attempt, results, hand, applied, faults>>
    BY DEF PublishRow, consVars
  <1>5. PendingRows' = PendingRows
    BY <1>1, RowUpdate DEF PublishRow, TypeInv
  <1>6. Waiting' = Waiting \ {r} /\ sendQueue' = sendQueue \cup {m}
    BY <1>5 DEF PublishRow, Waiting
  <1>7. Retrying' = Retrying /\ HandInv'
    BY <1>4 DEF Retrying, HandInv, FlightInv
  <1>8. r \notin sendQueue \cup Retrying
    BY <1>1, TokensApart, TokenTypes
  <1> HIDE DEF m
  <1>9. ASSUME NEW u \in Target
        PROVE  Tokens(u)' \subseteq
                 (Tokens(u) \ {r}) \cup (IF u = r.target THEN {m} ELSE {})
    BY <1>3, <1>6, <1>7, <1>8 DEF Tokens
  <1> QED BY <1>2, <1>3, <1>4, <1>7, <1>9, MoveStep

\* A worker exchanges a message for a report that asks for a retry, or ends
\* the attempt.
LEMMA WorkerFlight ==
  ASSUME TypeInv, FlightInv,
         NEW m \in sendQueue, NEW o \in WorkerOutcome, WorkerSend(m, o)
  PROVE  FlightInv'
  <1>1. m \in Message /\ m.target \in Target /\ m \in Tokens(m.target)
    BY DEF TypeInv, TypeOK, Message, Tokens
  <1> DEFINE x == ReportOf(m, o)
  <1>2. x.target = m.target /\ x.attempt = m.attempt
    BY DEF ReportOf
  <1>3. UNCHANGED <<status, attempt, outbox, published, hand, applied, faults>>
    BY DEF WorkerSend, dbVars, outboxVars, consVars
  <1>4. sendQueue' = sendQueue \ {m} /\ results' = results \cup {x}
    BY DEF WorkerSend
  <1>5. Waiting' = Waiting /\ HandInv'
    BY <1>3, <1>4 DEF Waiting, PendingRows, HandInv, FlightInv
  <1>6. Retrying' \subseteq Retrying \cup {x}
    BY <1>3, <1>4 DEF Retrying
  <1>7. m \notin Waiting \cup Retrying
    BY <1>1, TokensApart, TokenTypes
  <1> HIDE DEF x
  <1>8. ASSUME NEW u \in Target
        PROVE  Tokens(u)' \subseteq
                 (Tokens(u) \ {m}) \cup (IF u = m.target THEN {x} ELSE {})
    BY <1>2, <1>4, <1>5, <1>6, <1>7 DEF Tokens
  <1> QED BY <1>1, <1>2, <1>3, <1>5, <1>8, MoveStep

-----------------------------------------------------------------------------
(* The steps that end a token, or leave them all alone.                    *)

\* Only a report that asks for a retry lets its target wait for one.
LEMMA RetryWritten ==
  ASSUME NEW old \in TaskStatus, NEW n \in Nat, NEW max \in Nat,
         NEW o, o.status \in TaskStatus, o.code \in ErrorCode,
         StatusAfterResult(old, n, max, o) = "retry_pending",
         old # "retry_pending"
  PROVE  WriterOfResult(o) = "retry"
  <1>1. ASSUME WriterOfResult(o) = "update" PROVE FALSE
    BY <1>1, UpdateRange, WriterRange DEF StatusAfterResult
  <1>2. ASSUME WriterOfResult(o) = "fail" PROVE FALSE
    BY <1>2, UpdateRange DEF StatusAfterResult
  <1>3. ASSUME WriterOfResult(o) = "unknown" PROVE FALSE
    BY <1>3 DEF StatusAfterResult, MarkTargetDeliveryUnknown
  <1> QED BY <1>1, <1>2, <1>3, WriterRange

\* Applying a result ends its token; the target that waits for a retry
\* afterwards had no other.
LEMMA ApplyFlight ==
  ASSUME TypeInv, FlightInv, ApplyResult
  PROVE  FlightInv'
  <1>1. /\ hand \in Result /\ hand \in results
        /\ hand.target \in Target
        /\ hand.status \in TaskStatus /\ hand.code \in ErrorCode
    BY DEF ApplyResult, FlightInv, HandInv, TypeInv, TypeOK, Result
  <1> DEFINE u == hand.target
             new == StatusAfterResult(status[u], attempt[u], MaxRetryAttempts,
                                      hand)
  <1>2. /\ status' = [status EXCEPT ![u] = new]
        /\ applied' = TRUE /\ applied = FALSE
        /\ UNCHANGED <<attempt, outbox, published, sendQueue, results, hand,
                       faults>>
    <2>1. status' = [status EXCEPT ![u] =
                       StatusAfterResult(@, attempt[u], MaxRetryAttempts, hand)]
      BY DEF ApplyResult
    <2>2. status' = [status EXCEPT ![u] = new]
      BY <1>1, <2>1 DEF TypeInv, TypeOK
    <2>3. applied' = TRUE /\ applied = FALSE
      BY DEF ApplyResult, TypeInv, TypeOK
    <2> QED BY <2>2, <2>3 DEF ApplyResult, outboxVars, brokerVars
  <1>3. status[u] \in TaskStatus /\ attempt[u] \in Nat
    BY <1>1 DEF TypeInv, TypeOK
  <1>4. new = "retry_pending" /\ status[u] # "retry_pending"
           => WriterOfResult(hand) = "retry"
    BY <1>1, <1>3, RetryWritten, MaxRetryAssumption
  <1>5. /\ Waiting' = Waiting /\ sendQueue' = sendQueue
        /\ Retrying' = Retrying \ {hand}
        /\ HandInv'
    <2>1. hand # NoResult
      BY DEF ApplyResult
    <2>2. HandInv'
      BY <1>1, <1>2, <2>1 DEF HandInv
    <2>3. Retrying' = Retrying \ {hand}
      BY <1>2 DEF Retrying
    <2> QED BY <1>2, <2>2, <2>3 DEF Waiting, PendingRows
  <1> HIDE DEF new
  <1> SUFFICES ASSUME faults = 0, NEW t \in Target PROVE TokenOK(t)'
    BY <1>2, <1>5 DEF FlightInv
  <1>6. TokenOK(t) /\ Tokens(t)' \subseteq Tokens(t)
    BY <1>5, TokensFewer DEF FlightInv
  <1>7. CASE status'[t] = "retry_pending" => status[t] = "retry_pending"
    BY <1>2, <1>6, <1>7, TokenKept
  <1>8. CASE status'[t] = "retry_pending" /\ status[t] # "retry_pending"
    <2>1. t = u /\ WriterOfResult(hand) = "retry"
      BY <1>1, <1>2, <1>4, <1>8 DEF TypeInv, TypeOK
    <2>2. hand \in Tokens(t)
      BY <1>1, <1>2, <2>1 DEF Tokens, Retrying
    <2>3. hand \notin Waiting \cup sendQueue
      BY <1>1, TokensApart, TokenTypes
    <2>4. hand \notin Tokens(t)'
      BY <1>5, <2>3 DEF Tokens
    <2>5. Tokens(t)' = {}
      BY <1>6, <2>2, <2>4 DEF TokenOK
    <2> QED BY <2>5 DEF TokenOK
  <1> QED BY <1>7, <1>8

\* A target that nothing reopens starts to wait for a retry in ApplyResult only.
LEMMA NoRetryStep ==
  ASSUME BudgetInv, [Next]_vars, ~Reopens, ~ApplyResult, ~AssignAndEnqueue,
         NEW t \in Target, status'[t] = "retry_pending"
  PROVE  status[t] = "retry_pending"
  <1>1. status \in [Target -> TaskStatus]
    BY DEF BudgetInv, TypeInv, TypeOK
  <1>2. ASSUME NEW u \in Target, NEW new, status' = [status EXCEPT ![u] = new],
               new = "retry_pending" => status[u] = "retry_pending"
        PROVE  status[t] = "retry_pending"
    BY <1>1, <1>2
  <1>3. ASSUME NEW u \in Target, RegisterReply(u)
        PROVE  status[t] = "retry_pending"
    BY <1>2, <1>3 DEF RegisterReply
  <1>4. ASSUME NEW c \in callbacks, WorkerCallback(c)
        PROVE  status[t] = "retry_pending"
    <2>1. c.target \in Target /\ c.status \in TaskStatus
      BY DEF BudgetInv, TypeInv, TypeOK, Result
    <2> DEFINE new == StatusAfterCallback(status[c.target], c)
    <2>2. new = "retry_pending" => status[c.target] = "retry_pending"
      <3>1. c.status \in Open => CallbackDeferred(c)
        BY <1>4, <2>1 DEF Reopens, ReopenedBy
      <3> QED BY <1>1, <2>1, <3>1, CallbackStatus DEF Open
    <2>3. status' = [status EXCEPT ![c.target] = new]
      BY <1>1, <1>4, <2>1 DEF WorkerCallback
    <2> HIDE DEF new
    <2> QED BY <1>2, <2>1, <2>2, <2>3
  <1>5. CASE ApplyReply
    BY <1>3, <1>5 DEF ApplyReply, BudgetInv, TypeInv, TypeOK, Result
  <1>6. ASSUME NEW u \in reached, RepliesWebhook(u)
        PROVE  status[t] = "retry_pending"
    BY <1>3, <1>6 DEF RepliesWebhook, BudgetInv, TypeInv, TypeOK
  <1>7. ASSUME Doser, ~AssignAndEnqueue PROVE UNCHANGED status
    BY <1>7 DEF Doser, SelectTarget, AssignRefused, DeferRetries, dbVars
  <1>8. Outbox \/ Worker => UNCHANGED status
    BY DEF Outbox, FetchBatch, PublishRow, RejectRow, SkipRow, ConfirmLost,
           MarkProcessed, MarkFails, Worker, WorkerSend, RecipientReport, dbVars
  <1>9. ASSUME Consumer, ~ApplyResult, ~ApplyReply PROVE UNCHANGED status
    BY <1>9 DEF Consumer, TakeResult, AckResult, AckAndHang, ResultRedelivered,
                RunExits, dbVars
  <1>10. ASSUME Http, \A c \in callbacks : ~WorkerCallback(c),
                \A u \in reached : ~RepliesWebhook(u)
         PROVE  UNCHANGED status
    BY <1>10 DEF Http, CallbackLost, UnsubscribedElsewhere, dbVars
  <1>11. (\E u \in Target : RetryDue(u)) \/ ChannelCloses \/ Crash
           \/ UNCHANGED vars
           => UNCHANGED status
    BY DEF RetryDue, ChannelCloses, Crash, vars, dbVars
  <1> QED BY <1>4, <1>5, <1>6, <1>7, <1>8, <1>9, <1>10, <1>11 DEF Next

\* A report that asks for no retry adds no token.
LEMMA OtherReport ==
  ASSUME FlightInv, NEW x, WriterOfResult(x) # "retry",
         results' = results \cup {x}, UNCHANGED <<hand, applied>>
  PROVE  Retrying' = Retrying /\ HandInv'
  BY DEF Retrying, HandInv, FlightInv

\* The answer for a blocked recipient, and what a recipient does, are final.
LEMMA FinalReports ==
  ASSUME NEW m
  PROVE  /\ WriterOfResult(ReportOf(m, BlockedOutcome)) # "retry"
         /\ \A s \in RecipientStatus :
              WriterOfResult(ReportOf(m, [status |-> s, code |-> ""])) # "retry"
  <1>1. WriterOfResult(ReportOf(m, BlockedOutcome)) # "retry"
    <2> DEFINE x == ReportOf(m, BlockedOutcome)
    <2>1. x.status = "failed" /\ x.code = "BLOCKED_RECIPIENT"
      BY DEF ReportOf, BlockedOutcome
    <2> HIDE DEF x
    <2>2. EffectiveCode(x) = "BLOCKED_RECIPIENT"
      BY <2>1 DEF EffectiveCode
    <2>3. ClassifyErrorCode("BLOCKED_RECIPIENT") = "final"
      BY DEF ClassifyErrorCode, FinalCode, RetryableCode
    <2>4. IsSendFailure(x)
      BY <2>1 DEF IsSendFailure
    <2>5. WriterOfResult(x) # "retry"
      BY <2>1, <2>2, <2>3, <2>4 DEF WriterOfResult
    <2> QED BY <2>5 DEF x
  <1>2. ASSUME NEW s \in RecipientStatus
        PROVE  WriterOfResult(ReportOf(m, [status |-> s, code |-> ""])) # "retry"
    BY OutcomeAssumption
       DEF ReportOf, WriterOfResult, IsSendFailure, SuccessStatus
  <1> QED BY <1>1, <1>2

\* Whatever fails, the result in hand is one of the queue.
LEMMA HandStep ==
  ASSUME FlightInv, [Next]_vars, ~AssignAndEnqueue, ~ApplyResult,
         \A r \in batch : ~PublishRow(r),
         \A m \in sendQueue, o \in WorkerOutcome : ~WorkerSend(m, o)
  PROVE  HandInv'
  <1>1. ASSUME results \subseteq results', UNCHANGED <<hand, applied>>
        PROVE  HandInv'
    BY <1>1 DEF HandInv, FlightInv
  <1>2. Outbox \/ Worker => results \subseteq results' /\ UNCHANGED <<hand, applied>>
    BY DEF Outbox, FetchBatch, PublishRow, RejectRow, SkipRow, ConfirmLost,
           MarkProcessed, MarkFails, Worker, WorkerSend, RecipientReport,
           consVars, brokerVars
  <1>3. Doser \/ Http => results \subseteq results' /\ UNCHANGED <<hand, applied>>
    BY DEF Doser, SelectTarget, AssignAndEnqueue, AssignRefused, DeferRetries,
           Http, WorkerCallback, CallbackLost, RepliesWebhook,
           UnsubscribedElsewhere, consVars, brokerVars
  <1>4. (\E t \in Target : RetryDue(t)) \/ ChannelCloses \/ RunExits
           \/ UNCHANGED vars
           => results \subseteq results' /\ UNCHANGED <<hand, applied>>
    BY DEF RetryDue, ChannelCloses, RunExits, vars, consVars, brokerVars
  <1>5. ASSUME NEW r \in results, TakeResult(r) PROVE HandInv'
    <2>1. hand = NoResult /\ hand' = r /\ UNCHANGED <<results, applied>>
      BY <1>5 DEF TakeResult, brokerVars
    <2> QED BY <2>1 DEF HandInv, FlightInv
  <1>6. ASSUME ApplyReply PROVE HandInv'
    BY <1>6 DEF ApplyReply, HandInv, FlightInv, brokerVars
  <1>7. AckResult \/ AckAndHang \/ ResultRedelivered \/ Crash => HandInv'
    BY DEF AckResult, AckAndHang, ResultRedelivered, Crash, HandInv
  <1> QED BY <1>1, <1>2, <1>3, <1>4, <1>5, <1>6, <1>7 DEF Next, Consumer

\* Only a fault counts as one.
LEMMA FaultsCounted ==
  ASSUME [Next]_vars, ~Fault
  PROVE  UNCHANGED faults
  <1>1. Doser \/ Outbox => UNCHANGED faults
    BY DEF Doser, SelectTarget, AssignAndEnqueue, AssignRefused, DeferRetries,
           Outbox, FetchBatch, PublishRow, RejectRow, SkipRow, LeftPending,
           ConfirmLost, MarkProcessed, MarkFails
  <1>2. Worker \/ Http \/ (\E t \in Target : RetryDue(t)) \/ UNCHANGED vars
           => UNCHANGED faults
    BY DEF Worker, WorkerSend, RecipientReport, Http, WorkerCallback,
           CallbackLost, RepliesWebhook, UnsubscribedElsewhere, RetryDue, vars
  <1>3. Consumer => UNCHANGED faults
    BY DEF Consumer, TakeResult, ApplyResult, ApplyReply, AckResult,
           AckAndHang, ResultRedelivered, RunExits
  <1>4. ChannelCloses \/ Crash => UNCHANGED faults
    BY DEF ChannelCloses, Crash
  <1> QED BY <1>1, <1>2, <1>3, <1>4 DEF Next

\* Only a fault closes a channel.
ConnectedInv == faults = 0 => amqpChan = "open" /\ consumer = "running"

LEMMA ConnectedStep ==
  ASSUME TypeInv, ConnectedInv, [Next]_vars
  PROVE  ConnectedInv'
  <1>1. CASE Fault
    BY <1>1, FaultType DEF TypeInv, TypeOK, ConnectedInv
  <1>2. CASE Crash
    BY <1>2 DEF Crash, ConnectedInv
  <1>3. ASSUME ~Fault, ~Crash PROVE UNCHANGED <<amqpChan, consumer>>
    <2>1. Doser \/ Worker \/ Http \/ (\E t \in Target : RetryDue(t))
             \/ UNCHANGED vars
             => UNCHANGED <<amqpChan, consumer>>
      BY DEF Doser, SelectTarget, AssignAndEnqueue, AssignRefused, DeferRetries,
             Worker, WorkerSend, RecipientReport, Http, WorkerCallback,
             CallbackLost, RepliesWebhook, UnsubscribedElsewhere, RetryDue,
             vars, outboxVars, consVars
    <2>2. Outbox => UNCHANGED <<amqpChan, consumer>>
      BY <1>3 DEF Outbox, FetchBatch, PublishRow, RejectRow, SkipRow,
                  ConfirmLost, MarkProcessed, MarkFails, consVars
    <2>3. Consumer => UNCHANGED <<amqpChan, consumer>>
      BY <1>3 DEF Consumer, TakeResult, ApplyResult, ApplyReply, AckResult,
                  AckAndHang, ResultRedelivered, RunExits, outboxVars
    <2>4. ~ChannelCloses
      BY <1>3 DEF ChannelCloses
    <2> QED BY <1>3, <2>1, <2>2, <2>3, <2>4 DEF Next
  <1> QED BY <1>1, <1>2, <1>3, FaultsCounted DEF ConnectedInv

\* No other step makes a token, as long as nothing has failed.
LEMMA QuietFlight ==
  ASSUME BudgetInv, FlightInv, ConnectedInv, faults = 0, [Next]_vars, ~Fault,
         ~AssignAndEnqueue, ~ApplyResult,
         \A r \in batch : ~PublishRow(r),
         \A m \in sendQueue, o \in WorkerOutcome : ~WorkerSend(m, o)
  PROVE  /\ Waiting' \subseteq Waiting /\ sendQueue' \subseteq sendQueue
         /\ Retrying' \subseteq Retrying /\ HandInv'
         /\ UNCHANGED <<attempt, faults>>
  <1> DEFINE Quiet ==
               /\ Waiting' \subseteq Waiting /\ sendQueue' \subseteq sendQueue
               /\ Retrying' \subseteq Retrying /\ HandInv'
               /\ UNCHANGED <<attempt, faults>>
             Kept == /\ UNCHANGED <<outbox, published, sendQueue>>
                     /\ UNCHANGED <<attempt, faults>>
  <1>1. ASSUME Kept, UNCHANGED <<results, hand, applied>> PROVE Quiet
    BY <1>1 DEF Waiting, PendingRows, Retrying, HandInv, FlightInv
  <1>2. ASSUME Kept, Retrying' \subseteq Retrying, HandInv' PROVE Quiet
    BY <1>2 DEF Waiting, PendingRows
  <1>3. ASSUME NEW r \in batch, RejectRow(r) PROVE Quiet
    <2>1. r \in DOMAIN outbox
      BY DEF BudgetInv, TypeInv, BatchOK, PendingRows
    <2>2. PendingRows' = PendingRows
      BY <1>3, <2>1, RowUpdate DEF RejectRow, BudgetInv, TypeInv
    <2>3. Waiting' \subseteq Waiting
      BY <1>3, <2>2 DEF RejectRow, Waiting
    <2> DEFINE x == ReportOf(NextMessage(r), BlockedOutcome)
    <2>4. WriterOfResult(x) # "retry"
      BY FinalReports
    <2>5. /\ results' = results \cup {x}
          /\ UNCHANGED <<hand, applied, sendQueue, attempt, faults>>
      BY <1>3 DEF RejectRow
    <2> HIDE DEF x
    <2> QED BY <2>3, <2>4, <2>5, OtherReport
  <1>4. ASSUME NEW t \in reached, NEW s \in RecipientStatus,
               RecipientReport(t, s)
        PROVE  Quiet
    <2> DEFINE x == ReportOf([target |-> t, attempt |-> 0, copy |-> 0],
                             [status |-> s, code |-> ""])
    <2>1. WriterOfResult(x) # "retry"
      BY FinalReports
    <2>2. /\ results' = results \cup {x}
          /\ UNCHANGED <<hand, applied>> /\ Kept
      BY <1>4 DEF RecipientReport, dbVars, outboxVars, consVars
    <2> HIDE DEF x
    <2> QED BY <1>2, <2>1, <2>2, OtherReport
  <1>5. ASSUME MarkProcessed PROVE Quiet
    <2>1. /\ DOMAIN outbox' = DOMAIN outbox
          /\ \A x \in published :
               x \in DOMAIN outbox => outbox'[x].status = "processed"
          /\ \A x \in DOMAIN outbox : x \notin published => outbox'[x] = outbox[x]
      BY <1>5, RowsMarked DEF BudgetInv, TypeInv
    <2>2. Waiting' \subseteq Waiting
      BY <2>1 DEF Waiting, PendingRows
    <2>3. UNCHANGED <<sendQueue, results, hand, applied, attempt, faults>>
      BY <1>5 DEF MarkProcessed, consVars, brokerVars
    <2> QED BY <2>2, <2>3 DEF Retrying, HandInv, FlightInv
  <1>6. ASSUME NEW r \in results, TakeResult(r) PROVE Quiet
    <2>1. Kept /\ UNCHANGED <<results, applied>> /\ hand' = r /\ ~applied
      BY <1>6 DEF TakeResult, dbVars, outboxVars, brokerVars, FlightInv, HandInv
    <2>2. Retrying' = Retrying
      BY <2>1 DEF Retrying
    <2>3. HandInv'
      BY <2>1 DEF HandInv
    <2> QED BY <1>2, <2>1, <2>2, <2>3
  <1>7. ASSUME ApplyReply PROVE Quiet
    <2>1. Kept /\ UNCHANGED <<results, hand>> /\ applied' /\ hand # NoResult
      BY <1>7 DEF ApplyReply, RegisterReply, outboxVars, brokerVars
    <2>2. Retrying' \subseteq Retrying
      BY <1>7, <2>1 DEF Retrying, ApplyReply
    <2>3. HandInv'
      BY <2>1 DEF HandInv, FlightInv
    <2> QED BY <1>2, <2>1, <2>2, <2>3
  <1>8. ASSUME AckResult PROVE Quiet
    <2>1. Kept /\ results' = results \ {hand} /\ hand' = NoResult /\ ~applied'
      BY <1>8 DEF AckResult, Acked, ConnectedInv, dbVars, outboxVars
    <2>2. Retrying' \subseteq Retrying
      BY <2>1 DEF Retrying
    <2> QED BY <1>2, <2>1, <2>2 DEF HandInv
  <1>9. Http => Kept /\ UNCHANGED <<results, hand, applied>>
    BY DEF Http, WorkerCallback, CallbackLost, RepliesWebhook, RegisterReply,
           UnsubscribedElsewhere, dbVars, outboxVars, consVars, brokerVars
  <1>10. Doser => Kept /\ UNCHANGED <<results, hand, applied>>
    BY DEF Doser, SelectTarget, AssignRefused, DeferRetries, dbVars,
           outboxVars, consVars, brokerVars
  <1>11. FetchBatch \/ (\E r \in batch : SkipRow(r))
           => Kept /\ UNCHANGED <<results, hand, applied>>
    BY DEF FetchBatch, SkipRow, LeftPending, dbVars, consVars, brokerVars
  <1>12. (\E t \in Target : RetryDue(t)) \/ UNCHANGED vars
           => Kept /\ UNCHANGED <<results, hand, applied>>
    BY DEF RetryDue, vars, dbVars, outboxVars, consVars, brokerVars
  <1>13. /\ \A r \in batch : ~ConfirmLost(r)
         /\ ~MarkFails /\ ~ResultRedelivered /\ ~AckAndHang /\ ~RunExits
         /\ ~ChannelCloses /\ ~Crash
    BY DEF ConfirmLost, MarkFails, ResultRedelivered, AckAndHang, RunExits,
           ChannelCloses, Crash, ConnectedInv
  <1> HIDE DEF Quiet, Kept
  <1>14. Doser \/ Http \/ (\E t \in Target : RetryDue(t)) \/ UNCHANGED vars
           => Quiet
    BY <1>1, <1>9, <1>10, <1>12
  <1>15. ASSUME Outbox PROVE Quiet
    <2>1. FetchBatch \/ (\E r \in batch : SkipRow(r)) => Quiet
      BY <1>1, <1>11
    <2> QED BY <1>3, <1>5, <1>13, <1>15, <2>1 DEF Outbox
  <1>16. Worker => Quiet
    BY <1>4 DEF Worker
  <1>17. ASSUME Consumer PROVE Quiet
    BY <1>6, <1>7, <1>8, <1>13, <1>17 DEF Consumer
  <1>18. Quiet
    BY <1>13, <1>14, <1>15, <1>16, <1>17 DEF Next
  <1> QED BY <1>18 DEF Quiet

-----------------------------------------------------------------------------
\* Every step keeps the tokens apart.
LEMMA FlightStep ==
  ASSUME BudgetInv, FlightInv, ConnectedInv, [Next]_vars, [~Reopens]_vars
  PROVE  FlightInv'
  <1>1. TypeInv
    BY DEF BudgetInv
  <1>2. CASE AssignAndEnqueue
    BY <1>2, ClaimFlight
  <1>3. CASE ApplyResult
    BY <1>1, <1>3, ApplyFlight
  <1>4. ASSUME NEW r \in batch, PublishRow(r) PROVE FlightInv'
    BY <1>1, <1>4, PublishFlight
  <1>5. ASSUME NEW m \in sendQueue, NEW o \in WorkerOutcome, WorkerSend(m, o)
        PROVE  FlightInv'
    BY <1>1, <1>5, WorkerFlight
  <1>6. ASSUME ~AssignAndEnqueue, ~ApplyResult,
               \A r \in batch : ~PublishRow(r),
               \A m \in sendQueue, o \in WorkerOutcome : ~WorkerSend(m, o)
        PROVE  FlightInv'
    <2>1. CASE Fault \/ faults # 0
      <3>1. faults' # 0
        BY <1>1, <2>1, FaultType, FaultsCounted DEF TypeInv, TypeOK
      <3>2. HandInv'
        BY <1>6, HandStep
      <3> QED BY <3>1, <3>2 DEF FlightInv
    <2>2. CASE ~Fault /\ faults = 0
      <3>1. /\ Waiting' \subseteq Waiting /\ sendQueue' \subseteq sendQueue
            /\ Retrying' \subseteq Retrying /\ HandInv'
            /\ UNCHANGED <<attempt, faults>>
        BY <1>6, <2>2, QuietFlight
      <3>2. \A t \in Target :
              status'[t] = "retry_pending" => status[t] = "retry_pending"
        <4>1. ~Reopens \/ status' = status
          BY DEF vars, dbVars
        <4> QED BY <1>6, <4>1, NoRetryStep
      <3> QED BY <3>1, <3>2, FewerStep
    <2> QED BY <2>1, <2>2
  <1> QED BY <1>2, <1>3, <1>4, <1>5, <1>6

\* Tokens that are apart leave one attempt open at most.
LEMMA FlightSingle ==
  ASSUME TypeInv, FlightInv
  PROVE  SingleFlightWithoutFaults
  <1> SUFFICES ASSUME faults = 0, NEW t \in Target
               PROVE  Cardinality(OpenAttempts(t)) <= 1
    BY DEF SingleFlightWithoutFaults, SingleFlight
  <1>1. \A x \in Tokens(t) : x.attempt = attempt[t]
    BY DEF FlightInv, TokenOK
  <1>2. OpenAttempts(t) \subseteq {attempt[t]}
    BY <1>1 DEF OpenAttempts, Tokens, Waiting
  <1>3. IsFiniteSet({attempt[t]}) /\ Cardinality({attempt[t]}) = 1
    BY FS_Singleton
  <1>4. Cardinality(OpenAttempts(t)) <= Cardinality({attempt[t]})
    BY <1>2, <1>3, FS_Subset
  <1> QED BY <1>3, <1>4

\* The tokens are apart throughout.
LEMMA FlightInvariant == Spec /\ [][~Reopens]_vars => []FlightInv
  <1>1. Init => FlightInv
    <2> SUFFICES ASSUME Init PROVE FlightInv
      OBVIOUS
    <2>1. Waiting = {} /\ sendQueue = {} /\ Retrying = {}
      BY DEF Init, Waiting, PendingRows, Retrying
    <2>2. \A t \in Target : Tokens(t) = {}
      BY <2>1 DEF Tokens
    <2> QED BY <2>2 DEF Init, FlightInv, HandInv, TokenOK
  <1>2. BudgetInv /\ FlightInv /\ ConnectedInv /\ [Next]_vars /\ [~Reopens]_vars
          => FlightInv'
    BY FlightStep
  <1>3. Init => ConnectedInv
    BY DEF Init, ConnectedInv
  <1>4. TypeInv /\ ConnectedInv /\ [Next]_vars => ConnectedInv'
    BY ConnectedStep
  <1>5. BudgetInv => TypeInv
    BY DEF BudgetInv
  <1> QED BY <1>1, <1>2, <1>3, <1>4, <1>5, BudgetInvariant, PTL DEF Spec

\* As long as nothing is published or delivered twice and no report reopens a
\* target, it never has two attempts that can still be sent: the doser does
\* not race its own pipeline, however the workers' reports, the callbacks and
\* the replies interleave.
THEOREM SingleFlightWithoutFaultsHolds ==
  Spec /\ [][~Reopens]_vars => []SingleFlightWithoutFaults
  <1>1. BudgetInv /\ FlightInv => SingleFlightWithoutFaults
    BY FlightSingle DEF BudgetInv
  <1> QED BY <1>1, BudgetInvariant, FlightInvariant, PTL

-----------------------------------------------------------------------------
(* Nothing in flight is forgotten.  SingleFlight says that an attempt has  *)
(* one token at most; the other half is that the current attempt of a      *)
(* target in flight never loses its last carrier, whatever fails: a row to *)
(* be published, a message in a queue, or a report that the consumer has   *)
(* not applied.  The exception is a row that was answered by the           *)
(* unconfirmed result of a blocked recipient, which may be lost.           *)

InFlight(t) == status[t] = "pending" /\ attempt[t] > 0

Unapplied == {x \in results : ~(applied /\ hand = x)}

IsCurrent(x, t) == x.target = t /\ x.attempt = attempt[t]

Rejected(t) == \E r \in DOMAIN outbox : IsCurrent(r, t) /\ outbox[r].rejects > 0

InFlightCarried ==
  \A t \in Target : InFlight(t) =>
    \/ \E x \in Waiting \cup sendQueue \cup Unapplied : IsCurrent(x, t)
    \/ Rejected(t)

\* The same with the results that are applied and not acknowledged.
Carried(t) ==
  \/ \E x \in Waiting \cup sendQueue \cup results : IsCurrent(x, t)
  \/ Rejected(t)

\* No message or report is of an attempt that has not been made.
AttemptsInv ==
  \A x \in sendQueue \cup results : x.attempt <= attempt[x.target]

\* A result that was applied has ended its attempt.
AppliedInv ==
  hand # NoResult /\ applied =>
    status[hand.target] # "pending" \/ hand.attempt < attempt[hand.target]

CarriedInv ==
  /\ AttemptsInv
  /\ AppliedInv
  /\ \A t \in Target : InFlight(t) => Carried(t)

\* A row waits until it is published or rejected.
LEMMA WaitingStep ==
  ASSUME TypeInv, [Next]_vars, NEW r \in Waiting
  PROVE  \/ r \in Waiting'
         \/ r \in batch /\ (PublishRow(r) \/ RejectRow(r))
  <1> USE DEF TypeInv
  <1>1. r \in PendingRows /\ r \in DOMAIN outbox /\ r \notin published
    BY DEF Waiting, PendingRows
  <1>2. ASSUME outbox' = outbox, published' \subseteq published
        PROVE  r \in Waiting'
    BY <1>1, <1>2 DEF Waiting, PendingRows
  <1>3. CASE AssignAndEnqueue
    <2>1. /\ DOMAIN outbox \subseteq DOMAIN outbox'
          /\ r # NewRow(selected) => outbox'[r] = outbox[r]
          /\ r = NewRow(selected) => outbox'[r].status = "pending"
      BY <1>1, <1>3 DEF AssignAndEnqueue
    <2>2. published' = published
      BY <1>3 DEF AssignAndEnqueue, outboxVars
    <2> QED BY <1>1, <2>1, <2>2 DEF Waiting, PendingRows
  <1>4. ASSUME NEW x \in batch, PublishRow(x) \/ RejectRow(x) \/ ConfirmLost(x)
        PROVE  r \in Waiting' \/ (x = r /\ (PublishRow(r) \/ RejectRow(r)))
    <2>1. x \in DOMAIN outbox
      BY DEF BatchOK, PendingRows
    <2>2. PendingRows' = PendingRows
      BY <1>4, <2>1, RowUpdate DEF PublishRow, RejectRow, ConfirmLost
    <2>3. published' \subseteq published \cup {x}
      BY <1>4 DEF PublishRow, RejectRow, ConfirmLost
    <2>4. ConfirmLost(x) => published' = published
      BY DEF ConfirmLost
    <2> QED BY <1>1, <1>4, <2>2, <2>3, <2>4 DEF Waiting
  <1>5. CASE MarkProcessed
    <2>1. DOMAIN outbox' = DOMAIN outbox /\ outbox'[r] = outbox[r]
      BY <1>1, <1>5, RowsMarked
    <2> QED BY <1>1, <1>5, <2>1 DEF MarkProcessed, Waiting, PendingRows
  <1>6. FetchBatch \/ MarkFails \/ (\E x \in batch : SkipRow(x))
          \/ ChannelCloses \/ Crash
          => outbox' = outbox /\ published' \subseteq published
    BY DEF FetchBatch, MarkFails, SkipRow, ChannelCloses, Crash, dbVars
  <1>7. (Doser /\ ~AssignAndEnqueue) \/ Worker
          => outbox' = outbox /\ published' \subseteq published
    BY DEF Doser, SelectTarget, AssignRefused, DeferRetries, Worker,
           WorkerSend, RecipientReport, dbVars, outboxVars
  <1>8. Consumer \/ Http => outbox' = outbox /\ published' \subseteq published
    BY DEF Consumer, TakeResult, ApplyResult, ApplyReply, RegisterReply,
           AckResult, AckAndHang, ResultRedelivered, RunExits, Http,
           WorkerCallback, CallbackLost, RepliesWebhook, UnsubscribedElsewhere,
           dbVars, outboxVars
  <1>9. (\E t \in Target : RetryDue(t)) \/ UNCHANGED vars
          => outbox' = outbox /\ published' \subseteq published
    BY DEF RetryDue, vars, dbVars, outboxVars
  <1> QED BY <1>2, <1>3, <1>4, <1>5, <1>6, <1>7, <1>8, <1>9 DEF Next, Outbox

\* A message stays in its queue until a worker reports of it.
LEMMA QueueStep ==
  ASSUME [Next]_vars, NEW m \in sendQueue
  PROVE  m \in sendQueue' \/ \E o \in WorkerOutcome : WorkerSend(m, o)
  <1>1. Doser \/ Http \/ Consumer => UNCHANGED sendQueue
    BY DEF Doser, SelectTarget, AssignAndEnqueue, AssignRefused, DeferRetries,
           Http, WorkerCallback, CallbackLost, RepliesWebhook,
           UnsubscribedElsewhere, Consumer, TakeResult, ApplyResult,
           ApplyReply, AckResult, AckAndHang, ResultRedelivered, RunExits,
           brokerVars
  <1>2. Outbox => sendQueue \subseteq sendQueue'
    BY DEF Outbox, FetchBatch, PublishRow, RejectRow, SkipRow, ConfirmLost,
           MarkProcessed, MarkFails, brokerVars
  <1>3. (\E t \in Target : RetryDue(t)) \/ ChannelCloses \/ Crash
          \/ UNCHANGED vars
          => UNCHANGED sendQueue
    BY DEF RetryDue, ChannelCloses, Crash, vars, brokerVars
  <1>4. Worker => m \in sendQueue' \/ \E o \in WorkerOutcome : WorkerSend(m, o)
    BY DEF Worker, WorkerSend, RecipientReport
  <1> QED BY <1>1, <1>2, <1>3, <1>4 DEF Next

\* A result stays in the queue until it is acknowledged.
LEMMA ResultsStep ==
  ASSUME [Next]_vars, NEW r \in results
  PROVE  r \in results' \/ ((AckResult \/ AckAndHang) /\ r = hand)
  <1>1. Doser \/ Http => UNCHANGED results
    BY DEF Doser, SelectTarget, AssignAndEnqueue, AssignRefused, DeferRetries,
           Http, WorkerCallback, CallbackLost, RepliesWebhook,
           UnsubscribedElsewhere, brokerVars
  <1>2. Outbox \/ Worker => results \subseteq results'
    BY DEF Outbox, FetchBatch, PublishRow, RejectRow, SkipRow, ConfirmLost,
           MarkProcessed, MarkFails, Worker, WorkerSend, RecipientReport,
           brokerVars
  <1>3. (\E t \in Target : RetryDue(t)) \/ ChannelCloses \/ Crash
          \/ UNCHANGED vars
          => UNCHANGED results
    BY DEF RetryDue, ChannelCloses, Crash, vars, brokerVars
  <1>4. Consumer => r \in results' \/ ((AckResult \/ AckAndHang) /\ r = hand)
    BY DEF Consumer, TakeResult, ApplyResult, ApplyReply, AckResult,
           AckAndHang, Acked, ResultRedelivered, RunExits, brokerVars
  <1> QED BY <1>1, <1>2, <1>3, <1>4 DEF Next

\* A row that was rejected once stays so.
LEMMA RejectsStep ==
  ASSUME TypeInv, RowPerAttempt, [Next]_vars, NEW r \in DOMAIN outbox,
         outbox[r].rejects > 0
  PROVE  r \in DOMAIN outbox' /\ outbox'[r].rejects > 0
  <1> USE DEF TypeInv
  <1>0. outbox[r] \in RowState /\ outbox[r].rejects \in Nat
    BY DEF TypeOK, RowState
  <1>1. CASE AssignAndEnqueue
    <2>1. selected \in Target /\ attempt[selected] \in Nat
      BY <1>1 DEF AssignAndEnqueue, TypeOK
    <2>2. r # NewRow(selected)
      <3>1. NewRow(selected).attempt = attempt[selected] + 1
            /\ NewRow(selected).target = selected
        BY DEF NewRow
      <3> QED BY <2>1, <3>1 DEF RowPerAttempt
    <2> QED BY <1>1, <2>2 DEF AssignAndEnqueue
  <1>2. CASE MarkProcessed
    BY <1>2, RowsMarked
  <1>3. ASSUME NEW x \in batch, PublishRow(x) \/ RejectRow(x) \/ ConfirmLost(x)
        PROVE  r \in DOMAIN outbox' /\ outbox'[r].rejects > 0
    <2>1. x \in DOMAIN outbox /\ outbox[x] \in RowState
      BY DEF BatchOK, PendingRows, TypeOK
    <2>2. CASE outbox' = [outbox EXCEPT ![x].copies = @ + 1]
      BY <1>0, <2>1, <2>2 DEF RowState
    <2>3. CASE outbox' = [outbox EXCEPT ![x].rejects = @ + 1]
      BY <1>0, <2>1, <2>3 DEF RowState
    <2> QED BY <1>3, <2>2, <2>3 DEF PublishRow, RejectRow, ConfirmLost
  <1>4. FetchBatch \/ MarkFails \/ (\E x \in batch : SkipRow(x))
          \/ ChannelCloses \/ Crash
          => outbox' = outbox
    BY DEF FetchBatch, MarkFails, SkipRow, ChannelCloses, Crash, dbVars
  <1>5. (Doser /\ ~AssignAndEnqueue) \/ Worker => outbox' = outbox
    BY DEF Doser, SelectTarget, AssignRefused, DeferRetries, Worker,
           WorkerSend, RecipientReport, dbVars
  <1>6. Consumer \/ Http => outbox' = outbox
    BY DEF Consumer, TakeResult, ApplyResult, ApplyReply, RegisterReply,
           AckResult, AckAndHang, ResultRedelivered, RunExits, Http,
           WorkerCallback, CallbackLost, RepliesWebhook, UnsubscribedElsewhere,
           dbVars
  <1>7. (\E t \in Target : RetryDue(t)) \/ UNCHANGED vars => outbox' = outbox
    BY DEF RetryDue, vars, dbVars
  <1> QED BY <1>1, <1>2, <1>3, <1>4, <1>5, <1>6, <1>7 DEF Next, Outbox

\* A message or a report has the attempt of what it was made from.
LEMMA AttemptKept ==
  ASSUME NEW m, NEW o
  PROVE  ReportOf(m, o).attempt = m.attempt /\ NextMessage(m).attempt = m.attempt
  BY DEF ReportOf, NextMessage

\* Attempts only grow.
LEMMA AttemptsGrow ==
  ASSUME TypeInv, [Next]_vars, NEW t \in Target
  PROVE  attempt[t] \in Nat /\ attempt'[t] \in Nat /\ attempt[t] <= attempt'[t]
  <1>1. attempt[t] \in Nat
    BY DEF TypeInv, TypeOK
  <1>2. CASE AssignAndEnqueue
    <2>1. attempt'[t] \in {attempt[t], attempt[t] + 1}
      BY <1>2 DEF AssignAndEnqueue, TypeInv, TypeOK
    <2> QED BY <1>1, <2>1
  <1>3. CASE ~AssignAndEnqueue
    BY <1>1, <1>3, RowsUnchanged
  <1> QED BY <1>2, <1>3

\* What is new in the queues was made from a row, a message, or by a recipient.
LEMMA AttemptsStep ==
  ASSUME TypeInv, RowPerAttempt, AttemptsInv, [Next]_vars
  PROVE  AttemptsInv'
  <1> DEFINE Sound(x) == /\ x.target \in Target /\ x.attempt \in Nat
                         /\ x.attempt <= attempt[x.target]
  <1>1. \A x \in sendQueue \cup results : Sound(x)
    BY DEF AttemptsInv, TypeInv, TypeOK, Message, Result
  <1>2. \A t \in Target : attempt[t] \in Nat
    BY DEF TypeInv, TypeOK
  <1>3. ASSUME \A x \in sendQueue' \cup results' : Sound(x) PROVE AttemptsInv'
    <2> SUFFICES ASSUME NEW x \in sendQueue' \cup results'
                 PROVE  x.attempt <= attempt'[x.target]
      BY DEF AttemptsInv
    <2>1. Sound(x)
      BY <1>3
    <2>2. /\ attempt[x.target] \in Nat /\ attempt'[x.target] \in Nat
          /\ attempt[x.target] <= attempt'[x.target]
      BY <2>1, AttemptsGrow
    <2> QED BY <2>1, <2>2
  <1>4. ASSUME NEW r \in batch
        PROVE  /\ Sound(NextMessage(r))
               /\ Sound(ReportOf(NextMessage(r), BlockedOutcome))
    <2>1. r \in DOMAIN outbox /\ r.target \in Target /\ r.attempt \in Nat
      BY DEF TypeInv, BatchOK, PendingRows, TypeOK, Row
    <2>2. r.attempt <= attempt[r.target]
      BY <1>2, <2>1 DEF RowPerAttempt
    <2> QED BY <2>1, <2>2, TargetKept, AttemptKept
  <1>5. ASSUME NEW m \in sendQueue, NEW o PROVE Sound(ReportOf(m, o))
    BY <1>1, TargetKept, AttemptKept
  <1>6. ASSUME NEW t \in Target, NEW o
        PROVE  Sound(ReportOf([target |-> t, attempt |-> 0, copy |-> 0], o))
    <2> DEFINE m == [target |-> t, attempt |-> 0, copy |-> 0]
    <2>1. m.target = t /\ m.attempt = 0
      OBVIOUS
    <2> HIDE DEF m
    <2>2. ReportOf(m, o).target = t /\ ReportOf(m, o).attempt = 0
      BY <2>1, TargetKept, AttemptKept
    <2>3. Sound(ReportOf(m, o))
      BY <1>2, <2>2
    <2> QED BY <2>3 DEF m
  <1> HIDE DEF Sound
  <1>7. CASE Outbox
    <2>1. ASSUME NEW x \in sendQueue' \cup results' PROVE Sound(x)
      BY <1>1, <1>4, <1>7
         DEF Outbox, FetchBatch, PublishRow, RejectRow, SkipRow, ConfirmLost,
             MarkProcessed, MarkFails, brokerVars
    <2> QED BY <1>3, <2>1
  <1>8. CASE Worker
    <2>1. ASSUME NEW m \in sendQueue, NEW o \in WorkerOutcome, WorkerSend(m, o)
          PROVE  \A x \in sendQueue' \cup results' : Sound(x)
      BY <1>1, <1>5, <2>1 DEF WorkerSend
    <2>2. ASSUME NEW t \in reached, NEW s \in RecipientStatus,
                 RecipientReport(t, s)
          PROVE  \A x \in sendQueue' \cup results' : Sound(x)
      <3> DEFINE new == ReportOf([target |-> t, attempt |-> 0, copy |-> 0],
                                 [status |-> s, code |-> ""])
      <3>1. Sound(new)
        BY <1>6 DEF TypeInv, TypeOK
      <3>2. sendQueue' = sendQueue /\ results' = results \cup {new}
        BY <2>2 DEF RecipientReport
      <3> HIDE DEF new
      <3> QED BY <1>1, <3>1, <3>2
    <2> QED BY <1>3, <1>8, <2>1, <2>2 DEF Worker
  <1>9. ASSUME sendQueue' \subseteq sendQueue, results' \subseteq results
        PROVE  AttemptsInv'
    BY <1>1, <1>3, <1>9
  <1>10. Consumer => sendQueue' \subseteq sendQueue /\ results' \subseteq results
    BY DEF Consumer, TakeResult, ApplyResult, ApplyReply, AckResult,
           AckAndHang, Acked, ResultRedelivered, RunExits, brokerVars
  <1>11. Doser \/ Http => sendQueue' \subseteq sendQueue /\ results' \subseteq results
    BY DEF Doser, SelectTarget, AssignAndEnqueue, AssignRefused, DeferRetries,
           Http, WorkerCallback, CallbackLost, RepliesWebhook,
           UnsubscribedElsewhere, brokerVars
  <1>12. (\E t \in Target : RetryDue(t)) \/ ChannelCloses \/ Crash
           \/ UNCHANGED vars
           => sendQueue' \subseteq sendQueue /\ results' \subseteq results
    BY DEF RetryDue, ChannelCloses, Crash, vars, brokerVars
  <1> QED BY <1>7, <1>8, <1>9, <1>10, <1>11, <1>12 DEF Next

\* Only a claim makes a target pending.
LEMMA PendingStep ==
  ASSUME BudgetInv, [Next]_vars, [~Reopens]_vars, NEW t \in Target,
         status'[t] = "pending", attempt'[t] = attempt[t]
  PROVE  status[t] = "pending"
  <1>1. StatusStep
    BY StatusStepHolds DEF BudgetInv
  <1>2. status \in [Target -> TaskStatus] /\ attempt \in [Target -> Nat]
    BY DEF BudgetInv, TypeInv, TypeOK
  <1>3. ASSUME NEW u \in Target, ClaimOf(u) PROVE status[t] = "pending"
    BY <1>2, <1>3 DEF ClaimOf
  <1>4. ASSUME NEW u \in Target, NEW new \in TaskStatus, WriteOf(u, new)
        PROVE  status[t] = "pending"
    BY <1>2, <1>4 DEF WriteOf, Open
  <1> QED BY <1>1, <1>3, <1>4 DEF StatusStep

\* A result takes its target out of pending, unless it says so itself.
LEMMA PendingEnds ==
  ASSUME NEW old \in TaskStatus, NEW n \in Nat, NEW max \in Nat,
         NEW o, o.status \in TaskStatus, o.code \in ErrorCode,
         o.status # "pending"
  PROVE  StatusAfterResult(old, n, max, o) # "pending"
  <1> DEFINE new == StatusAfterResult(old, n, max, o)
  <1>1. CASE old # "pending"
    <2>1. new = old \/ new \notin Open
            \/ (old = "pending" /\ new = "retry_pending" /\ n < max)
      BY ResultStatus
    <2> QED BY <1>1, <2>1 DEF Open
  <1>2. CASE old = "pending"
    <2>1. \A s \in TaskStatus :
            s # "pending" => UpdateTargetStatus(old, s) # "pending"
      BY <1>2 DEF UpdateTargetStatus, IsErrorStatus, ErrorStatus, Rank,
                  TaskStatus
    <2>2. CASE WriterOfResult(o) = "update"
      BY <2>1, <2>2 DEF StatusAfterResult
    <2>3. CASE WriterOfResult(o) = "fail"
      <3>1. new = UpdateTargetStatus(old, "failed") /\ "failed" \in TaskStatus
        BY <2>3 DEF StatusAfterResult, TaskStatus
      <3> QED BY <2>1, <3>1
    <2>4. CASE WriterOfResult(o) = "unknown"
      BY <1>2, <2>4 DEF StatusAfterResult, MarkTargetDeliveryUnknown,
                        SuccessStatus
    <2>5. CASE WriterOfResult(o) = "retry"
      <3>1. new = ApplyRetryableFailure(old, n, max)
        BY <2>5 DEF StatusAfterResult
      <3> QED BY <1>2, <3>1 DEF ApplyRetryableFailure, RetryAccepted
    <2> QED BY <2>2, <2>3, <2>4, <2>5, WriterRange
  <1> QED BY <1>1, <1>2

\* A result is applied by the two transactions only.
LEMMA AppliedBefore ==
  ASSUME TypeInv, HandInv, [Next]_vars, ~ApplyResult, ~ApplyReply,
         hand' # NoResult, applied'
  PROVE  applied /\ hand # NoResult /\ hand' = hand
  <1>1. Doser \/ Outbox \/ Worker \/ Http => UNCHANGED <<hand, applied>>
    BY DEF Doser, SelectTarget, AssignAndEnqueue, AssignRefused, DeferRetries,
           Outbox, FetchBatch, PublishRow, RejectRow, SkipRow, ConfirmLost,
           MarkProcessed, MarkFails, Worker, WorkerSend, RecipientReport,
           Http, WorkerCallback, CallbackLost, RepliesWebhook,
           UnsubscribedElsewhere, consVars
  <1>2. (\E t \in Target : RetryDue(t)) \/ RunExits \/ ChannelCloses
          \/ UNCHANGED vars
          => UNCHANGED <<hand, applied>>
    BY DEF RetryDue, RunExits, ChannelCloses, vars, consVars
  <1>3. \A r \in results : ~TakeResult(r)
    BY DEF TakeResult, HandInv
  <1>4. ~AckResult /\ ~AckAndHang /\ ~ResultRedelivered /\ ~Crash
    BY DEF AckResult, AckAndHang, ResultRedelivered, Crash
  <1>5. UNCHANGED <<hand, applied>>
    BY <1>1, <1>2, <1>3, <1>4 DEF Next, Consumer
  <1> QED BY <1>5

\* What was applied stays applied: nothing but a claim, which makes a new
\* attempt, makes its target pending.
LEMMA AppliedStep ==
  ASSUME BudgetInv, HandInv, AttemptsInv, AppliedInv,
         [Next]_vars, [~Reopens]_vars
  PROVE  AppliedInv'
  <1> SUFFICES ASSUME hand' # NoResult, applied'
               PROVE  \/ status'[hand'.target] # "pending"
                      \/ hand'.attempt < attempt'[hand'.target]
    BY DEF AppliedInv
  <1> USE DEF BudgetInv
  <1>1. CASE ApplyResult
    <2>1. /\ hand \in Result /\ hand' = hand
          /\ status' = [status EXCEPT ![hand.target] =
                          StatusAfterResult(@, attempt[hand.target],
                                            MaxRetryAttempts, hand)]
      BY <1>1, ApplyResultRow DEF ApplyResult, TypeInv
    <2>2. /\ hand.target \in Target
          /\ hand.status \in TaskStatus /\ hand.code \in ErrorCode
          /\ status[hand.target] \in TaskStatus /\ attempt[hand.target] \in Nat
      BY <2>1 DEF Result, TypeInv, TypeOK
    <2>3. applied # applied'
      BY <1>1 DEF ApplyResult
    <2>4. ~Reopens
      BY <2>3 DEF vars, consVars
    <2>5. hand.status # "pending"
      BY <1>1, <2>2, <2>4 DEF Reopens, ReopenedBy
    <2>6. status'[hand.target] # "pending"
      BY <2>1, <2>2, <2>5, PendingEnds, MaxRetryAssumption DEF TypeInv, TypeOK
    <2> QED BY <2>1, <2>6
  <1>2. CASE ApplyReply
    <2>1. hand \in Result /\ hand.target \in Target /\ hand' = hand
      BY <1>2 DEF ApplyReply, TypeInv, TypeOK, Result
    <2>2. status' = [status EXCEPT ![hand.target] = "replied"]
      BY <1>2 DEF ApplyReply, RegisterReply
    <2> QED BY <2>1, <2>2 DEF TypeInv, TypeOK
  <1>3. CASE ~ApplyResult /\ ~ApplyReply
    <2>1. applied /\ hand # NoResult /\ hand' = hand
      BY <1>3, AppliedBefore
    <2> DEFINE u == hand.target
    <2>2. /\ hand \in results /\ u \in Target /\ hand.attempt \in Nat
          /\ hand.attempt <= attempt[u]
      BY <2>1 DEF HandInv, AttemptsInv, TypeInv, TypeOK, Result
    <2>3. /\ attempt[u] \in Nat /\ attempt'[u] \in Nat
          /\ attempt[u] <= attempt'[u]
      BY <2>2, AttemptsGrow
    <2>4. CASE attempt'[u] # attempt[u]
      <3>1. hand.attempt < attempt'[u]
        BY <2>2, <2>3, <2>4
      <3> QED BY <2>1, <3>1
    <2>5. CASE attempt'[u] = attempt[u]
      <3>1. status'[u] = "pending" => status[u] = "pending"
        BY <2>2, <2>5, PendingStep
      <3> QED BY <2>1, <2>5, <3>1 DEF AppliedInv
    <2> QED BY <2>4, <2>5
  <1> QED BY <1>1, <1>2, <1>3

\* A carrier is handed on, and the attempt of a new claim has its row.
LEMMA CarriedStep ==
  ASSUME BudgetInv, HandInv, CarriedInv, [Next]_vars, [~Reopens]_vars
  PROVE  CarriedInv'
  <1> USE DEF BudgetInv
  <1>1. AttemptsInv' /\ AppliedInv'
    BY AttemptsStep, AppliedStep DEF CarriedInv
  <1> SUFFICES ASSUME NEW t \in Target, InFlight(t)' PROVE Carried(t)'
    BY <1>1 DEF CarriedInv
  <1>2. CASE AssignAndEnqueue /\ t = selected
    <2> DEFINE row == NewRow(t)
    <2>1. attempt[t] \in Nat /\ attempt'[t] = attempt[t] + 1
      BY <1>2 DEF AssignAndEnqueue, TypeInv, TypeOK
    <2>2. row.target = t /\ row.attempt = attempt'[t]
      BY <2>1 DEF NewRow
    <2>3. row \notin DOMAIN outbox
      BY <2>1, <2>2 DEF RowPerAttempt
    <2>4. row \notin published /\ published' = published
      BY <1>2, <2>3 DEF AssignAndEnqueue, outboxVars, TypeInv, BatchOK,
                        PendingRows
    <2>5. row \in DOMAIN outbox' /\ outbox'[row].status = "pending"
      BY <1>2 DEF AssignAndEnqueue
    <2>6. row \in Waiting'
      BY <2>4, <2>5 DEF Waiting, PendingRows
    <2> HIDE DEF row
    <2> QED BY <2>2, <2>6 DEF Carried, IsCurrent
  <1>3. CASE ~(AssignAndEnqueue /\ t = selected)
    <2>1. attempt'[t] = attempt[t]
      <3>1. CASE AssignAndEnqueue
        BY <1>3, <3>1 DEF AssignAndEnqueue, TypeInv, TypeOK
      <3>2. CASE ~AssignAndEnqueue
        BY <3>2, RowsUnchanged
      <3> QED BY <3>1, <3>2
    <2>2. status[t] = "pending" /\ InFlight(t)
      BY <2>1, PendingStep DEF InFlight
    <2>3. Carried(t)
      BY <2>2 DEF CarriedInv
    <2>4. ASSUME NEW x, IsCurrent(x, t),
                 NEW y \in Waiting' \cup sendQueue' \cup results',
                 y.target = x.target, y.attempt = x.attempt
          PROVE  Carried(t)'
      BY <2>1, <2>4 DEF Carried, IsCurrent
    <2>5. CASE Rejected(t)
      <3>1. PICK r \in DOMAIN outbox : IsCurrent(r, t) /\ outbox[r].rejects > 0
        BY <2>5 DEF Rejected
      <3>2. r \in DOMAIN outbox' /\ outbox'[r].rejects > 0
        BY <3>1, RejectsStep
      <3> QED BY <2>1, <3>1, <3>2 DEF Carried, Rejected, IsCurrent
    <2>6. ASSUME NEW x \in Waiting, IsCurrent(x, t) PROVE Carried(t)'
      <3>1. CASE x \in Waiting'
        BY <2>4, <2>6, <3>1
      <3>2. CASE x \in batch /\ PublishRow(x)
        <4>1. NextMessage(x) \in sendQueue'
          BY <3>2 DEF PublishRow
        <4> QED BY <2>4, <2>6, <4>1, TargetKept, AttemptKept
      <3>3. CASE x \in batch /\ RejectRow(x)
        <4>1. x \in DOMAIN outbox /\ outbox[x] \in RowState
          BY <3>3 DEF TypeInv, BatchOK, PendingRows, TypeOK
        <4>2. x \in DOMAIN outbox' /\ outbox'[x].rejects = outbox[x].rejects + 1
          BY <3>3, <4>1 DEF RejectRow, RowState
        <4>3. outbox'[x].rejects > 0
          BY <4>1, <4>2 DEF RowState
        <4> QED BY <2>1, <2>6, <4>2, <4>3 DEF Carried, Rejected, IsCurrent
      <3> QED BY <3>1, <3>2, <3>3, WaitingStep
    <2>7. ASSUME NEW x \in sendQueue, IsCurrent(x, t) PROVE Carried(t)'
      <3>1. CASE x \in sendQueue'
        BY <2>4, <2>7, <3>1
      <3>2. ASSUME NEW o \in WorkerOutcome, WorkerSend(x, o) PROVE Carried(t)'
        <4>1. ReportOf(x, o) \in results'
          BY <3>2 DEF WorkerSend
        <4> QED BY <2>4, <2>7, <4>1, TargetKept, AttemptKept
      <3> QED BY <3>1, <3>2, QueueStep
    <2>8. ASSUME NEW x \in results, IsCurrent(x, t) PROVE Carried(t)'
      <3>1. CASE x \in results'
        BY <2>4, <2>8, <3>1
      <3>2. ~((AckResult \/ AckAndHang) /\ x = hand)
        <4> SUFFICES ASSUME AckResult \/ AckAndHang, x = hand PROVE FALSE
          OBVIOUS
        <4>1. status[t] # "pending" \/ attempt[t] < attempt[t]
          BY <2>8 DEF AckResult, AckAndHang, CarriedInv, AppliedInv, IsCurrent
        <4>2. attempt[t] \in Nat
          BY DEF TypeInv, TypeOK
        <4> QED BY <2>2, <4>1, <4>2
      <3> QED BY <3>1, <3>2, ResultsStep
    <2> QED BY <2>3, <2>5, <2>6, <2>7, <2>8 DEF Carried
  <1> QED BY <1>2, <1>3

\* Whatever crashes, is lost or fails, a target in flight has its attempt in
\* the outbox, in a queue, or in a report that is still to be applied, unless
\* its recipient was found blocked: the doser never waits for nothing.
THEOREM InFlightCarriedHolds ==
  Spec /\ [][~Reopens]_vars => []InFlightCarried
  <1>1. Init => CarriedInv
    BY DEF Init, CarriedInv, AttemptsInv, AppliedInv, InFlight
  <1>2. BudgetInv /\ FlightInv /\ CarriedInv /\ [Next]_vars /\ [~Reopens]_vars
          => CarriedInv'
    BY CarriedStep DEF FlightInv
  <1>3. BudgetInv /\ FlightInv /\ CarriedInv => InFlightCarried
    <2> SUFFICES ASSUME BudgetInv, HandInv, CarriedInv,
                        NEW t \in Target, InFlight(t), ~Rejected(t)
                 PROVE  \E x \in Waiting \cup sendQueue \cup Unapplied :
                           IsCurrent(x, t)
      BY DEF InFlightCarried, FlightInv
    <2>1. PICK x \in Waiting \cup sendQueue \cup results : IsCurrent(x, t)
      BY DEF CarriedInv, Carried
    <2>2. ASSUME x \in results, applied, hand = x PROVE FALSE
      <3>1. hand # NoResult
        BY <2>2 DEF HandInv
      <3>2. status[t] # "pending" \/ attempt[t] < attempt[t]
        BY <2>1, <2>2, <3>1 DEF CarriedInv, AppliedInv, IsCurrent
      <3>3. attempt[t] \in Nat
        BY DEF BudgetInv, TypeInv, TypeOK
      <3> QED BY <3>2, <3>3 DEF InFlight
    <2> QED BY <2>1, <2>2 DEF Unapplied
  <1> QED BY <1>1, <1>2, <1>3, BudgetInvariant, FlightInvariant, PTL DEF Spec
=============================================================================
