------------------------- MODULE SendPipelineProofs -------------------------
(***************************************************************************)
(* Safety of SendPipeline for every set of targets, every retry budget,    *)
(* every set of outcomes and any number of faults.                         *)
(***************************************************************************)
EXTENDS SendPipeline, DomainProofs, FiniteSetTheorems, WellFoundedInduction,
        TLAPS

-----------------------------------------------------------------------------
(* Type correctness.                                                       *)

\* A fault is counted within its bound.
LEMMA FaultType ==
  ASSUME TypeOK, Fault
  PROVE  faults' \in 0..MaxFaults /\ faults' = faults + 1
  BY MaxFaultsAssumption DEF TypeOK, Fault

\* A report built from a message of the pipeline is a result.
LEMMA ReportType ==
  ASSUME NEW m, m.target \in Target, m.attempt \in Nat, m.copy \in Nat,
         NEW o, o.status \in TaskStatus, o.code \in ErrorCode
  PROVE  ReportOf(m, o) \in Result
  BY DEF ReportOf, Result

\* The report of a blocked recipient.
LEMMA BlockedReportType ==
  ASSUME NEW m \in Message
  PROVE  ReportOf(m, BlockedOutcome) \in Result
  <1>1. m.target \in Target /\ m.attempt \in Nat /\ m.copy \in Nat
    BY DEF Message
  <1>2. /\ BlockedOutcome.status \in TaskStatus
        /\ BlockedOutcome.code \in ErrorCode
    BY DEF BlockedOutcome, TaskStatus, ErrorCode, FinalCode
  <1> QED BY <1>1, <1>2, ReportType

\* The next publication of an outbox row.
LEMMA NextMessageType ==
  ASSUME TypeOK, NEW r \in DOMAIN outbox
  PROVE  NextMessage(r) \in Message
  BY DEF NextMessage, Message, Copies, TypeOK, Row, RowState

\* The locals of the outbox worker name rows of the table.
BatchOK ==
  /\ batch \subseteq PendingRows
  /\ published \subseteq PendingRows
  /\ batch \cap published = {}

TypeInv == TypeOK /\ BatchOK

\* The initial state is typed and no row is in a batch.
LEMMA TypeInit == Init => TypeInv
  <1> SUFFICES ASSUME Init PROVE TypeInv
    OBVIOUS
  <1>1. DOMAIN outbox = {} /\ outbox \in [DOMAIN outbox -> RowState]
    BY DEF Init
  <1>2. status \in [Target -> TaskStatus] /\ attempt \in [Target -> Nat]
    BY DEF Init, TaskStatus
  <1>3. faults \in 0..MaxFaults
    BY MaxFaultsAssumption DEF Init
  <1>4. TypeOK
    BY <1>1, <1>2, <1>3 DEF Init, TypeOK
  <1>5. BatchOK
    BY DEF Init, BatchOK
  <1> QED BY <1>4, <1>5 DEF TypeInv

\* Whatever closes, the channels keep their types.
LEMMA ChannelsType ==
  ASSUME TypeOK, ChannelsMayClose
  PROVE  /\ amqpChan' \in {"open", "closed"}
         /\ consumer' \in {"running", "closed", "stuck"}
         /\ buffered' \subseteq Result
  BY DEF ChannelsMayClose, TypeOK

\* The doser keeps the types; a new row is pending and in no batch.
LEMMA DoserType == TypeInv /\ Doser => TypeInv'
  <1> SUFFICES ASSUME TypeInv, Doser PROVE TypeInv'
    OBVIOUS
  <1> USE DEF TypeInv
  <1>1. ASSUME NEW t \in Target, SelectTarget(t) PROVE TypeInv'
    BY <1>1 DEF SelectTarget, TypeOK, BatchOK, PendingRows, dbVars, outboxVars,
                consVars, brokerVars
  <1>2. CASE AssignAndEnqueue
    <2> DEFINE row == NewRow(selected)
    <2>1. selected \in Target /\ row \in Row
      BY <1>2, NullAssumption DEF AssignAndEnqueue, TypeOK, NewRow, Row
    <2>2. DOMAIN outbox' = DOMAIN outbox \cup {row}
      BY <1>2 DEF AssignAndEnqueue
    <2>3. outbox'[row] = [status |-> "pending", before |-> DOMAIN outbox,
                             copies |-> 0, rejects |-> 0]
      BY <1>2 DEF AssignAndEnqueue
    <2>4. \A r \in DOMAIN outbox : r # row => outbox'[r] = outbox[r]
      BY <1>2 DEF AssignAndEnqueue
    <2>5. DOMAIN outbox' \subseteq Row /\ outbox' \in [DOMAIN outbox' -> RowState]
      BY <1>2, <2>1, <2>2 DEF AssignAndEnqueue, TypeOK, RowState
    <2>6. PendingRows \subseteq PendingRows'
      BY <2>2, <2>3, <2>4 DEF PendingRows
    <2>7. TypeOK'
      BY <1>2, <2>1, <2>5 DEF AssignAndEnqueue, TypeOK, TaskStatus, outboxVars,
                              consVars, brokerVars
    <2>8. BatchOK'
      BY <1>2, <2>6 DEF AssignAndEnqueue, BatchOK, outboxVars
    <2> QED BY <2>7, <2>8
  <1>3. CASE AssignRefused
    BY <1>3 DEF AssignRefused, TypeOK, BatchOK, PendingRows, dbVars, outboxVars,
                consVars, brokerVars
  <1>4. CASE DeferRetries
    BY <1>4 DEF DeferRetries, TypeOK, BatchOK, PendingRows, doserVars,
                outboxVars, consVars, brokerVars
  <1> QED BY <1>1, <1>2, <1>3, <1>4 DEF Doser

\* Handling a row of the batch: the row keeps its status, so the pending
\* rows stay the same.
LEMMA RowUpdate ==
  ASSUME TypeOK, NEW r \in DOMAIN outbox,
         \/ outbox' = [outbox EXCEPT ![r].copies = @ + 1]
         \/ outbox' = [outbox EXCEPT ![r].rejects = @ + 1]
  PROVE  /\ DOMAIN outbox' = DOMAIN outbox
         /\ outbox' \in [DOMAIN outbox -> RowState]
         /\ \A x \in DOMAIN outbox : outbox'[x].status = outbox[x].status
         /\ \A x \in DOMAIN outbox : x # r => outbox'[x] = outbox[x]
         /\ PendingRows' = PendingRows
         /\ outbox'[r].copies + outbox'[r].rejects
              = outbox[r].copies + outbox[r].rejects + 1
  <1>1. \A x \in DOMAIN outbox : outbox[x] \in RowState
    BY DEF TypeOK
  <1>2. DOMAIN outbox' = DOMAIN outbox
    OBVIOUS
  <1>3. \A x \in DOMAIN outbox : x # r => outbox'[x] = outbox[x]
    OBVIOUS
  <1>4. /\ outbox'[r] \in RowState
        /\ outbox'[r].status = outbox[r].status
        /\ outbox'[r].copies + outbox'[r].rejects
             = outbox[r].copies + outbox[r].rejects + 1
    <2>1. CASE outbox' = [outbox EXCEPT ![r].copies = @ + 1]
      <3>1. outbox'[r] = [outbox[r] EXCEPT !.copies = @ + 1]
        BY <2>1
      <3> QED BY <1>1, <3>1 DEF RowState
    <2>2. CASE outbox' = [outbox EXCEPT ![r].rejects = @ + 1]
      <3>1. outbox'[r] = [outbox[r] EXCEPT !.rejects = @ + 1]
        BY <2>2
      <3> QED BY <1>1, <3>1 DEF RowState
    <2> QED BY <2>1, <2>2
  <1>5. outbox' \in [DOMAIN outbox -> RowState]
    BY <1>1, <1>2, <1>3, <1>4
  <1>6. PendingRows' = PendingRows
    BY <1>2, <1>3, <1>4 DEF PendingRows
  <1> QED BY <1>2, <1>3, <1>4, <1>5, <1>6

\* Marking the published rows processed.
LEMMA RowsMarked ==
  ASSUME TypeOK, MarkProcessed
  PROVE  /\ DOMAIN outbox' = DOMAIN outbox
         /\ outbox' \in [DOMAIN outbox -> RowState]
         /\ \A x \in published : x \in DOMAIN outbox =>
              /\ outbox'[x].status = "processed"
              /\ outbox'[x].copies = outbox[x].copies
              /\ outbox'[x].rejects = outbox[x].rejects
         /\ \A x \in DOMAIN outbox : x \notin published => outbox'[x] = outbox[x]
  <1>1. \A x \in DOMAIN outbox : outbox[x] \in RowState
    BY DEF TypeOK
  <1>2. outbox' = [r \in DOMAIN outbox |->
                    IF r \in published
                    THEN [outbox[r] EXCEPT !.status = "processed"]
                    ELSE outbox[r]]
    BY DEF MarkProcessed
  <1>3. ASSUME NEW x \in DOMAIN outbox, x \in published
        PROVE  /\ outbox'[x] \in RowState
               /\ outbox'[x].status = "processed"
               /\ outbox'[x].copies = outbox[x].copies
               /\ outbox'[x].rejects = outbox[x].rejects
    BY <1>1, <1>2, <1>3 DEF RowState
  <1>4. ASSUME NEW x \in DOMAIN outbox, x \notin published
        PROVE  outbox'[x] = outbox[x]
    BY <1>2, <1>4
  <1>5. DOMAIN outbox' = DOMAIN outbox
    BY <1>2
  <1>6. \A x \in DOMAIN outbox : outbox'[x] \in RowState
    BY <1>1, <1>3, <1>4
  <1>7. outbox' \in [DOMAIN outbox -> RowState]
    BY <1>2, <1>6
  <1> QED BY <1>3, <1>4, <1>5, <1>7

\* The outbox worker keeps the types; its locals name pending rows.
LEMMA OutboxType == TypeInv /\ Outbox => TypeInv'
  <1> SUFFICES ASSUME TypeInv, Outbox PROVE TypeInv'
    OBVIOUS
  <1> USE DEF TypeInv
  <1>0. \A r \in batch : r \in DOMAIN outbox /\ r \in PendingRows /\ r \in Row
    BY DEF BatchOK, PendingRows, TypeOK
  <1>1. CASE FetchBatch
    <2>1. Oldest \subseteq PendingRows
      BY DEF Oldest
    <2> QED BY <1>1, <2>1 DEF FetchBatch, TypeOK, BatchOK, PendingRows, dbVars,
                              doserVars, consVars, brokerVars
  <1>2. ASSUME NEW r \in batch, PublishRow(r) PROVE TypeInv'
    <2>1. NextMessage(r) \in Message
      BY <1>0, NextMessageType
    <2>2. /\ DOMAIN outbox' = DOMAIN outbox
          /\ outbox' \in [DOMAIN outbox -> RowState]
          /\ PendingRows' = PendingRows
      BY <1>0, <1>2, RowUpdate DEF PublishRow
    <2>3. TypeOK'
      BY <1>0, <1>2, <2>1, <2>2 DEF PublishRow, TypeOK, doserVars, consVars
    <2>4. BatchOK'
      BY <1>0, <1>2, <2>2 DEF PublishRow, BatchOK
    <2> QED BY <2>3, <2>4
  <1>3. ASSUME NEW r \in batch, RejectRow(r) PROVE TypeInv'
    <2>1. NextMessage(r) \in Message
      BY <1>0, NextMessageType
    <2>2. /\ DOMAIN outbox' = DOMAIN outbox
          /\ outbox' \in [DOMAIN outbox -> RowState]
          /\ PendingRows' = PendingRows
      BY <1>0, <1>3, RowUpdate DEF RejectRow
    <2>3. ReportOf(NextMessage(r), BlockedOutcome) \in Result
      BY <2>1, BlockedReportType
    <2>4. faults' \in 0..MaxFaults /\ results' \subseteq Result
      BY <1>3, <2>3, MaxFaultsAssumption DEF RejectRow, TypeOK, Fault
    <2>5. /\ amqpChan' \in {"open", "closed"}
          /\ consumer' \in {"running", "closed", "stuck"}
          /\ buffered' \subseteq Result
      BY <1>3, ChannelsType DEF RejectRow, TypeOK
    <2>6. TypeOK'
      BY <1>0, <1>3, <2>2, <2>4, <2>5 DEF RejectRow, TypeOK, doserVars
    <2>7. BatchOK'
      BY <1>0, <1>3, <2>2 DEF RejectRow, BatchOK
    <2> QED BY <2>6, <2>7
  <1>4. ASSUME NEW r \in batch, SkipRow(r) PROVE TypeInv'
    <2>1. faults' \in 0..MaxFaults
      BY <1>4, FaultType DEF SkipRow, LeftPending, TypeOK
    <2> QED BY <1>4, <2>1 DEF SkipRow, TypeOK, BatchOK, PendingRows, dbVars,
                              doserVars, consVars, brokerVars
  <1>5. ASSUME NEW r \in batch, ConfirmLost(r) PROVE TypeInv'
    <2>1. NextMessage(r) \in Message
      BY <1>0, NextMessageType
    <2>2. /\ DOMAIN outbox' = DOMAIN outbox
          /\ outbox' \in [DOMAIN outbox -> RowState]
          /\ PendingRows' = PendingRows
      BY <1>0, <1>5, RowUpdate DEF ConfirmLost
    <2>3. /\ faults' \in 0..MaxFaults
          /\ amqpChan' \in {"open", "closed"}
          /\ consumer' \in {"running", "closed", "stuck"}
          /\ buffered' \subseteq Result
      BY <1>5, FaultType, ChannelsType DEF ConfirmLost
    <2>4. TypeOK'
      BY <1>0, <1>5, <2>1, <2>2, <2>3 DEF ConfirmLost, TypeOK, doserVars
    <2>5. BatchOK'
      BY <1>0, <1>5, <2>2 DEF ConfirmLost, BatchOK
    <2> QED BY <2>4, <2>5
  <1>6. CASE MarkProcessed
    <2>1. TypeOK'
      BY <1>6, RowsMarked DEF MarkProcessed, TypeOK, doserVars, consVars,
                              brokerVars
    <2>2. BatchOK'
      BY <1>6 DEF MarkProcessed, BatchOK
    <2> QED BY <2>1, <2>2
  <1>7. CASE MarkFails
    BY <1>7, MaxFaultsAssumption
       DEF MarkFails, Fault, TypeOK, BatchOK, PendingRows, dbVars, doserVars,
           consVars, brokerVars
  <1> QED BY <1>1, <1>2, <1>3, <1>4, <1>5, <1>6, <1>7 DEF Outbox

\* An action that leaves the outbox and the worker's locals alone.
LEMMA BatchUnchanged ==
  ASSUME BatchOK, UNCHANGED <<outbox, batch, published>>
  PROVE  BatchOK'
  BY DEF BatchOK, PendingRows

\* The workers keep the types: what they report is a result.
LEMMA WorkerType == TypeInv /\ Worker => TypeInv'
  <1> SUFFICES ASSUME TypeInv, Worker PROVE TypeInv'
    OBVIOUS
  <1> USE DEF TypeInv
  <1>1. ASSUME NEW m \in sendQueue, NEW o \in WorkerOutcome, WorkerSend(m, o)
        PROVE  TypeInv'
    <2>1. m.target \in Target /\ m.attempt \in Nat /\ m.copy \in Nat
      BY DEF TypeOK, Message
    <2>2. o.status \in TaskStatus /\ o.code \in ErrorCode
      BY OutcomeAssumption DEF Outcome
    <2>3. ReportOf(m, o) \in Result
      BY <2>1, <2>2, ReportType
    <2>4. TypeOK'
      BY <1>1, <2>1, <2>3 DEF WorkerSend, TypeOK, dbVars, doserVars,
                              outboxVars, consVars
    <2>5. BatchOK'
      BY <1>1, BatchUnchanged DEF WorkerSend, dbVars, outboxVars
    <2> QED BY <2>4, <2>5
  <1>2. ASSUME NEW t \in reached, NEW s \in RecipientStatus,
               RecipientReport(t, s)
        PROVE  TypeInv'
    <2> DEFINE m == [target |-> t, attempt |-> 0, copy |-> 0]
               o == [status |-> s, code |-> ""]
    <2>1. m.target \in Target /\ m.attempt \in Nat /\ m.copy \in Nat
      BY DEF TypeOK
    <2>2. o.status \in TaskStatus /\ o.code \in ErrorCode
      BY OutcomeAssumption DEF TaskStatus, ErrorCode
    <2> HIDE DEF m, o
    <2>3. ReportOf(m, o) \in Result
      BY <2>1, <2>2, ReportType
    <2>4. results' \subseteq Result
      BY <1>2, <2>3 DEF RecipientReport, TypeOK, m, o
    <2>5. TypeOK'
      BY <1>2, <2>4 DEF RecipientReport, TypeOK, dbVars, doserVars, outboxVars,
                        consVars
    <2>6. BatchOK'
      BY <1>2, BatchUnchanged DEF RecipientReport, dbVars, outboxVars
    <2> QED BY <2>5, <2>6
  <1> QED BY <1>1, <1>2 DEF Worker

\* What the transaction of a result does to the row it names.
LEMMA ApplyResultRow ==
  ASSUME TypeOK, ApplyResult
  PROVE  /\ hand \in Result
         /\ status' = [status EXCEPT ![hand.target] =
                         StatusAfterResult(@, attempt[hand.target],
                                           MaxRetryAttempts, hand)]
         /\ status' \in [Target -> TaskStatus]
         /\ waiting' \subseteq Target
  <1>1. hand \in Result
    BY DEF ApplyResult, TypeOK
  <1>2. /\ hand.target \in Target
        /\ hand.status \in TaskStatus /\ hand.code \in ErrorCode
    BY <1>1 DEF Result
  <1>3. StatusAfterResult(status[hand.target], attempt[hand.target],
                          MaxRetryAttempts, hand) \in TaskStatus
    BY <1>2, ResultStatus, MaxRetryAssumption DEF TypeOK
  <1>4. status' \in [Target -> TaskStatus]
    BY <1>2, <1>3 DEF ApplyResult, TypeOK
  <1>5. WaitingAfter(hand) \in {waiting \cup {hand.target},
                                waiting \ {hand.target}, waiting}
    BY DEF WaitingAfter
  <1>6. waiting' \subseteq Target
    BY <1>2, <1>5 DEF ApplyResult, TypeOK
  <1> QED BY <1>1, <1>4, <1>6 DEF ApplyResult

\* The consumer keeps the types, whatever outcome it applies.
LEMMA ConsumerType == TypeInv /\ Consumer => TypeInv'
  <1> SUFFICES ASSUME TypeInv, Consumer PROVE TypeInv'
    OBVIOUS
  <1> USE DEF TypeInv
  <1>1. ASSUME NEW r \in results, TakeResult(r) PROVE TypeInv'
    BY <1>1, BatchUnchanged DEF TakeResult, TypeOK, dbVars, doserVars,
                                outboxVars, brokerVars
  <1>2. CASE ApplyResult
    BY <1>2, ApplyResultRow, BatchUnchanged
       DEF ApplyResult, TypeOK, doserVars, outboxVars, brokerVars
  <1>3. CASE ApplyReply
    <2>1. hand.target \in Target
      BY <1>3 DEF ApplyReply, TypeOK, Result
    <2>2. status' \in [Target -> TaskStatus] /\ blocked' \subseteq Target
      BY <1>3, <2>1 DEF ApplyReply, RegisterReply, TypeOK, TaskStatus
    <2>3. TypeOK'
      BY <1>3, <2>2 DEF ApplyReply, RegisterReply, TypeOK, doserVars,
                        outboxVars, brokerVars
    <2>4. BatchOK'
      BY <1>3, BatchUnchanged DEF ApplyReply, RegisterReply, outboxVars
    <2> QED BY <2>3, <2>4
  <1>4. CASE AckResult
    BY <1>4, BatchUnchanged DEF AckResult, Acked, TypeOK, dbVars, doserVars,
                                outboxVars
  <1>5. CASE ResultRedelivered
    <2>1. faults' \in 0..MaxFaults
      BY <1>5, FaultType DEF ResultRedelivered
    <2>2. TypeOK'
      BY <1>5, <2>1 DEF ResultRedelivered, TypeOK, dbVars, doserVars,
                        outboxVars, brokerVars
    <2>3. BatchOK'
      BY <1>5, BatchUnchanged DEF ResultRedelivered, dbVars, outboxVars
    <2> QED BY <2>2, <2>3
  <1>6. CASE AckAndHang
    <2>1. faults' \in 0..MaxFaults
      BY <1>6, FaultType DEF AckAndHang
    <2>2. TypeOK'
      BY <1>6, <2>1 DEF AckAndHang, Acked, TypeOK, dbVars, doserVars, outboxVars
    <2>3. BatchOK'
      BY <1>6, BatchUnchanged DEF AckAndHang, dbVars, outboxVars
    <2> QED BY <2>2, <2>3
  <1>7. CASE RunExits
    BY <1>7, BatchUnchanged DEF RunExits, TypeOK, dbVars, doserVars, outboxVars,
                                brokerVars
  <1> QED BY <1>1, <1>2, <1>3, <1>4, <1>5, <1>6, <1>7 DEF Consumer

\* The HTTP handlers keep the types.
LEMMA HttpType == TypeInv /\ Http => TypeInv'
  <1> SUFFICES ASSUME TypeInv, Http PROVE TypeInv'
    OBVIOUS
  <1> USE DEF TypeInv
  <1>1. ASSUME NEW c \in callbacks, WorkerCallback(c) PROVE TypeInv'
    <2>1. c.target \in Target /\ c.status \in TaskStatus
      BY DEF TypeOK, Result
    <2>2. StatusAfterCallback(status[c.target], c) \in TaskStatus
      BY <2>1, CallbackStatus DEF TypeOK
    <2>3. status' \in [Target -> TaskStatus]
      BY <1>1, <2>1, <2>2 DEF WorkerCallback, TypeOK
    <2>4. TypeOK'
      BY <1>1, <2>3 DEF WorkerCallback, TypeOK, doserVars, outboxVars, consVars
    <2>5. BatchOK'
      BY <1>1, BatchUnchanged DEF WorkerCallback, outboxVars
    <2> QED BY <2>4, <2>5
  <1>2. ASSUME NEW c \in callbacks, CallbackLost(c) PROVE TypeInv'
    BY <1>2, BatchUnchanged DEF CallbackLost, TypeOK, dbVars, doserVars,
                                outboxVars, consVars
  <1>3. ASSUME NEW t \in reached, RepliesWebhook(t) PROVE TypeInv'
    <2>1. t \in Target
      BY DEF TypeOK
    <2>2. status' \in [Target -> TaskStatus] /\ blocked' \subseteq Target
      BY <1>3, <2>1 DEF RepliesWebhook, RegisterReply, TypeOK, TaskStatus
    <2>3. TypeOK'
      BY <1>3, <2>2 DEF RepliesWebhook, RegisterReply, TypeOK, doserVars,
                        outboxVars, consVars, brokerVars
    <2>4. BatchOK'
      BY <1>3, BatchUnchanged DEF RepliesWebhook, RegisterReply, outboxVars
    <2> QED BY <2>3, <2>4
  <1>4. ASSUME NEW t \in Target, UnsubscribedElsewhere(t) PROVE TypeInv'
    BY <1>4, BatchUnchanged DEF UnsubscribedElsewhere, TypeOK, doserVars,
                                outboxVars, consVars, brokerVars
  <1> QED BY <1>1, <1>2, <1>3, <1>4 DEF Http

\* Every step keeps the types.
LEMMA TypeStep == TypeInv /\ [Next]_vars => TypeInv'
  <1> SUFFICES ASSUME TypeInv, [Next]_vars PROVE TypeInv'
    OBVIOUS
  <1> USE DEF TypeInv
  <1>1. ASSUME NEW t \in Target, RetryDue(t) PROVE TypeInv'
    BY <1>1, BatchUnchanged DEF RetryDue, TypeOK, doserVars, outboxVars,
                                consVars, brokerVars
  <1>2. CASE Crash
    <2>1. faults' \in 0..MaxFaults
      BY <1>2, FaultType DEF Crash, TypeOK
    <2>2. TypeOK'
      BY <1>2, <2>1 DEF Crash, TypeOK, dbVars, brokerVars
    <2>3. BatchOK'
      BY <1>2 DEF Crash, BatchOK
    <2> QED BY <2>2, <2>3
  <1>3. CASE UNCHANGED vars
    BY <1>3, BatchUnchanged DEF vars, TypeOK, dbVars, doserVars, outboxVars,
                                consVars, brokerVars
  <1>4. CASE ChannelCloses
    <2>1. /\ faults' \in 0..MaxFaults
          /\ amqpChan' \in {"open", "closed"}
          /\ consumer' \in {"running", "closed", "stuck"}
          /\ buffered' \subseteq Result
      BY <1>4, FaultType, ChannelsType DEF ChannelCloses
    <2>2. TypeOK'
      BY <1>4, <2>1 DEF ChannelCloses, TypeOK, dbVars, doserVars, brokerVars
    <2>3. BatchOK'
      BY <1>4, BatchUnchanged DEF ChannelCloses, dbVars
    <2> QED BY <2>2, <2>3
  <1> HIDE DEF TypeInv
  <1> QED BY <1>1, <1>2, <1>3, <1>4, DoserType, OutboxType, WorkerType,
             ConsumerType, HttpType DEF Next

\* The outbox worker only ever holds rows that are still pending in the table.
LEMMA TypeInvariant == Spec => []TypeInv
  <1>1. Init => TypeInv
    BY TypeInit
  <1>2. TypeInv /\ [Next]_vars => TypeInv'
    BY TypeStep
  <1> QED BY <1>1, <1>2, PTL DEF Spec

\* The columns, queues and locals keep their types.
THEOREM TypeCorrect == Spec => []TypeOK
  <1>1. TypeInv => TypeOK
    BY DEF TypeInv
  <1> QED BY <1>1, TypeInvariant, PTL

-----------------------------------------------------------------------------
(* The outbox: one row per attempt, none dropped, repeated only by faults. *)

\* Only the claim changes the attempts or the set of rows.
LEMMA RowsUnchanged ==
  ASSUME TypeInv, [Next]_vars, ~AssignAndEnqueue
  PROVE  UNCHANGED attempt /\ DOMAIN outbox' = DOMAIN outbox
  <1> DEFINE Same == UNCHANGED attempt /\ DOMAIN outbox' = DOMAIN outbox
  <1> USE DEF TypeInv
  <1>1. ASSUME Outbox PROVE Same
    <2>1. \A r \in batch : r \in DOMAIN outbox
      BY DEF BatchOK, PendingRows
    <2>2. ASSUME NEW r \in batch,
                 PublishRow(r) \/ RejectRow(r) \/ ConfirmLost(r)
          PROVE  Same
      BY <2>1, <2>2 DEF PublishRow, RejectRow, ConfirmLost
    <2>3. MarkProcessed => Same
      BY DEF MarkProcessed
    <2>4. ASSUME FetchBatch \/ MarkFails \/ \E r \in batch : SkipRow(r)
          PROVE  Same
      BY <2>4 DEF FetchBatch, MarkFails, SkipRow, dbVars
    <2> QED BY <1>1, <2>2, <2>3, <2>4 DEF Outbox
  <1>2. ASSUME UNCHANGED <<attempt, outbox>> PROVE Same
    BY <1>2
  <1>3. Doser => UNCHANGED <<attempt, outbox>>
    BY DEF Doser, SelectTarget, AssignRefused, DeferRetries, dbVars
  <1>4. Worker => UNCHANGED <<attempt, outbox>>
    BY DEF Worker, WorkerSend, RecipientReport, dbVars
  <1>5. Consumer => UNCHANGED <<attempt, outbox>>
    BY DEF Consumer, TakeResult, ApplyResult, ApplyReply, RegisterReply,
           AckResult, AckAndHang, ResultRedelivered, RunExits, dbVars
  <1>6. Http => UNCHANGED <<attempt, outbox>>
    BY DEF Http, WorkerCallback, CallbackLost, RepliesWebhook, RegisterReply,
           UnsubscribedElsewhere, dbVars
  <1>7. (\E t \in Target : RetryDue(t)) \/ ChannelCloses \/ Crash
           \/ UNCHANGED vars
          => UNCHANGED <<attempt, outbox>>
    BY DEF RetryDue, ChannelCloses, Crash, vars, dbVars
  <1> HIDE DEF Same
  <1>8. Same
    BY <1>1, <1>2, <1>3, <1>4, <1>5, <1>6, <1>7 DEF Next
  <1> QED BY <1>8 DEF Same

\* Only the doser adds an attempt, and it adds the row with it.
LEMMA RowPerAttemptStep ==
  ASSUME TypeInv, RowPerAttempt, [Next]_vars
  PROVE  RowPerAttempt'
  <1> USE DEF TypeInv
  <1>1. CASE UNCHANGED attempt /\ DOMAIN outbox' = DOMAIN outbox
    BY <1>1 DEF RowPerAttempt
  <1>2. CASE AssignAndEnqueue
    <2> DEFINE row == NewRow(selected)
    <2>1. selected \in Target
      BY <1>2 DEF AssignAndEnqueue, TypeOK
    <2>2. /\ row.target = selected
          /\ row.attempt = attempt[selected] + 1
          /\ row = [target |-> selected, attempt |-> attempt[selected] + 1]
      BY DEF NewRow
    <2>3. /\ attempt' = [attempt EXCEPT ![selected] = @ + 1]
          /\ DOMAIN outbox' = DOMAIN outbox \cup {row}
      BY <1>2 DEF AssignAndEnqueue
    <2> HIDE DEF row
    <2>4. \A t \in Target : attempt[t] \in Nat
      BY DEF TypeOK
    <2>5. ASSUME NEW r \in DOMAIN outbox'
          PROVE  r.attempt \in 1..attempt'[r.target]
      <3>1. CASE r = row
        BY <2>1, <2>2, <2>3, <2>4, <3>1 DEF TypeOK
      <3>2. CASE r \in DOMAIN outbox
        <4>1. r.target \in Target /\ r.attempt \in 1..attempt[r.target]
          BY <3>2 DEF TypeOK, Row, RowPerAttempt
        <4>2. attempt'[r.target] \in {attempt[r.target], attempt[r.target] + 1}
          BY <2>3, <4>1 DEF TypeOK
        <4> QED BY <2>4, <4>1, <4>2
      <3> QED BY <2>3, <2>5, <3>1, <3>2
    <2>6. ASSUME NEW t \in Target, NEW k \in 1..attempt'[t]
          PROVE  [target |-> t, attempt |-> k] \in DOMAIN outbox'
      <3>1. CASE k \in 1..attempt[t]
        BY <2>3, <3>1 DEF RowPerAttempt
      <3>2. CASE k \notin 1..attempt[t]
        <4>1. t = selected /\ k = attempt[selected] + 1
          BY <2>1, <2>3, <2>4, <2>6, <3>2 DEF TypeOK
        <4> QED BY <2>2, <2>3, <4>1
      <3> QED BY <3>1, <3>2
    <2> QED BY <2>5, <2>6 DEF RowPerAttempt
  <1> QED BY <1>1, <1>2, RowsUnchanged

\* The number of times a row was handled, against the faults so far: a row
\* that is still to be published has one handling fewer than it may have.
HandledInv ==
  \A r \in DOMAIN outbox :
    /\ outbox[r].status = "processed" \/ r \in published => Copies(r) > 0
    /\ r \in PendingRows \ published => Copies(r) <= faults
    /\ Copies(r) <= 1 + faults

\* Nothing is published over a channel that has closed, so that the fault that
\* closed it also pays for the restart that follows.
ClosedInv ==
  amqpChan = "closed" =>
    faults > 0 /\ \A r \in DOMAIN outbox : Copies(r) <= faults

OutboxInv == TypeInv /\ RowPerAttempt /\ HandledInv /\ ClosedInv

\* A fault that leaves the table alone, whatever becomes of processedIDs:
\* every row may be handled once more.
LEMMA HandledByFault ==
  ASSUME OutboxInv, Fault, UNCHANGED outbox, published' \in {published, {}}
  PROVE  HandledInv'
  <1>1. faults \in Nat /\ faults' = faults + 1
    BY FaultType DEF OutboxInv, TypeInv, TypeOK
  <1>2. \A r \in DOMAIN outbox : Copies(r) \in Nat /\ Copies(r)' = Copies(r)
    BY DEF Copies, OutboxInv, TypeInv, TypeOK, RowState
  <1>3. PendingRows' = PendingRows
    BY DEF PendingRows
  <1> QED BY <1>1, <1>2, <1>3 DEF OutboxInv, HandledInv

\* The restart after the channel has closed drops processedIDs, whose rows have
\* been paid for.
LEMMA HandledByRestart ==
  ASSUME OutboxInv, amqpChan = "closed", UNCHANGED <<outbox, faults>>,
         published' = {}
  PROVE  HandledInv'
  <1>1. \A r \in DOMAIN outbox : Copies(r)' = Copies(r) /\ Copies(r) <= faults
    BY DEF Copies, OutboxInv, ClosedInv
  <1>2. PendingRows' = PendingRows
    BY DEF PendingRows
  <1> QED BY <1>1, <1>2 DEF OutboxInv, HandledInv

\* A fault that leaves the table alone pays for every row, whatever it closes.
LEMMA ClosedByFault ==
  ASSUME OutboxInv, Fault, UNCHANGED outbox
  PROVE  ClosedInv'
  <1>1. faults \in Nat /\ faults' = faults + 1
    BY FaultType DEF OutboxInv, TypeInv, TypeOK
  <1>2. \A r \in DOMAIN outbox : Copies(r) \in Nat /\ Copies(r)' = Copies(r)
    BY DEF Copies, OutboxInv, TypeInv, TypeOK, RowState
  <1> QED BY <1>1, <1>2 DEF OutboxInv, HandledInv, ClosedInv

\* Handling one row of the batch.
LEMMA HandledRow ==
  ASSUME OutboxInv, NEW r \in batch,
         \/ outbox' = [outbox EXCEPT ![r].copies = @ + 1]
         \/ outbox' = [outbox EXCEPT ![r].rejects = @ + 1],
         \/ published' = published \cup {r} /\ faults' = faults
         \/ published' = published \cup {r} /\ Fault
         \/ published' = published /\ Fault
  PROVE  HandledInv'
  <1> USE DEF OutboxInv, TypeInv
  <1>1. r \in DOMAIN outbox /\ r \in PendingRows \ published
    BY DEF BatchOK, PendingRows
  <1>2. /\ DOMAIN outbox' = DOMAIN outbox
        /\ \A x \in DOMAIN outbox : outbox'[x].status = outbox[x].status
        /\ \A x \in DOMAIN outbox : x # r => outbox'[x] = outbox[x]
        /\ PendingRows' = PendingRows
        /\ Copies(r)' = Copies(r) + 1
    BY <1>1, RowUpdate DEF Copies
  <1>3. \A x \in DOMAIN outbox : Copies(x) \in Nat
    BY DEF Copies, TypeOK, RowState
  <1>4. \A x \in DOMAIN outbox : x # r => Copies(x)' = Copies(x)
    BY <1>2 DEF Copies
  <1>5. faults \in Nat /\ faults' \in {faults, faults + 1}
    BY FaultType DEF TypeOK
  <1>6. Copies(r)' > 0 /\ Copies(r)' <= 1 + faults
    BY <1>1, <1>2, <1>3, <1>5 DEF HandledInv
  <1>7. r \notin published' => faults' = faults + 1
    BY FaultType
  <1>8. ASSUME NEW x \in DOMAIN outbox, x # r
        PROVE  /\ outbox'[x].status = "processed" \/ x \in published'
                    => Copies(x)' > 0
               /\ x \in PendingRows' \ published' => Copies(x)' <= faults'
               /\ Copies(x)' <= 1 + faults'
    <2>1. (x \in published') <=> (x \in published)
      BY <1>8
    <2>2. /\ outbox[x].status = "processed" \/ x \in published => Copies(x) > 0
          /\ x \in PendingRows \ published => Copies(x) <= faults
          /\ Copies(x) <= 1 + faults
      BY DEF HandledInv
    <2> QED BY <1>2, <1>3, <1>4, <1>5, <1>8, <2>1, <2>2
  <1>9. /\ outbox'[r].status = "processed" \/ r \in published'
             => Copies(r)' > 0
        /\ r \in PendingRows' \ published' => Copies(r)' <= faults'
        /\ Copies(r)' <= 1 + faults'
    <2>1. r \in DOMAIN outbox /\ Copies(r)' \in Nat
      BY <1>1, <1>2, <1>3
    <2>2. r \notin published' => Copies(r)' <= faults'
      BY <1>5, <1>6, <1>7, <2>1
    <2>3. Copies(r)' <= 1 + faults'
      BY <1>5, <1>6, <2>1
    <2> QED BY <1>6, <2>2, <2>3
  <1> QED BY <1>2, <1>8, <1>9 DEF HandledInv

\* Every step keeps the account of what was done with the rows.
LEMMA HandledStep ==
  ASSUME OutboxInv, [Next]_vars
  PROVE  HandledInv'
  <1> USE DEF OutboxInv, TypeInv
  <1>1. ASSUME UNCHANGED <<outbox, published, faults>> PROVE HandledInv'
    BY <1>1 DEF HandledInv, PendingRows, Copies
  <1>2. CASE AssignAndEnqueue
    <2>0. PICK row : row = NewRow(selected)
      OBVIOUS
    <2>1. selected \in Target /\ attempt[selected] \in Nat
      BY <1>2 DEF AssignAndEnqueue, TypeOK
    <2>2. row \notin DOMAIN outbox
      <3>1. row.target = selected /\ row.attempt = attempt[selected] + 1
        BY <2>0 DEF NewRow
      <3>2. row \in DOMAIN outbox => row.attempt \in 1..attempt[row.target]
        BY DEF RowPerAttempt
      <3> QED BY <2>1, <3>1, <3>2
    <2>3. /\ DOMAIN outbox' = DOMAIN outbox \cup {row}
          /\ outbox'[row] = [status |-> "pending", before |-> DOMAIN outbox,
                             copies |-> 0, rejects |-> 0]
          /\ \A x \in DOMAIN outbox : outbox'[x] = outbox[x]
          /\ published' = published /\ faults' = faults
      BY <1>2, <2>0, <2>2 DEF AssignAndEnqueue, outboxVars
    <2>4. row \notin published
      BY <2>2 DEF BatchOK, PendingRows
    <2>5. Copies(row)' = 0 /\ outbox'[row].status = "pending"
      BY <2>3 DEF Copies
    <2>6. faults \in Nat
      BY DEF TypeOK
    <2>7. \A x \in DOMAIN outbox : /\ Copies(x)' = Copies(x)
                                   /\ (x \in PendingRows' <=> x \in PendingRows)
      BY <2>3 DEF Copies, PendingRows
    <2>8. \A x \in DOMAIN outbox :
            /\ outbox'[x].status = "processed" \/ x \in published'
                 => Copies(x)' > 0
            /\ x \in PendingRows' \ published' => Copies(x)' <= faults'
            /\ Copies(x)' <= 1 + faults'
      BY <2>3, <2>7 DEF HandledInv
    <2>9. /\ outbox'[row].status = "processed" \/ row \in published'
               => Copies(row)' > 0
          /\ row \in PendingRows' \ published' => Copies(row)' <= faults'
          /\ Copies(row)' <= 1 + faults'
      BY <2>3, <2>4, <2>5, <2>6
    <2> QED BY <2>3, <2>8, <2>9 DEF HandledInv
  <1>3. ASSUME NEW r \in batch,
               PublishRow(r) \/ RejectRow(r) \/ ConfirmLost(r)
        PROVE  HandledInv'
    BY <1>3, HandledRow DEF PublishRow, RejectRow, ConfirmLost
  <1>4. CASE MarkProcessed
    <2>1. /\ DOMAIN outbox' = DOMAIN outbox
          /\ \A x \in published : x \in DOMAIN outbox =>
               /\ outbox'[x].status = "processed"
               /\ Copies(x)' = Copies(x)
          /\ \A x \in DOMAIN outbox : x \notin published => outbox'[x] = outbox[x]
      BY <1>4, RowsMarked DEF Copies
    <2>2. published' = {} /\ faults' = faults
      BY <1>4 DEF MarkProcessed
    <2>3. \A x \in DOMAIN outbox : Copies(x)' = Copies(x)
      BY <2>1 DEF Copies
    <2>4. \A x \in DOMAIN outbox :
            x \in PendingRows' => x \in PendingRows \ published
      BY <2>1 DEF PendingRows
    <2>5. \A x \in DOMAIN outbox :
            outbox'[x].status = "processed"
              => outbox[x].status = "processed" \/ x \in published
      BY <2>1
    <2> QED BY <2>1, <2>2, <2>3, <2>4, <2>5 DEF HandledInv
  <1>5. ASSUME MarkFails \/ Crash PROVE HandledInv'
    <2>1. UNCHANGED outbox /\ published' = {}
      BY <1>5 DEF MarkFails, Crash, dbVars
    <2>2. Fault \/ (amqpChan = "closed" /\ UNCHANGED faults)
      BY <1>5 DEF MarkFails, Crash
    <2> HIDE DEF OutboxInv, TypeInv
    <2> QED BY <2>1, <2>2, HandledByFault, HandledByRestart
  <1>6. ASSUME ResultRedelivered \/ AckAndHang \/ ChannelCloses
        PROVE  HandledInv'
    <2>1. Fault /\ UNCHANGED outbox /\ published' = published
      BY <1>6 DEF ResultRedelivered, AckAndHang, ChannelCloses, dbVars, outboxVars
    <2> QED BY <2>1, HandledByFault
  <1>7. ASSUME FetchBatch PROVE UNCHANGED <<outbox, published, faults>>
    BY <1>7 DEF FetchBatch, dbVars
  <1>13. ASSUME NEW r \in batch, SkipRow(r) PROVE HandledInv'
    <2>1. UNCHANGED outbox /\ published' = published
      BY <1>13 DEF SkipRow, dbVars
    <2>2. Fault \/ UNCHANGED faults
      BY <1>13 DEF SkipRow, LeftPending
    <2> QED BY <1>1, <2>1, <2>2, HandledByFault
  <1>8. ASSUME Doser, ~AssignAndEnqueue
        PROVE  UNCHANGED <<outbox, published, faults>>
    BY <1>8 DEF Doser, SelectTarget, AssignRefused, DeferRetries, dbVars,
                outboxVars
  <1>9. Worker => UNCHANGED <<outbox, published, faults>>
    BY DEF Worker, WorkerSend, RecipientReport, dbVars, outboxVars
  <1>10. ASSUME Consumer, ~ResultRedelivered, ~AckAndHang
         PROVE  UNCHANGED <<outbox, published, faults>>
    BY <1>10 DEF Consumer, TakeResult, ApplyResult, ApplyReply, RegisterReply,
                 AckResult, RunExits, dbVars, outboxVars
  <1>11. Http => UNCHANGED <<outbox, published, faults>>
    BY DEF Http, WorkerCallback, CallbackLost, RepliesWebhook, RegisterReply,
           UnsubscribedElsewhere, dbVars, outboxVars
  <1>12. (\E t \in Target : RetryDue(t)) \/ UNCHANGED vars
           => UNCHANGED <<outbox, published, faults>>
    BY DEF RetryDue, vars, dbVars, outboxVars
  <1> HIDE DEF OutboxInv
  <1> QED BY <1>1, <1>2, <1>3, <1>4, <1>5, <1>6, <1>7, <1>8, <1>9, <1>10,
             <1>11, <1>12, <1>13 DEF Next, Outbox

\* A channel closes by a fault, and as long as it is closed no row is handled.
LEMMA ClosedStep ==
  ASSUME OutboxInv, [Next]_vars
  PROVE  ClosedInv'
  <1> USE DEF OutboxInv, TypeInv
  <1>0. /\ faults \in Nat
        /\ \A r \in DOMAIN outbox : Copies(r) \in Nat
    BY DEF TypeOK, Copies, RowState
  <1>1. ASSUME UNCHANGED <<outbox, amqpChan, faults>> PROVE ClosedInv'
    BY <1>1 DEF ClosedInv, Copies
  <1>2. ASSUME Fault, UNCHANGED outbox PROVE ClosedInv'
    BY <1>2, ClosedByFault
  <1>3. CASE AssignAndEnqueue
    <2>1. UNCHANGED <<amqpChan, faults>>
      BY <1>3 DEF AssignAndEnqueue, outboxVars
    <2>2. \A r \in DOMAIN outbox' :
            \/ Copies(r)' = 0
            \/ r \in DOMAIN outbox /\ Copies(r)' = Copies(r)
      BY <1>3 DEF AssignAndEnqueue, Copies
    <2> QED BY <1>0, <2>1, <2>2 DEF ClosedInv
  <1>4. ASSUME NEW r \in batch,
               PublishRow(r) \/ RejectRow(r) \/ ConfirmLost(r)
        PROVE  ClosedInv'
    <2>1. r \in DOMAIN outbox /\ r \in PendingRows \ published
      BY DEF BatchOK, PendingRows
    <2>2. amqpChan' = "open" \/ Fault
      BY <1>4 DEF PublishRow, RejectRow, ConfirmLost
    <2>3. /\ DOMAIN outbox' = DOMAIN outbox
          /\ \A x \in DOMAIN outbox : x # r => Copies(x)' = Copies(x)
          /\ Copies(r)' = Copies(r) + 1
      BY <1>4, <2>1, RowUpdate DEF PublishRow, RejectRow, ConfirmLost, Copies
    <2>4. \A x \in DOMAIN outbox : Copies(x) <= 1 + faults
      BY DEF HandledInv
    <2>5. Copies(r) <= faults
      BY <2>1 DEF HandledInv
    <2>6. Fault => faults' = faults + 1
      BY DEF Fault
    <2>7. Fault => faults' > 0 /\ \A x \in DOMAIN outbox' : Copies(x)' <= faults'
      BY <1>0, <2>1, <2>3, <2>4, <2>5, <2>6
    <2> QED BY <2>2, <2>7 DEF ClosedInv
  <1>5. CASE MarkProcessed
    <2>1. /\ DOMAIN outbox' = DOMAIN outbox
          /\ \A x \in DOMAIN outbox : Copies(x)' = Copies(x)
      BY <1>5, RowsMarked DEF Copies
    <2>2. UNCHANGED <<amqpChan, faults>>
      BY <1>5 DEF MarkProcessed
    <2> QED BY <2>1, <2>2 DEF ClosedInv
  <1>6. ASSUME NEW r \in batch, SkipRow(r) PROVE ClosedInv'
    <2>1. UNCHANGED <<outbox, amqpChan>> /\ (Fault \/ UNCHANGED faults)
      BY <1>6 DEF SkipRow, LeftPending, dbVars
    <2> QED BY <1>1, <1>2, <2>1
  <1>7. ASSUME \/ MarkFails \/ ResultRedelivered \/ AckAndHang \/ ChannelCloses
        PROVE  ClosedInv'
    <2>1. Fault /\ UNCHANGED outbox
      BY <1>7 DEF MarkFails, ResultRedelivered, AckAndHang, ChannelCloses, dbVars
    <2> QED BY <1>2, <2>1
  <1>8. CASE Crash
    BY <1>8 DEF Crash, ClosedInv
  <1>9. ASSUME \/ FetchBatch \/ (Doser /\ ~AssignAndEnqueue) \/ Worker
               \/ (Consumer /\ ~ResultRedelivered /\ ~AckAndHang)
               \/ Http \/ (\E t \in Target : RetryDue(t)) \/ UNCHANGED vars
        PROVE  UNCHANGED <<outbox, amqpChan, faults>>
    <2>1. FetchBatch => UNCHANGED <<outbox, amqpChan, faults>>
      BY DEF FetchBatch, dbVars
    <2>2. Doser /\ ~AssignAndEnqueue => UNCHANGED <<outbox, amqpChan, faults>>
      BY DEF Doser, SelectTarget, AssignRefused, DeferRetries, dbVars, outboxVars
    <2>3. Worker => UNCHANGED <<outbox, amqpChan, faults>>
      BY DEF Worker, WorkerSend, RecipientReport, dbVars, outboxVars
    <2>4. Consumer /\ ~ResultRedelivered /\ ~AckAndHang
            => UNCHANGED <<outbox, amqpChan, faults>>
      BY DEF Consumer, TakeResult, ApplyResult, ApplyReply, RegisterReply,
             AckResult, RunExits, dbVars, outboxVars
    <2>5. Http => UNCHANGED <<outbox, amqpChan, faults>>
      BY DEF Http, WorkerCallback, CallbackLost, RepliesWebhook, RegisterReply,
             UnsubscribedElsewhere, dbVars, outboxVars
    <2>6. (\E t \in Target : RetryDue(t)) \/ UNCHANGED vars
            => UNCHANGED <<outbox, amqpChan, faults>>
      BY DEF RetryDue, vars, dbVars, outboxVars
    <2> QED BY <1>9, <2>1, <2>2, <2>3, <2>4, <2>5, <2>6
  <1> HIDE DEF OutboxInv, TypeInv
  <1> QED BY <1>1, <1>3, <1>4, <1>5, <1>6, <1>7, <1>8, <1>9 DEF Next, Outbox

\* The inductive invariant of the outbox holds throughout.
LEMMA OutboxInvariant == Spec => []OutboxInv
  <1>1. Init => OutboxInv
    <2> SUFFICES ASSUME Init PROVE OutboxInv
      OBVIOUS
    <2>1. DOMAIN outbox = {} /\ \A t \in Target : attempt[t] = 0
      BY DEF Init
    <2>2. RowPerAttempt /\ HandledInv
      BY <2>1 DEF RowPerAttempt, HandledInv
    <2>3. ClosedInv
      BY DEF Init, ClosedInv
    <2> QED BY <2>2, <2>3, TypeInit DEF OutboxInv
  <1>2. OutboxInv /\ [Next]_vars => OutboxInv'
    BY TypeStep, RowPerAttemptStep, HandledStep, ClosedStep DEF OutboxInv
  <1> QED BY <1>1, <1>2, PTL DEF Spec

\* Every attempt counted on a target has its outbox row, and no other row
\* exists: the claim and the insertion cannot come apart.
THEOREM RowPerAttemptHolds == Spec => []RowPerAttempt
  <1>1. OutboxInv => RowPerAttempt
    BY DEF OutboxInv
  <1> QED BY <1>1, OutboxInvariant, PTL

\* A processed row was published or rejected: the outbox drops nothing.
THEOREM NoRowLostHolds == Spec => []NoRowLost
  <1>1. OutboxInv => NoRowLost
    BY DEF OutboxInv, HandledInv, NoRowLost
  <1> QED BY <1>1, OutboxInvariant, PTL

\* A row reaches its queue once, and once more for each fault at most.
THEOREM CopiesBoundedHolds == Spec => []CopiesBounded
  <1>1. OutboxInv => CopiesBounded
    BY DEF OutboxInv, HandledInv, CopiesBounded
  <1> QED BY <1>1, OutboxInvariant, PTL

-----------------------------------------------------------------------------
(* The order of the outbox.  publish_at orders the rows totally, so what a *)
(* tick fetches is a prefix of the pending rows, of BatchLimit rows at     *)
(* most, and holds the oldest of them.                                     *)

Before == [r \in DOMAIN outbox |-> outbox[r].before]

\* b gives for every element of D the elements before it in a total order.
Ordered(D, b) ==
  \A r \in D :
    /\ b[r] \subseteq D \ {r}
    /\ \A q \in b[r] : b[q] \subseteq b[r]
    /\ \A q \in D \ {r} : q \in b[r] \/ r \in b[q]

OrderInv == IsFiniteSet(DOMAIN outbox) /\ Ordered(DOMAIN outbox, Before)

\* What is fetched is no more than the limit, passes over no older row, and
\* holds the oldest pending row if there is one.
OldestServed ==
  /\ IsFiniteSet(Oldest) /\ Cardinality(Oldest) <= BatchLimit
  /\ \A r \in Oldest : outbox[r].before \cap PendingRows \subseteq Oldest
  /\ PendingRows # {} =>
       \E r \in Oldest : \A q \in PendingRows \ {r} : r \in outbox[q].before

\* An element that comes before another has fewer elements before it.
LEMMA FewerBefore ==
  ASSUME NEW D, IsFiniteSet(D), NEW b, Ordered(D, b), NEW S, S \subseteq D,
         NEW r \in D, NEW q \in b[r] \cap S
  PROVE  /\ Cardinality(b[q] \cap S) \in Nat
         /\ Cardinality(b[r] \cap S) \in Nat
         /\ Cardinality(b[q] \cap S) < Cardinality(b[r] \cap S)
  <1>1. q \in D /\ q \notin b[q] /\ b[q] \subseteq b[r] /\ b[r] \subseteq D
    BY DEF Ordered
  <1>2. b[q] \cap S \in SUBSET (b[r] \cap S)
    BY <1>1
  <1>3. b[q] \cap S # b[r] \cap S
    BY <1>1
  <1>4. IsFiniteSet(b[r] \cap S)
    BY <1>1, FS_Subset
  <1>5. /\ IsFiniteSet(b[q] \cap S)
        /\ Cardinality(b[q] \cap S) <= Cardinality(b[r] \cap S)
        /\ Cardinality(b[q] \cap S) # Cardinality(b[r] \cap S)
    BY <1>2, <1>3, <1>4, FS_Subset
  <1>6. Cardinality(b[q] \cap S) \in Nat /\ Cardinality(b[r] \cap S) \in Nat
    BY <1>4, <1>5, FS_CardinalityType
  <1> QED BY <1>5, <1>6

\* A nonempty set of naturals has a least element.
LEMMA Least ==
  ASSUME NEW T, T \subseteq Nat, T # {}
  PROVE  \E x \in T : \A y \in T : x <= y
  <1> DEFINE R == {ss \in Nat \X Nat : ss[1] < ss[2]}
  <1>1. IsWellFoundedOn(R, Nat)
    BY NatLessThanWellFounded DEF OpToRel
  <1>2. PICK x \in T : \A y \in T : <<y, x>> \notin R
    <2> HIDE DEF R
    <2> QED BY <1>1, WFMin
  <1>3. \A y \in T : ~(y < x)
    BY <1>2
  <1> QED BY <1>3

\* A nonempty set of rows has an oldest and a youngest one.
LEMMA Extremes ==
  ASSUME NEW D, IsFiniteSet(D), NEW b, Ordered(D, b),
         NEW S, S \subseteq D, S # {}
  PROVE  /\ \E lo \in S : \A r \in S \ {lo} : lo \in b[r]
         /\ \E hi \in S : \A r \in S \ {hi} : r \in b[hi]
  <1> DEFINE size(r) == Cardinality(b[r] \cap S)
             n == Cardinality(S)
  <1>1. IsFiniteSet(S) /\ n \in Nat
    BY FS_Subset, FS_CardinalityType
  <1>2. ASSUME NEW r \in S PROVE size(r) \in Nat /\ size(r) <= n
    <2>1. b[r] \cap S \in SUBSET S
      OBVIOUS
    <2> QED BY <1>1, <2>1, FS_Subset, FS_CardinalityType
  <1>3. ASSUME NEW r \in S, NEW q \in S, q \in b[r] PROVE size(q) < size(r)
    BY <1>3, FewerBefore
  <1>4. \A r \in S : \A q \in S \ {r} : q \in b[r] \/ r \in b[q]
    BY DEF Ordered
  <1> HIDE DEF size, n
  <1>5. \E lo \in S : \A r \in S : size(lo) <= size(r)
    <2> DEFINE T == {size(r) : r \in S}
    <2>1. T \subseteq Nat /\ T # {}
      BY <1>2
    <2>2. PICK x \in T : \A y \in T : x <= y
      <3> HIDE DEF T
      <3> QED BY <2>1, Least
    <2> QED BY <2>2
  <1>6. \E hi \in S : \A r \in S : size(r) <= size(hi)
    <2> DEFINE T == {n - size(r) : r \in S}
    <2>1. T \subseteq Nat /\ T # {}
      BY <1>1, <1>2
    <2>2. PICK x \in T : \A y \in T : x <= y
      <3> HIDE DEF T
      <3> QED BY <2>1, Least
    <2>3. PICK hi \in S : x = n - size(hi)
      OBVIOUS
    <2>4. ASSUME NEW r \in S PROVE size(r) <= size(hi)
      <3>1. n - size(hi) <= n - size(r)
        BY <2>2, <2>3
      <3> QED BY <1>1, <1>2, <3>1
    <2> QED BY <2>4
  <1>7. \E lo \in S : \A r \in S \ {lo} : lo \in b[r]
    <2>1. PICK lo \in S : \A r \in S : size(lo) <= size(r)
      BY <1>5
    <2>2. ASSUME NEW r \in S \ {lo} PROVE lo \in b[r]
      <3>1. r \in b[lo] => size(r) < size(lo)
        BY <1>3
      <3>2. size(lo) <= size(r) /\ size(lo) \in Nat /\ size(r) \in Nat
        BY <1>2, <2>1
      <3> QED BY <1>4, <3>1, <3>2
    <2> QED BY <2>2
  <1>8. \E hi \in S : \A r \in S \ {hi} : r \in b[hi]
    <2>1. PICK hi \in S : \A r \in S : size(r) <= size(hi)
      BY <1>6
    <2>2. ASSUME NEW r \in S \ {hi} PROVE r \in b[hi]
      <3>1. hi \in b[r] => size(hi) < size(r)
        BY <1>3
      <3>2. size(r) <= size(hi) /\ size(hi) \in Nat /\ size(r) \in Nat
        BY <1>2, <2>1
      <3> QED BY <1>4, <3>1, <3>2
    <2> QED BY <2>2
  <1> QED BY <1>7, <1>8

\* Only the claim changes the order, which no other write of a row touches.
LEMMA BeforeUnchanged ==
  ASSUME TypeInv, [Next]_vars, ~AssignAndEnqueue
  PROVE  Before' = Before
  <1> USE DEF TypeInv
  <1>1. ASSUME Outbox PROVE Before' = Before
    <2>1. \A r \in batch : r \in DOMAIN outbox
      BY DEF BatchOK, PendingRows
    <2>2. \A r \in DOMAIN outbox : outbox[r] \in RowState
      BY DEF TypeOK
    <2>3. ASSUME NEW r \in batch,
                 PublishRow(r) \/ RejectRow(r) \/ ConfirmLost(r)
          PROVE  Before' = Before
      <3>1. \/ outbox' = [outbox EXCEPT ![r].copies = @ + 1]
            \/ outbox' = [outbox EXCEPT ![r].rejects = @ + 1]
        BY <2>3 DEF PublishRow, RejectRow, ConfirmLost
      <3>2. CASE outbox' = [outbox EXCEPT ![r].copies = @ + 1]
        <4>1. outbox'[r].before = outbox[r].before
          BY <2>1, <2>2, <3>2 DEF RowState
        <4>2. \A x \in DOMAIN outbox : outbox'[x].before = outbox[x].before
          BY <3>2, <4>1
        <4> QED BY <3>2, <4>2 DEF Before
      <3>3. CASE outbox' = [outbox EXCEPT ![r].rejects = @ + 1]
        <4>1. outbox'[r].before = outbox[r].before
          BY <2>1, <2>2, <3>3 DEF RowState
        <4>2. \A x \in DOMAIN outbox : outbox'[x].before = outbox[x].before
          BY <3>3, <4>1
        <4> QED BY <3>3, <4>2 DEF Before
      <3> QED BY <3>1, <3>2, <3>3
    <2>4. ASSUME MarkProcessed PROVE Before' = Before
      <3>1. outbox' = [r \in DOMAIN outbox |->
                        IF r \in published
                        THEN [outbox[r] EXCEPT !.status = "processed"]
                        ELSE outbox[r]]
        BY <2>4 DEF MarkProcessed
      <3>2. \A x \in DOMAIN outbox : outbox'[x].before = outbox[x].before
        BY <2>2, <3>1 DEF RowState
      <3> QED BY <3>1, <3>2 DEF Before
    <2>5. ASSUME FetchBatch \/ MarkFails \/ \E r \in batch : SkipRow(r)
          PROVE  Before' = Before
      BY <2>5 DEF FetchBatch, MarkFails, SkipRow, dbVars, Before
    <2> QED BY <1>1, <2>3, <2>4, <2>5 DEF Outbox
  <1>2. ASSUME UNCHANGED outbox PROVE Before' = Before
    BY <1>2 DEF Before
  <1>3. Doser => UNCHANGED outbox
    BY DEF Doser, SelectTarget, AssignRefused, DeferRetries, dbVars
  <1>4. Worker => UNCHANGED outbox
    BY DEF Worker, WorkerSend, RecipientReport, dbVars
  <1>5. Consumer => UNCHANGED outbox
    BY DEF Consumer, TakeResult, ApplyResult, ApplyReply, RegisterReply,
           AckResult, AckAndHang, ResultRedelivered, RunExits, dbVars
  <1>6. Http => UNCHANGED outbox
    BY DEF Http, WorkerCallback, CallbackLost, RepliesWebhook, RegisterReply,
           UnsubscribedElsewhere, dbVars
  <1>7. (\E t \in Target : RetryDue(t)) \/ ChannelCloses \/ Crash
           \/ UNCHANGED vars
          => UNCHANGED outbox
    BY DEF RetryDue, ChannelCloses, Crash, vars, dbVars
  <1> QED BY <1>1, <1>2, <1>3, <1>4, <1>5, <1>6, <1>7 DEF Next

\* A new row comes last.
LEMMA OrderStep ==
  ASSUME TypeInv, RowPerAttempt, OrderInv, [Next]_vars
  PROVE  OrderInv'
  <1>1. CASE AssignAndEnqueue
    <2> DEFINE row == NewRow(selected)
               D == DOMAIN outbox
    <2>1. selected \in Target /\ row \in Row
      BY <1>1, NullAssumption DEF AssignAndEnqueue, TypeInv, TypeOK, NewRow, Row
    <2>2. row \notin D
      <3>1. attempt[selected] \in Nat
        BY <2>1 DEF TypeInv, TypeOK
      <3>2. row.attempt = attempt[selected] + 1 /\ row.target = selected
        BY DEF NewRow
      <3> QED BY <3>1, <3>2 DEF RowPerAttempt
    <2>3. outbox' = [r \in D \cup {row} |->
                       IF r = row
                       THEN [status |-> "pending", before |-> D,
                             copies |-> 0, rejects |-> 0]
                       ELSE outbox[r]]
      BY <1>1 DEF AssignAndEnqueue
    <2> HIDE DEF row
    <2>4. /\ DOMAIN outbox' = D \cup {row}
          /\ Before'[row] = D
          /\ \A r \in D : Before'[r] = Before[r]
      BY <2>2, <2>3 DEF Before
    <2>5. IsFiniteSet(D) /\ Ordered(D, Before)
      BY DEF OrderInv
    <2>6. IsFiniteSet(D \cup {row})
      BY <2>5, FS_AddElement
    <2>7. \A r \in D : Before[r] \subseteq D
      BY <2>5 DEF Ordered
    <2> HIDE DEF D
    <2>8. Ordered(D \cup {row}, Before')
      BY <2>2, <2>4, <2>5, <2>7 DEF Ordered
    <2> QED BY <2>4, <2>6, <2>8 DEF OrderInv
  <1>2. CASE ~AssignAndEnqueue
    <2>1. Before' = Before /\ DOMAIN outbox' = DOMAIN outbox
      BY <1>2, BeforeUnchanged, RowsUnchanged
    <2> QED BY <2>1 DEF OrderInv
  <1> QED BY <1>1, <1>2

LEMMA OrderInvariant == Spec => []OrderInv
  <1>1. Init => OrderInv
    BY FS_EmptySet DEF Init, OrderInv, Ordered
  <1>2. TypeInv /\ RowPerAttempt /\ OrderInv /\ [Next]_vars => OrderInv'
    BY OrderStep
  <1> QED BY <1>1, <1>2, TypeInvariant, RowPerAttemptHolds, PTL DEF Spec

\* The rows a tick fetches.
LEMMA OldestPrefix ==
  ASSUME TypeInv, OrderInv
  PROVE  OldestServed
  <1> DEFINE D == DOMAIN outbox
             b == Before
             P == PendingRows
             size(r) == Cardinality(b[r] \cap P)
  <1>1. P \subseteq D /\ IsFiniteSet(D) /\ Ordered(D, b)
    BY DEF PendingRows, OrderInv
  <1>2. \A r \in D : b[r] = outbox[r].before
    BY DEF Before
  <1>3. Oldest = {r \in P : size(r) < BatchLimit}
    BY <1>1, <1>2 DEF Oldest
  <1>4. \A r \in D : b[r] \subseteq D
    BY <1>1 DEF Ordered
  <1> HIDE DEF D, b, P
  <1>5. ASSUME NEW r \in D PROVE IsFiniteSet(b[r] \cap P) /\ size(r) \in Nat
    <2>1. b[r] \cap P \in SUBSET D
      BY <1>4
    <2> QED BY <1>1, <2>1, FS_Subset, FS_CardinalityType
  <1>6. ASSUME NEW r \in D, NEW q \in b[r] \cap P PROVE size(q) < size(r)
    BY <1>1, FewerBefore
  <1> HIDE DEF size
  <1>7. \A r \in Oldest : b[r] \cap P \subseteq Oldest
    <2> SUFFICES ASSUME NEW r \in Oldest, NEW q \in b[r] \cap P
                 PROVE  q \in Oldest
      OBVIOUS
    <2>1. r \in D /\ q \in D /\ q \in P
      BY <1>1, <1>3
    <2>2. size(q) < size(r) /\ size(r) < BatchLimit
      BY <1>3, <1>6, <2>1
    <2>3. size(q) \in Nat /\ size(r) \in Nat
      BY <1>5, <2>1
    <2>4. size(q) < BatchLimit
      BY <2>2, <2>3, BatchAssumption
    <2> QED BY <1>3, <2>1, <2>4
  <1>8. P # {} => \E r \in Oldest : \A q \in P \ {r} : r \in b[q]
    <2> SUFFICES ASSUME P # {}
                 PROVE  \E r \in Oldest : \A q \in P \ {r} : r \in b[q]
      OBVIOUS
    <2>1. PICK r \in P : \A q \in P \ {r} : r \in b[q]
      BY <1>1, Extremes
    <2>2. r \in D
      BY <1>1
    <2>3. ASSUME NEW q \in b[r] \cap P PROVE FALSE
      <3>1. q # r /\ r \in b[q]
        BY <1>1, <2>1, <2>2 DEF Ordered
      <3>2. q \in D /\ b[q] \subseteq b[r]
        BY <1>1, <2>2 DEF Ordered
      <3> QED BY <1>1, <2>2, <3>1, <3>2 DEF Ordered
    <2>4. size(r) = 0
      <3>1. b[r] \cap P = {}
        BY <2>3
      <3> QED BY <3>1, FS_EmptySet DEF size
    <2>5. r \in Oldest
      BY <1>3, <2>4, BatchAssumption
    <2> QED BY <2>1, <2>5
  <1>9. IsFiniteSet(Oldest) /\ Cardinality(Oldest) <= BatchLimit
    <2>1. CASE Oldest = {}
      BY <2>1, FS_EmptySet, BatchAssumption
    <2>2. CASE Oldest # {}
      <3>1. Oldest \subseteq D
        BY <1>1, <1>3
      <3>2. PICK hi \in Oldest : \A r \in Oldest \ {hi} : r \in b[hi]
        BY <1>1, <2>2, <3>1, Extremes
      <3>3. hi \in D /\ size(hi) < BatchLimit
        BY <1>3, <3>1
      <3>4. Oldest \in SUBSET ((b[hi] \cap P) \cup {hi})
        BY <1>3, <3>2
      <3>5. /\ IsFiniteSet((b[hi] \cap P) \cup {hi})
            /\ Cardinality((b[hi] \cap P) \cup {hi}) <= size(hi) + 1
        <4>1. IsFiniteSet(b[hi] \cap P) /\ size(hi) \in Nat
          BY <1>5, <3>3
        <4>2. /\ IsFiniteSet((b[hi] \cap P) \cup {hi})
              /\ Cardinality((b[hi] \cap P) \cup {hi})
                   \in {Cardinality(b[hi] \cap P), Cardinality(b[hi] \cap P) + 1}
          BY <4>1, FS_AddElement
        <4>3. Cardinality((b[hi] \cap P) \cup {hi}) \in {size(hi), size(hi) + 1}
          BY <4>2 DEF size
        <4> QED BY <4>1, <4>2, <4>3
      <3>6. /\ IsFiniteSet(Oldest)
            /\ Cardinality(Oldest) <= Cardinality((b[hi] \cap P) \cup {hi})
        BY <3>4, <3>5, FS_Subset
      <3>7. /\ Cardinality(Oldest) \in Nat /\ size(hi) \in Nat
            /\ Cardinality((b[hi] \cap P) \cup {hi}) \in Nat
        BY <1>5, <3>3, <3>5, <3>6, FS_CardinalityType
      <3> QED BY <3>3, <3>5, <3>6, <3>7, BatchAssumption
    <2> QED BY <2>1, <2>2
  <1>10. \A r \in Oldest : outbox[r].before \cap P \subseteq Oldest
    BY <1>1, <1>2, <1>3, <1>7
  <1>11. P # {} =>
           \E r \in Oldest : \A q \in P \ {r} : r \in outbox[q].before
    BY <1>1, <1>2, <1>8
  <1> QED BY <1>9, <1>10, <1>11 DEF OldestServed, P

\* A tick fetches the oldest pending rows, BatchLimit at most, and passes over
\* none of them: a row is delayed only by rows that were enqueued before it.
THEOREM OldestServedHolds == Spec => []OldestServed
  <1>1. TypeInv /\ OrderInv => OldestServed
    BY OldestPrefix
  <1> QED BY <1>1, TypeInvariant, OrderInvariant, PTL

-----------------------------------------------------------------------------
(* The retry budget.  A target that was dosed is set back to an open status *)
(* by ApplyRetryableFailure while its budget lasts, and by two writes that *)
(* do not look at the budget: a result that says "pending", and a callback *)
(* that says "pending" or "retry_pending" and is not deferred to the       *)
(* consumer, because its code is missing or unknown.                       *)

ReopenedBy(t) ==
  \/ ApplyResult /\ hand.target = t /\ hand.status = "pending"
  \/ \E c \in callbacks :
       /\ WorkerCallback(c) /\ c.target = t
       /\ c.status \in Open /\ ~CallbackDeferred(c)

Reopens == \E t \in Target : ReopenedBy(t)

\* What any other step may do to the statuses and the attempts of the targets.
ClaimOf(t) ==
  /\ Eligible(t)
  /\ status' = [status EXCEPT ![t] = "pending"]
  /\ attempt' = [attempt EXCEPT ![t] = @ + 1]

WriteOf(t, new) ==
  /\ attempt' = attempt
  /\ status' = [status EXCEPT ![t] = new]
  /\ \/ new = status[t]
     \/ new \notin Open
     \/ /\ status[t] = "pending" /\ new = "retry_pending"
        /\ 0 < attempt[t] /\ attempt[t] < MaxRetryAttempts

StatusStep ==
  \/ UNCHANGED <<status, attempt>>
  \/ \E t \in Target : ClaimOf(t)
  \/ \E t \in Target, new \in TaskStatus : WriteOf(t, new)

\* Whoever can send or report something was dosed.
DosedInv ==
  /\ \A m \in sendQueue : attempt[m.target] > 0
  /\ \A r \in results : attempt[r.target] > 0
  /\ \A c \in callbacks : attempt[c.target] > 0
  /\ \A t \in reached : attempt[t] > 0
  /\ hand # NoResult => attempt[hand.target] > 0

\* A message or a report names the target of what it was made from.
LEMMA TargetKept ==
  ASSUME NEW m, NEW o
  PROVE  ReportOf(m, o).target = m.target /\ NextMessage(m).target = m.target
  BY DEF ReportOf, NextMessage

\* A row of the outbox belongs to a target that was dosed.
LEMMA RowDosed ==
  ASSUME TypeInv, RowPerAttempt, NEW r \in batch
  PROVE  r.target \in Target /\ attempt[r.target] > 0
  <1>1. r \in DOMAIN outbox
    BY DEF TypeInv, BatchOK, PendingRows
  <1>2. r.target \in Target /\ attempt[r.target] \in Nat
    BY <1>1 DEF TypeInv, TypeOK, Row
  <1>3. r.attempt \in 1..attempt[r.target]
    BY <1>1 DEF RowPerAttempt
  <1> QED BY <1>2, <1>3

\* Attempts are never taken back, and what is sent or reported comes from a
\* row of the outbox or from a recipient who was reached.
LEMMA DosedStep ==
  ASSUME TypeInv, RowPerAttempt, DosedInv, [Next]_vars
  PROVE  DosedInv'
  <1> USE DEF TypeInv
  <1>1. CASE AssignAndEnqueue
    <2>1. \A t \in Target :
            attempt[t] \in Nat /\ attempt'[t] \in {attempt[t], attempt[t] + 1}
      BY <1>1 DEF AssignAndEnqueue, TypeOK
    <2>2. UNCHANGED <<sendQueue, results, callbacks, reached, hand>>
      BY <1>1 DEF AssignAndEnqueue, brokerVars, consVars
    <2>3. /\ \A m \in sendQueue : m.target \in Target
          /\ \A r \in results : r.target \in Target
          /\ \A c \in callbacks : c.target \in Target
          /\ \A t \in reached : t \in Target
          /\ hand # NoResult => hand.target \in Target
      BY DEF TypeOK, Message, Result
    <2>4. ASSUME NEW t \in Target, attempt[t] > 0 PROVE attempt'[t] > 0
      <3>1. attempt[t] \in Nat /\ attempt'[t] \in {attempt[t], attempt[t] + 1}
        BY <2>1
      <3> QED BY <2>4, <3>1
    <2> QED BY <2>2, <2>3, <2>4 DEF DosedInv
  <1>2. CASE ~AssignAndEnqueue
    <2>1. attempt' = attempt
      BY <1>2, RowsUnchanged
    <2>2. ASSUME UNCHANGED <<sendQueue, results, callbacks, reached, hand>>
          PROVE  DosedInv'
      BY <2>1, <2>2 DEF DosedInv
    <2>3. ASSUME NEW r \in batch,
                 PublishRow(r) \/ RejectRow(r) \/ ConfirmLost(r)
          PROVE  DosedInv'
      <3>1. attempt[r.target] > 0
        BY RowDosed
      <3>2. /\ NextMessage(r).target = r.target
            /\ ReportOf(NextMessage(r), BlockedOutcome).target = r.target
        BY TargetKept
      <3> QED BY <2>1, <2>3, <3>1, <3>2
              DEF PublishRow, RejectRow, ConfirmLost, DosedInv, consVars
    <2>4. ASSUME NEW m \in sendQueue, NEW o \in WorkerOutcome, WorkerSend(m, o)
          PROVE  DosedInv'
      BY <2>1, <2>4, TargetKept DEF WorkerSend, DosedInv, consVars
    <2>5. ASSUME NEW t \in reached, NEW s \in RecipientStatus,
                 RecipientReport(t, s)
          PROVE  DosedInv'
      <3> DEFINE m == [target |-> t, attempt |-> 0, copy |-> 0]
                 o == [status |-> s, code |-> ""]
      <3>1. m.target = t
        OBVIOUS
      <3> HIDE DEF m, o
      <3>2. ReportOf(m, o).target = t
        BY <3>1, TargetKept
      <3>3. results' = results \cup {ReportOf(m, o)}
        BY <2>5 DEF RecipientReport, m, o
      <3> QED BY <2>1, <2>5, <3>2, <3>3 DEF RecipientReport, DosedInv, consVars
    <2>6. ASSUME Consumer PROVE DosedInv'
      BY <2>1, <2>6 DEF Consumer, TakeResult, ApplyResult, ApplyReply, AckResult,
                        AckAndHang, Acked, ResultRedelivered, RunExits, DosedInv,
                        brokerVars
    <2>7. ASSUME Http PROVE DosedInv'
      BY <2>1, <2>7 DEF Http, WorkerCallback, CallbackLost, RepliesWebhook,
                        UnsubscribedElsewhere, DosedInv, consVars, brokerVars
    <2>8. ASSUME ChannelCloses \/ Crash PROVE DosedInv'
      BY <2>1, <2>8 DEF ChannelCloses, Crash, DosedInv, brokerVars
    <2>9. Doser => UNCHANGED <<sendQueue, results, callbacks, reached, hand>>
      BY <1>2 DEF Doser, SelectTarget, AssignRefused, DeferRetries, consVars,
                  brokerVars
    <2>10. ASSUME FetchBatch \/ MarkProcessed \/ MarkFails
                    \/ \E r \in batch : SkipRow(r)
           PROVE  UNCHANGED <<sendQueue, results, callbacks, reached, hand>>
      BY <2>10 DEF FetchBatch, MarkProcessed, MarkFails, SkipRow, consVars,
                   brokerVars
    <2>11. (\E t \in Target : RetryDue(t)) \/ UNCHANGED vars
             => UNCHANGED <<sendQueue, results, callbacks, reached, hand>>
      BY DEF RetryDue, vars, consVars, brokerVars
    <2> QED BY <2>2, <2>3, <2>4, <2>5, <2>6, <2>7, <2>8, <2>9, <2>10, <2>11
            DEF Next, Worker, Outbox
  <1> QED BY <1>1, <1>2

\* Every step of the program is a claim, a write of one status, neither, or one
\* of the two that reopen a target.
LEMMA StatusStepOrReopens ==
  ASSUME TypeInv, DosedInv, [Next]_vars
  PROVE  StatusStep \/ Reopens
  <1> USE DEF TypeInv
  <1>1. ASSUME UNCHANGED <<status, attempt>> PROVE StatusStep
    BY <1>1 DEF StatusStep
  <1>2. CASE AssignAndEnqueue
    BY <1>2 DEF AssignAndEnqueue, StatusStep, ClaimOf, TypeOK
  <1>3. CASE ApplyResult
    <2>1. /\ hand \in Result
          /\ status' = [status EXCEPT ![hand.target] =
                          StatusAfterResult(@, attempt[hand.target],
                                            MaxRetryAttempts, hand)]
          /\ attempt' = attempt
      BY <1>3, ApplyResultRow DEF ApplyResult
    <2>2. /\ hand.target \in Target
          /\ hand.status \in TaskStatus /\ hand.code \in ErrorCode
          /\ 0 < attempt[hand.target]
      BY <1>3, <2>1 DEF Result, ApplyResult, DosedInv
    <2>0. CASE hand.status = "pending"
      BY <1>3, <2>0, <2>2 DEF Reopens, ReopenedBy
    <2> SUFFICES ASSUME hand.status # "pending" PROVE StatusStep
      BY <2>0
    <2> DEFINE t == hand.target
               new == StatusAfterResult(status[t], attempt[t],
                                        MaxRetryAttempts, hand)
    <2>3. status[t] \in TaskStatus /\ attempt[t] \in Nat
      BY <2>2 DEF TypeOK
    <2>4. /\ new \in TaskStatus
          /\ \/ new = status[t]
             \/ new \notin Open
             \/ /\ status[t] = "pending" /\ new = "retry_pending"
                /\ attempt[t] < MaxRetryAttempts
      BY <2>2, <2>3, ResultStatus, MaxRetryAssumption
    <2>5. status' = [status EXCEPT ![t] = new]
      BY <2>1, <2>2 DEF TypeOK
    <2> HIDE DEF new
    <2>6. WriteOf(t, new)
      BY <2>1, <2>2, <2>4, <2>5 DEF WriteOf
    <2> QED BY <2>2, <2>4, <2>6 DEF StatusStep
  <1>4. ASSUME NEW c \in callbacks, WorkerCallback(c) PROVE StatusStep \/ Reopens
    <2>1. c.target \in Target /\ c.status \in TaskStatus
      BY DEF TypeOK, Result
    <2>0. CASE c.status \in Open /\ ~CallbackDeferred(c)
      BY <1>4, <2>0, <2>1 DEF Reopens, ReopenedBy
    <2> SUFFICES ASSUME c.status \in Open => CallbackDeferred(c) PROVE StatusStep
      BY <2>0
    <2> DEFINE new == StatusAfterCallback(status[c.target], c)
    <2>3. new \in TaskStatus /\ (new \in Open => new = status[c.target])
      BY <2>1, CallbackStatus DEF TypeOK
    <2>4. attempt' = attempt /\ status' = [status EXCEPT ![c.target] = new]
      BY <1>4, <2>1 DEF WorkerCallback, TypeOK
    <2> HIDE DEF new
    <2>5. WriteOf(c.target, new)
      BY <2>3, <2>4 DEF WriteOf
    <2> QED BY <2>1, <2>3, <2>5 DEF StatusStep
  <1>5. ASSUME NEW u \in Target, RegisterReply(u) PROVE StatusStep
    <2>1. WriteOf(u, "replied") /\ "replied" \in TaskStatus
      BY <1>5 DEF RegisterReply, WriteOf, Open, TaskStatus
    <2> QED BY <2>1 DEF StatusStep
  <1>6. CASE ApplyReply
    BY <1>5, <1>6 DEF ApplyReply, TypeOK, Result
  <1>7. ASSUME NEW u \in reached, RepliesWebhook(u) PROVE StatusStep
    BY <1>5, <1>7 DEF RepliesWebhook, TypeOK
  <1>8. ASSUME Doser, ~AssignAndEnqueue PROVE UNCHANGED <<status, attempt>>
    BY <1>8 DEF Doser, SelectTarget, AssignRefused, DeferRetries, dbVars
  <1>9. Outbox => UNCHANGED <<status, attempt>>
    BY DEF Outbox, FetchBatch, PublishRow, RejectRow, SkipRow, ConfirmLost,
           MarkProcessed, MarkFails, dbVars
  <1>10. Worker => UNCHANGED <<status, attempt>>
    BY DEF Worker, WorkerSend, RecipientReport, dbVars
  <1>11. ASSUME Consumer, ~ApplyResult, ~ApplyReply
         PROVE  UNCHANGED <<status, attempt>>
    BY <1>11 DEF Consumer, TakeResult, AckResult, AckAndHang, ResultRedelivered,
                 RunExits, dbVars
  <1>12. ASSUME Http, \A c \in callbacks : ~WorkerCallback(c),
                \A u \in reached : ~RepliesWebhook(u)
         PROVE  UNCHANGED <<status, attempt>>
    BY <1>12 DEF Http, CallbackLost, UnsubscribedElsewhere, dbVars
  <1>13. (\E u \in Target : RetryDue(u)) \/ ChannelCloses \/ Crash
            \/ UNCHANGED vars
           => UNCHANGED <<status, attempt>>
    BY DEF RetryDue, ChannelCloses, Crash, vars, dbVars
  <1> HIDE DEF TypeInv
  <1> QED BY <1>1, <1>2, <1>3, <1>4, <1>6, <1>7, <1>8, <1>9, <1>10, <1>11,
             <1>12, <1>13 DEF Next

\* Who was dosed before anything was sent or reported of him.
LEMMA DosedInvariant == Spec => []DosedInv
  <1>1. Init => DosedInv
    BY DEF Init, DosedInv
  <1>2. TypeInv /\ RowPerAttempt /\ DosedInv /\ [Next]_vars => DosedInv'
    BY DosedStep
  <1> QED BY <1>1, <1>2, TypeInvariant, RowPerAttemptHolds, PTL DEF Spec

\* One target is written by a step that reopens one.
LEMMA ReopenedRow ==
  ASSUME TypeInv, NEW u \in Target, ReopenedBy(u), NEW t \in Target, t # u
  PROVE  status'[t] = status[t] /\ attempt'[t] = attempt[t]
  <1>1. CASE ApplyResult /\ hand.target = u
    BY <1>1, ApplyResultRow DEF ApplyResult, TypeInv, TypeOK
  <1>2. ASSUME NEW c \in callbacks, WorkerCallback(c), c.target = u
        PROVE  status'[t] = status[t] /\ attempt'[t] = attempt[t]
    BY <1>2 DEF WorkerCallback, TypeInv, TypeOK
  <1> QED BY <1>1, <1>2 DEF ReopenedBy

\* A target is left alone, claimed while it is eligible, closed, or granted a
\* retry while its budget lasts.
WithinBudget(t) ==
  \/ status'[t] = status[t] /\ attempt'[t] = attempt[t]
  \/ Eligible(t) /\ status'[t] = "pending" /\ attempt'[t] = attempt[t] + 1
  \/ status'[t] \notin Open /\ attempt'[t] = attempt[t]
  \/ /\ status[t] = "pending" /\ status'[t] = "retry_pending"
     /\ attempt'[t] = attempt[t] /\ attempt[t] \in 1..MaxRetryAttempts - 1

\* Whatever the workers report, the two writes that look at nothing are the only
\* others that change a target.
ReopenedByReport == [][\A t \in Target : WithinBudget(t) \/ ReopenedBy(t)]_vars

\* Each step does no more than that to a target.
LEMMA ReopenedStep ==
  ASSUME TypeInv, DosedInv, [Next]_vars, NEW t \in Target
  PROVE  WithinBudget(t) \/ ReopenedBy(t)
  <1>0. /\ status \in [Target -> TaskStatus] /\ attempt \in [Target -> Nat]
        /\ MaxRetryAttempts \in Nat \ {0}
    BY MaxRetryAssumption DEF TypeInv, TypeOK
  <1>1. ASSUME UNCHANGED <<status, attempt>> PROVE WithinBudget(t)
    BY <1>1 DEF WithinBudget
  <1>2. ASSUME NEW u \in Target, ClaimOf(u) PROVE WithinBudget(t)
    BY <1>0, <1>2 DEF ClaimOf, WithinBudget
  <1>3. ASSUME NEW u \in Target, NEW new \in TaskStatus, WriteOf(u, new)
        PROVE  WithinBudget(t)
    BY <1>0, <1>3 DEF WriteOf, WithinBudget
  <1>4. ASSUME NEW u \in Target, ReopenedBy(u)
        PROVE  WithinBudget(t) \/ ReopenedBy(t)
    BY <1>4, ReopenedRow DEF WithinBudget
  <1> QED BY <1>1, <1>2, <1>3, <1>4, StatusStepOrReopens DEF StatusStep, Reopens

\* Without any assumption on the reports, the budget is passed by the result
\* or the callback that names an open status itself, and by nothing else.
THEOREM ReopenedByReportHolds == Spec => ReopenedByReport
  <1>1. TypeInv /\ DosedInv /\ [Next]_vars
          => [\A t \in Target : WithinBudget(t) \/ ReopenedBy(t)]_vars
    BY ReopenedStep
  <1> QED BY <1>1, TypeInvariant, DosedInvariant, PTL DEF Spec, ReopenedByReport

\* Where nothing reopens a target, every step is a claim, a write, or neither.
LEMMA StatusStepHolds ==
  ASSUME TypeInv, DosedInv, [Next]_vars, [~Reopens]_vars
  PROVE  StatusStep
  <1>1. CASE ~Reopens
    BY <1>1, StatusStepOrReopens
  <1>2. CASE UNCHANGED vars
    BY <1>2 DEF vars, dbVars, StatusStep
  <1> QED BY <1>1, <1>2

BudgetInv == TypeInv /\ RowPerAttempt /\ DosedInv /\ AttemptBound

\* Every step that reopens no target keeps the retry budget.
LEMMA BudgetStep ==
  ASSUME BudgetInv, [Next]_vars, [~Reopens]_vars
  PROVE  BudgetInv'
  <1> USE DEF BudgetInv
  <1>1. ASSUME NEW t \in Target
        PROVE  /\ attempt'[t] <= MaxRetryAttempts
               /\ status'[t] = "retry_pending" => attempt'[t] < MaxRetryAttempts
    <2> DEFINE Bounded ==
                 /\ attempt'[t] <= MaxRetryAttempts
                 /\ status'[t] = "retry_pending" => attempt'[t] < MaxRetryAttempts
    <2>1. /\ status \in [Target -> TaskStatus] /\ attempt \in [Target -> Nat]
          /\ MaxRetryAttempts \in Nat \ {0}
          /\ attempt[t] <= MaxRetryAttempts
          /\ status[t] = "retry_pending" => attempt[t] < MaxRetryAttempts
      BY MaxRetryAssumption DEF AttemptBound, TypeInv, TypeOK
    <2>2. ASSUME UNCHANGED <<status, attempt>> PROVE Bounded
      BY <2>1, <2>2
    <2>3. ASSUME NEW u \in Target, ClaimOf(u) PROVE Bounded
      BY <2>1, <2>3 DEF ClaimOf, Eligible
    <2>4. ASSUME NEW u \in Target, NEW new \in TaskStatus, WriteOf(u, new)
          PROVE  Bounded
      BY <2>1, <2>4 DEF WriteOf, Open
    <2> QED BY <2>2, <2>3, <2>4, StatusStepHolds DEF StatusStep
  <1>2. AttemptBound'
    BY <1>1 DEF AttemptBound
  <1> QED BY <1>2, TypeStep, DosedStep, RowPerAttemptStep

\* The inductive invariant of the retry budget holds throughout.
LEMMA BudgetInvariant == Spec /\ [][~Reopens]_vars => []BudgetInv
  <1>1. Init => BudgetInv
    <2> SUFFICES ASSUME Init PROVE BudgetInv
      OBVIOUS
    <2>1. DosedInv
      BY DEF Init, DosedInv
    <2>2. AttemptBound
      BY MaxRetryAssumption DEF Init, AttemptBound
    <2>3. RowPerAttempt
      BY DEF Init, RowPerAttempt
    <2> QED BY <2>1, <2>2, <2>3, TypeInit DEF BudgetInv
  <1>2. BudgetInv /\ [Next]_vars /\ [~Reopens]_vars => BudgetInv'
    BY BudgetStep
  <1> QED BY <1>1, <1>2, PTL DEF Spec

\* No interleaving of redelivered results, late callbacks and crashes doses
\* a target more than MaxRetryAttempts times, unless a report reopens it.
THEOREM AttemptBoundHolds == Spec /\ [][~Reopens]_vars => []AttemptBound
  <1>1. BudgetInv => AttemptBound
    BY DEF BudgetInv
  <1> QED BY <1>1, BudgetInvariant, PTL

-----------------------------------------------------------------------------
(* The pipeline implements TargetLifecycle.                                *)

PhaseMap == [t \in Target |-> Phase(status[t], attempt[t])]

\* Writing one status, or one attempt, moves the phase of that target only.
LEMMA PhaseUpdate ==
  ASSUME TypeOK, NEW t \in Target, NEW new, NEW n,
         status' = [status EXCEPT ![t] = new],
         attempt' = [attempt EXCEPT ![t] = n]
  PROVE  PhaseMap' = [PhaseMap EXCEPT ![t] = Phase(new, n)]
  BY DEF PhaseMap, TypeOK

\* The initial states correspond.
LEMMA LifecycleInit == Init => Lifecycle!Init
  <1> SUFFICES ASSUME Init PROVE Lifecycle!Init
    OBVIOUS
  <1>1. DOMAIN outbox = {}
    BY DEF Init
  <1>2. [t \in Target |-> Phase(status[t], attempt[t])]
          = [t \in Target |-> "waiting"]
    BY DEF Init, Phase
  <1> QED BY <1>1, <1>2 DEF Init, Lifecycle!Init

\* A claim is a dose: nothing recorded is in flight, the budget lasts, and the
\* row is the one of the new attempt.
LEMMA ClaimIsDose ==
  ASSUME BudgetInv, AssignAndEnqueue
  PROVE  Lifecycle!Dose(selected)
  <1> DEFINE t == selected
  <1>1. t \in Target /\ Eligible(t)
    BY DEF AssignAndEnqueue, BudgetInv, TypeInv, TypeOK
  <1>2. attempt[t] \in Nat /\ attempt[t] < MaxRetryAttempts
    BY <1>1, MaxRetryAssumption
       DEF Eligible, BudgetInv, TypeInv, TypeOK, AttemptBound
  <1>3. PhaseMap[t] \in {"waiting", "retry"}
    BY <1>1 DEF PhaseMap, Phase, Eligible
  <1>4. /\ status' = [status EXCEPT ![t] = "pending"]
        /\ attempt' = [attempt EXCEPT ![t] = attempt[t] + 1]
        /\ DOMAIN outbox' = DOMAIN outbox \cup {NewRow(t)}
    BY DEF AssignAndEnqueue
  <1>5. Phase("pending", attempt[t] + 1) = "in_flight"
    BY <1>2 DEF Phase
  <1>6. PhaseMap' = [PhaseMap EXCEPT ![t] = "in_flight"]
    <2>1. TypeOK
      BY DEF BudgetInv, TypeInv
    <2>2. PhaseMap' = [PhaseMap EXCEPT ![t] = Phase("pending", attempt[t] + 1)]
      BY <1>1, <1>4, <2>1, PhaseUpdate
    <2> QED BY <1>5, <2>2
  <1> QED BY <1>2, <1>3, <1>4, <1>6 DEF Lifecycle!Dose, PhaseMap, NewRow

\* The write of a status is a retry that is granted, a close, or nothing.
LEMMA WriteIsRetryOrClose ==
  ASSUME BudgetInv, NEW t \in Target, NEW new \in TaskStatus, WriteOf(t, new),
         DOMAIN outbox' = DOMAIN outbox
  PROVE  \/ Lifecycle!GrantRetry(t)
         \/ Lifecycle!Close(t)
         \/ UNCHANGED <<PhaseMap, attempt, DOMAIN outbox>>
  <1>1. status \in [Target -> TaskStatus] /\ attempt \in [Target -> Nat]
    BY DEF BudgetInv, TypeInv, TypeOK
  <1>2. /\ status' = [status EXCEPT ![t] = new]
        /\ attempt' = attempt
        /\ attempt' = [attempt EXCEPT ![t] = attempt[t]]
    BY <1>1 DEF WriteOf
  <1>3. PhaseMap' = [PhaseMap EXCEPT ![t] = Phase(new, attempt[t])]
    <2>1. TypeOK
      BY DEF BudgetInv, TypeInv
    <2>2. status' = [status EXCEPT ![t] = new]
      BY <1>2
    <2>3. attempt' = [attempt EXCEPT ![t] = attempt[t]]
      BY <1>2
    <2> QED BY <2>1, <2>2, <2>3, PhaseUpdate
  <1>4. CASE new = status[t]
    <2>1. status' = status
      BY <1>1, <1>2, <1>4
    <2> QED BY <1>2, <2>1 DEF PhaseMap
  <1>5. CASE new \notin Open
    <2>1. Phase(new, attempt[t]) = "closed"
      BY <1>5 DEF Phase, Open
    <2> QED BY <1>2, <1>3, <2>1 DEF Lifecycle!Close, PhaseMap
  <1>6. CASE /\ status[t] = "pending" /\ new = "retry_pending"
             /\ 0 < attempt[t] /\ attempt[t] < MaxRetryAttempts
    <2>1. PhaseMap[t] = "in_flight" /\ Phase(new, attempt[t]) = "retry"
      BY <1>1, <1>6 DEF PhaseMap, Phase
    <2> QED BY <1>2, <1>3, <1>6, <2>1 DEF Lifecycle!GrantRetry, PhaseMap
  <1> QED BY <1>4, <1>5, <1>6 DEF WriteOf

\* Every step of the pipeline is a step of the promise, or invisible to it.
LEMMA LifecycleStep ==
  ASSUME BudgetInv, [Next]_vars, [~Reopens]_vars
  PROVE  [Lifecycle!Next]_(Lifecycle!vars)
  <1>1. CASE AssignAndEnqueue
    <2>1. selected \in Target
      BY <1>1 DEF AssignAndEnqueue, BudgetInv, TypeInv, TypeOK
    <2> QED BY <1>1, <2>1, ClaimIsDose DEF Lifecycle!Next
  <1>2. CASE ~AssignAndEnqueue
    <2>1. attempt' = attempt /\ DOMAIN outbox' = DOMAIN outbox
      BY <1>2, RowsUnchanged DEF BudgetInv
    <2>2. StatusStep
      BY StatusStepHolds DEF BudgetInv
    <2>3. ASSUME UNCHANGED <<status, attempt>> PROVE UNCHANGED Lifecycle!vars
      BY <2>1, <2>3 DEF Lifecycle!vars
    <2>4. ASSUME NEW t \in Target PROVE ~ClaimOf(t)
      BY <2>1 DEF ClaimOf, BudgetInv, TypeInv, TypeOK
    <2>5. ASSUME NEW t \in Target, NEW new \in TaskStatus, WriteOf(t, new)
          PROVE  [Lifecycle!Next]_(Lifecycle!vars)
      <3>1. CASE Lifecycle!GrantRetry(t) \/ Lifecycle!Close(t)
        BY <3>1 DEF Lifecycle!Next
      <3>2. CASE UNCHANGED <<PhaseMap, attempt, DOMAIN outbox>>
        BY <3>2 DEF Lifecycle!vars, PhaseMap
      <3> QED BY <2>1, <2>5, <3>1, <3>2, WriteIsRetryOrClose
    <2> QED BY <2>2, <2>3, <2>4, <2>5 DEF StatusStep
  <1> QED BY <1>1, <1>2

\* As long as no report reopens a target, the pipeline implements
\* TargetLifecycle: each target is dosed within its budget, never beside a
\* recorded attempt, with one outbox row per dose, and never after it was closed.
THEOREM ImplementsLifecycleHolds ==
  Spec /\ [][~Reopens]_vars => ImplementsLifecycle
  <1>1. BudgetInv /\ [Next]_vars /\ [~Reopens]_vars
           => [Lifecycle!Next]_(Lifecycle!vars)
    BY LifecycleStep
  <1> QED BY <1>1, LifecycleInit, BudgetInvariant, PTL
          DEF Spec, ImplementsLifecycle, Lifecycle!Spec

-----------------------------------------------------------------------------
(* What the workers must not do for that: report "pending", or post an     *)
(* open status to the callback with a code that the handler does not defer. *)

NeverReopens ==
  /\ \A o \in WorkerOutcome : o.status # "pending"
  /\ \A o \in CallbackOutcome : o.status \in Open => CallbackDeferred(o)

\* The same of every report on its way.
ReportsInv ==
  /\ \A r \in results : r.status # "pending"
  /\ hand # NoResult => hand.status # "pending"
  /\ \A c \in callbacks : c.status \in Open => CallbackDeferred(c)

\* A report has the status and is deferred like the outcome it carries.
LEMMA ReportCarries ==
  ASSUME NEW m, NEW o
  PROVE  /\ ReportOf(m, o).status = o.status
         /\ CallbackDeferred(ReportOf(m, o)) <=> CallbackDeferred(o)
  BY DEF ReportOf, CallbackDeferred, EffectiveCode

\* Every step keeps the restriction on the reports on their way.
LEMMA ReportsStep ==
  ASSUME NeverReopens, TypeInv, ReportsInv, [Next]_vars
  PROVE  ReportsInv'
  <1>1. ASSUME UNCHANGED <<results, hand, callbacks>> PROVE ReportsInv'
    BY <1>1 DEF ReportsInv
  <1>2. ASSUME NEW r \in batch, RejectRow(r) PROVE ReportsInv'
    <2>1. ReportOf(NextMessage(r), BlockedOutcome).status # "pending"
      BY ReportCarries DEF BlockedOutcome
    <2> QED BY <1>2, <2>1 DEF RejectRow, ReportsInv, consVars
  <1>3. ASSUME NEW m \in sendQueue, NEW o \in WorkerOutcome, WorkerSend(m, o)
        PROVE  ReportsInv'
    <2>1. ReportOf(m, o).status # "pending"
      BY ReportCarries DEF NeverReopens
    <2>2. o \in CallbackOutcome =>
            (ReportOf(m, o).status \in Open => CallbackDeferred(ReportOf(m, o)))
      BY ReportCarries DEF NeverReopens
    <2> QED BY <1>3, <2>1, <2>2 DEF WorkerSend, ReportsInv, consVars
  <1>4. ASSUME NEW t \in reached, NEW s \in RecipientStatus,
               RecipientReport(t, s)
        PROVE  ReportsInv'
    <2> DEFINE m == [target |-> t, attempt |-> 0, copy |-> 0]
               o == [status |-> s, code |-> ""]
    <2>1. o.status # "pending"
      BY OutcomeAssumption
    <2> HIDE DEF m, o
    <2>2. ReportOf(m, o).status # "pending"
      BY <2>1, ReportCarries
    <2>3. results' = results \cup {ReportOf(m, o)}
      BY <1>4 DEF RecipientReport, m, o
    <2> QED BY <1>4, <2>2, <2>3 DEF RecipientReport, ReportsInv, consVars
  <1>5. ASSUME Consumer PROVE ReportsInv'
    BY <1>5 DEF Consumer, TakeResult, ApplyResult, ApplyReply, AckResult,
                AckAndHang, Acked, ResultRedelivered, RunExits, ReportsInv,
                brokerVars
  <1>6. ASSUME Http PROVE ReportsInv'
    BY <1>6 DEF Http, WorkerCallback, CallbackLost, RepliesWebhook,
                UnsubscribedElsewhere, ReportsInv, consVars, brokerVars
  <1>7. ASSUME ChannelCloses \/ Crash PROVE ReportsInv'
    BY <1>7 DEF ChannelCloses, Crash, ReportsInv, brokerVars
  <1>8. Doser => UNCHANGED <<results, hand, callbacks>>
    BY DEF Doser, SelectTarget, AssignAndEnqueue, AssignRefused, DeferRetries,
           consVars, brokerVars
  <1>9. ASSUME Outbox, \A r \in batch : ~RejectRow(r)
        PROVE  UNCHANGED <<results, hand, callbacks>>
    BY <1>9 DEF Outbox, FetchBatch, PublishRow, SkipRow, ConfirmLost,
                MarkProcessed, MarkFails, consVars, brokerVars
  <1>10. (\E t \in Target : RetryDue(t)) \/ UNCHANGED vars
           => UNCHANGED <<results, hand, callbacks>>
    BY DEF RetryDue, vars, consVars, brokerVars
  <1> QED BY <1>1, <1>2, <1>3, <1>4, <1>5, <1>6, <1>7, <1>8, <1>9, <1>10
          DEF Next, Worker

\* The restriction holds of every report on its way.
LEMMA ReportsInvariant == NeverReopens => (Spec => []ReportsInv)
  <1> SUFFICES ASSUME NeverReopens PROVE Spec => []ReportsInv
    OBVIOUS
  <1>1. Init => ReportsInv
    BY DEF Init, ReportsInv
  <1>2. TypeInv /\ ReportsInv /\ [Next]_vars => ReportsInv'
    BY ReportsStep
  <1> QED BY <1>1, <1>2, TypeInvariant, PTL DEF Spec

\* With such workers no report ever reopens a target, so that both theorems
\* above hold of the specification itself: no failure, repetition or delay of a
\* report makes one that does.
THEOREM NeverReopensSuffices == NeverReopens => (Spec => [][~Reopens]_vars)
  <1> SUFFICES ASSUME NeverReopens PROVE Spec => [][~Reopens]_vars
    OBVIOUS
  <1>1. ReportsInv => ~Reopens
    BY DEF ReportsInv, Reopens, ReopenedBy, ApplyResult
  <1>2. ReportsInv /\ [Next]_vars => [~Reopens]_vars
    BY <1>1
  <1> QED BY <1>2, ReportsInvariant, PTL DEF Spec
=============================================================================
