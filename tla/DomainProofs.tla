---------------------------- MODULE DomainProofs ----------------------------
(***************************************************************************)
(* What the row-level rules of Domain can do to a status.  Every proof     *)
(* about a module that holds campaign_targets rests on these lemmas.       *)
(***************************************************************************)
EXTENDS Domain, TLAPS

Open == {"pending", "retry_pending"}

\* What the dispatch of a result comes to (flush, handleSendFailure).
LEMMA WriterRange ==
  ASSUME NEW o, o.status \in TaskStatus, o.code \in ErrorCode
  PROVE  /\ WriterOfResult(o) \in {"update", "fail", "unknown", "retry"}
         /\ WriterOfResult(o) = "update" => o.status # "retry_pending"
  BY DEF WriterOfResult, IsSendFailure

\* UpdateTargetStatus writes the new status or keeps the old one.
LEMMA UpdateRange ==
  ASSUME NEW old, NEW new
  PROVE  UpdateTargetStatus(old, new) \in {old, new}
  BY DEF UpdateTargetStatus

\* A result leaves the status alone, closes the target, or asks for a retry
\* of a pending target that has attempts left.
LEMMA ResultStatus ==
  ASSUME NEW old \in TaskStatus, NEW n \in Nat, NEW max \in Nat,
         NEW o, o.status \in TaskStatus, o.code \in ErrorCode
  PROVE  LET new == StatusAfterResult(old, n, max, o) IN
         /\ new \in TaskStatus
         /\ o.status # "pending" =>
              \/ new = old
              \/ new \notin Open
              \/ old = "pending" /\ new = "retry_pending" /\ n < max
  <1> DEFINE new == StatusAfterResult(old, n, max, o)
  <1>1. CASE WriterOfResult(o) = "update"
    <2>1. new = UpdateTargetStatus(old, o.status)
      BY <1>1 DEF StatusAfterResult
    <2>2. new \in {old, o.status}
      BY <2>1, UpdateRange
    <2>3. o.status # "retry_pending"
      BY <1>1, WriterRange
    <2> QED BY <2>2, <2>3 DEF Open
  <1>2. CASE WriterOfResult(o) = "fail"
    <2>1. new = UpdateTargetStatus(old, "failed")
      BY <1>2 DEF StatusAfterResult
    <2>2. new \in {old, "failed"}
      BY <2>1, UpdateRange
    <2> QED BY <2>2 DEF Open, TaskStatus
  <1>3. CASE WriterOfResult(o) = "unknown"
    <2>1. new \in {old, "delivery_unknown"}
      BY <1>3 DEF StatusAfterResult, MarkTargetDeliveryUnknown
    <2> QED BY <2>1 DEF Open, TaskStatus
  <1>4. CASE WriterOfResult(o) = "retry"
    <2>1. new = ApplyRetryableFailure(old, n, max)
      BY <1>4 DEF StatusAfterResult
    <2> QED BY <2>1 DEF ApplyRetryableFailure, RetryAccepted, Open, TaskStatus
  <1> QED BY <1>1, <1>2, <1>3, <1>4, WriterRange

\* A callback keeps the status or writes the reported one, and writes
\* nothing that it defers.
LEMMA CallbackStatus ==
  ASSUME NEW old \in TaskStatus, NEW o, o.status \in TaskStatus
  PROVE  /\ StatusAfterCallback(old, o) \in TaskStatus
         /\ (o.status \in Open => CallbackDeferred(o))
              => (StatusAfterCallback(old, o) \in Open
                    => StatusAfterCallback(old, o) = old)
  BY UpdateRange DEF StatusAfterCallback
\* A result that makes a target delivered or replied says so itself, and
\* reaches the row through UpdateTargetStatus, which counts it.
LEMMA ResultReached ==
  ASSUME NEW old \in TaskStatus, NEW n, NEW max, NEW o,
         o.status \in TaskStatus, o.code \in ErrorCode,
         NEW s \in {"delivered", "replied"},
         StatusAfterResult(old, n, max, o) = s, old # s
  PROVE  WriterOfResult(o) = "update" /\ o.status = s
  <1>1. CASE WriterOfResult(o) = "update"
    BY <1>1, UpdateRange DEF StatusAfterResult
  <1>2. CASE WriterOfResult(o) = "fail"
    <2>1. StatusAfterResult(old, n, max, o) \in {old, "failed"}
      BY <1>2, UpdateRange DEF StatusAfterResult
    <2> QED BY <2>1
  <1>3. CASE WriterOfResult(o) = "unknown"
    BY <1>3 DEF StatusAfterResult, MarkTargetDeliveryUnknown
  <1>4. CASE WriterOfResult(o) = "retry"
    BY <1>4 DEF StatusAfterResult, ApplyRetryableFailure
  <1> QED BY <1>1, <1>2, <1>3, <1>4, WriterRange

\* The same of a callback.
LEMMA CallbackReached ==
  ASSUME NEW old, NEW o, NEW s, StatusAfterCallback(old, o) = s, old # s
  PROVE  o.status = s
  BY UpdateRange DEF StatusAfterCallback
=============================================================================
