------------------------------- MODULE Domain -------------------------------
(***************************************************************************)
(* The vocabulary shared by every component: the statuses of a campaign    *)
(* target, the structured error codes a worker reports, and the row-level  *)
(* rules by which each writer of campaign_targets decides what status a    *)
(* row has afterwards.  The rules are pure operators: the modules that     *)
(* hold the row apply them inside the action that stands for the database  *)
(* transaction.                                                            *)
(*                                                                         *)
(* Error codes stand for the codes after TrimSpace and ToUpper; "" is an   *)
(* absent code and "OTHER" is any structured code the program does not     *)
(* list.                                                                   *)
(***************************************************************************)
EXTENDS Naturals

TaskStatus ==
  {"pending", "sent", "delivered", "viewed", "failed", "replied",
   "user_not_found_by_phone", "retry_pending", "delivery_unknown"}

ErrorStatus == {"failed", "user_not_found_by_phone", "delivery_unknown"}

SuccessStatus == {"sent", "delivered", "viewed", "replied"}

IsErrorStatus(s) == s \in ErrorStatus

Rank(s) ==
  CASE s = "replied"                    -> 4
    [] s = "viewed"                     -> 3
    [] s \in {"sent", "delivered"}      -> 2
    [] s \in {"pending", "retry_pending"} -> 1
    [] OTHER                            -> 0

\* What the claim condition makes of a row: a pending target that was dosed is
\* in flight.
Phase(status, attempts) ==
  CASE status = "pending" /\ attempts = 0 -> "waiting"
    [] status = "pending" /\ attempts # 0 -> "in_flight"
    [] status = "retry_pending"           -> "retry"
    [] OTHER                              -> "closed"

-----------------------------------------------------------------------------
(* Error codes and what the orchestrator does about them.                  *)

RetryableCode ==
  {"SESSION_EXPIRED", "WORKER_UNAVAILABLE", "MAX_UI_ERROR", "BROWSER_ERROR"}

FinalCode ==
  {"USER_NOT_FOUND_BY_PHONE", "INVALID_PHONE", "BLOCKED_RECIPIENT",
   "ACCOUNT_MISMATCH"}

ErrorCode ==
  RetryableCode \cup FinalCode \cup {"DELIVERY_UNKNOWN", "OTHER", ""}

ClassifyErrorCode(code) ==
  CASE code \in FinalCode          -> "final"
    [] code = "DELIVERY_UNKNOWN"   -> "unknown"
    [] code \in RetryableCode      -> "retryable"
    [] OTHER                       -> "final"

IsSessionHealthError(code) == code \in {"SESSION_EXPIRED", "BROWSER_ERROR"}

-----------------------------------------------------------------------------
(* What a worker reports of a message: a status and an error code.         *)

Outcome == [status : TaskStatus, code : ErrorCode]

IsSendFailure(o) ==
  \/ o.status \in {"failed", "delivery_unknown", "retry_pending"}
  \/ /\ o.code # ""
     /\ ClassifyErrorCode(o.code) \in {"retryable", "unknown"}
     /\ o.status \notin SuccessStatus

\* The code a report carries once the default for delivery_unknown is filled
\* in; both the consumer and the callback handler do so.
EffectiveCode(o) ==
  IF o.code = "" /\ o.status = "delivery_unknown"
  THEN "DELIVERY_UNKNOWN"
  ELSE o.code

-----------------------------------------------------------------------------
(* The writers of campaign_targets.status.  Each operator gives the status *)
(* of the row after the transaction, from the one it reads under FOR       *)
(* UPDATE.                                                                 *)

UpdateTargetStatus(old, new) ==
  IF ~IsErrorStatus(new) /\ Rank(old) > Rank(new) THEN old ELSE new

\* Only a row that is still pending reacts to a retryable failure.
RetryAccepted(old) == old = "pending"

\* Mutant: one attempt too many.
ApplyRetryableFailureOneMore(old, attempts, maxAttempts) ==
  IF ~RetryAccepted(old) THEN old
  ELSE IF attempts > maxAttempts THEN "failed"
  ELSE "retry_pending"

ApplyRetryableFailure(old, attempts, maxAttempts) ==
  IF ~RetryAccepted(old) THEN old
  ELSE IF attempts >= maxAttempts THEN "failed"
  ELSE "retry_pending"

MarkTargetDeliveryUnknown(old) ==
  IF old \in SuccessStatus THEN old ELSE "delivery_unknown"

\* The dispatch of ResultConsumer.flush and handleSendFailure on a result
\* that is not a reply: which of the writers above decides the row.
WriterOfResult(o) ==
  CASE o.status = "viewed"                  -> "update"
    [] o.status = "user_not_found_by_phone" -> "update"
    [] /\ IsSendFailure(o)
       /\ o.status \notin {"viewed", "user_not_found_by_phone"} ->
         IF EffectiveCode(o) = "" THEN "fail"
         ELSE CASE ClassifyErrorCode(EffectiveCode(o)) = "unknown"   -> "unknown"
                [] ClassifyErrorCode(EffectiveCode(o)) = "retryable" -> "retry"
                [] OTHER                                             -> "fail"
    [] OTHER                                -> "update"

StatusAfterResult(old, attempts, maxAttempts, o) ==
  CASE WriterOfResult(o) = "update"  -> UpdateTargetStatus(old, o.status)
    [] WriterOfResult(o) = "fail"    -> UpdateTargetStatus(old, "failed")
    [] WriterOfResult(o) = "unknown" -> MarkTargetDeliveryUnknown(old)
    [] OTHER ->
         ApplyRetryableFailure(old, attempts, maxAttempts)

\* Reports of the HTTP callback that are left to the result consumer.
CallbackDeferred(o) ==
  /\ o.status \in {"failed", "delivery_unknown", "retry_pending"}
  /\ EffectiveCode(o) # ""
  /\ ClassifyErrorCode(EffectiveCode(o)) \in {"retryable", "unknown"}

StatusAfterCallback(old, o) ==
  IF CallbackDeferred(o) THEN old ELSE UpdateTargetStatus(old, o.status)
=============================================================================
