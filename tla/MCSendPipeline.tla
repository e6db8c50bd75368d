--------------------------- MODULE MCSendPipeline ---------------------------
(* Small instances of SendPipeline for TLC.                                *)
EXTENDS SendPipeline

Report(s, c) == [status |-> s, code |-> c]

\* One outcome for each way a result can be handled.
MCWorkerOutcome ==
  {Report("sent", ""), Report("failed", "SESSION_EXPIRED"),
   Report("failed", "INVALID_PHONE"), Report("delivery_unknown", "")}

\* What reaches the callback handler: a success, a final failure and a
\* retryable one, which the handler leaves to the consumer.
MCCallbackOutcome ==
  {Report("sent", ""), Report("failed", "SESSION_EXPIRED"),
   Report("failed", "INVALID_PHONE")}

\* The liveness instance: an outcome that retries and one that does not.
MCLiveOutcome == {Report("sent", ""), Report("failed", "SESSION_EXPIRED")}
=============================================================================
