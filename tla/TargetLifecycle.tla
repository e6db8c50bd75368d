--------------------------- MODULE TargetLifecycle ---------------------------
(***************************************************************************)
(* What the orchestrator promises about the messages of a campaign target, *)
(* whatever the doser, the outbox worker, the result consumer, the HTTP    *)
(* handlers and the replies do side by side: a target is dosed at most     *)
(* MaxRetryAttempts times, each time from a state in which nothing is in   *)
(* flight for it, each dose leaves exactly one row in the outbox for good, *)
(* and a target that was closed is never dosed again.                      *)
(*                                                                         *)
(* The detailed modules refine this one: Domain!Phase reads the phase off   *)
(* the status and the attempt counter of the row.                          *)
(***************************************************************************)
EXTENDS Naturals

CONSTANTS Target, MaxRetryAttempts

VARIABLES
  phase,     \* "waiting", "in_flight", "retry" or "closed"
  doses,     \* attempt_count
  enqueued   \* the attempts for which an outbox row was ever written

vars == <<phase, doses, enqueued>>

Init ==
  /\ phase = [t \in Target |-> "waiting"]
  /\ doses = [t \in Target |-> 0]
  /\ enqueued = {}

\* The claim: one more attempt and its row.
Dose(t) ==
  /\ phase[t] \in {"waiting", "retry"}
  /\ doses[t] < MaxRetryAttempts
  /\ phase' = [phase EXCEPT ![t] = "in_flight"]
  /\ doses' = [doses EXCEPT ![t] = @ + 1]
  /\ enqueued' = enqueued \cup {[target |-> t, attempt |-> doses[t] + 1]}

\* A failure that may be tried again, while the budget lasts.
GrantRetry(t) ==
  /\ phase[t] = "in_flight"
  /\ doses[t] < MaxRetryAttempts
  /\ phase' = [phase EXCEPT ![t] = "retry"]
  /\ UNCHANGED <<doses, enqueued>>

\* Any other outcome.
Close(t) ==
  /\ phase' = [phase EXCEPT ![t] = "closed"]
  /\ UNCHANGED <<doses, enqueued>>

Next == \E t \in Target : Dose(t) \/ GrantRetry(t) \/ Close(t)

Spec == Init /\ [][Next]_vars
=============================================================================
