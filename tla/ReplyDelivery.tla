---------------------------- MODULE ReplyDelivery ----------------------------
(***************************************************************************)
(* What the orchestrator promises about the replies of clients, whatever   *)
(* restarts, lost acknowledgements, failed statements and closed channels  *)
(* do to the consumer, and whatever the webhook registers beside it: a     *)
(* reply leaves the queue only after it was registered; registering it,    *)
(* recording its text and blocking an unsubscriber are one step, and       *)
(* nobody else is ever blocked; and an admin is told of a reply at most    *)
(* once for each time it was registered, and only afterwards.              *)
(*                                                                         *)
(* ReplyHandling refines this module.                                      *)
(***************************************************************************)
EXTENDS Naturals

CONSTANTS Reply, Recipient, TargetOf, Unsubscribe, AdminPhone, NoReply

VARIABLES
  queued,      \* replies that the broker still has
  registered,  \* how often each was registered
  answer,      \* the last one of each recipient
  blocked,     \* recipients who are never written to again
  told         \* how often each admin was told of each reply

vars == <<queued, registered, answer, blocked, told>>

Init ==
  /\ queued = Reply
  /\ registered = [r \in Reply |-> 0]
  /\ answer = [p \in Recipient |-> NoReply]
  /\ blocked = {}
  /\ told = [r \in Reply |-> [a \in AdminPhone |-> 0]]

Register(r) ==
  /\ registered' = [registered EXCEPT ![r] = @ + 1]
  /\ answer' = [answer EXCEPT ![TargetOf[r]] = r]
  /\ blocked' = blocked \cup {TargetOf[s] : s \in {r} \cap Unsubscribe}
  /\ UNCHANGED <<queued, told>>

Acknowledge(r) ==
  /\ registered[r] > 0
  /\ queued' = queued \ {r}
  /\ UNCHANGED <<registered, answer, blocked, told>>

Tell(r, a) ==
  /\ told[r][a] < registered[r]
  /\ told' = [told EXCEPT ![r][a] = @ + 1]
  /\ UNCHANGED <<queued, registered, answer, blocked>>

Next ==
  \E r \in Reply :
    \/ Register(r)
    \/ Acknowledge(r)
    \/ \E a \in AdminPhone : Tell(r, a)

Spec == Init /\ [][Next]_vars
=============================================================================
