------------------------ MODULE MCCampaignLifecycle ------------------------
(* Small instances of CampaignLifecycle for TLC.                           *)
EXTENDS CampaignLifecycle

\* A success that is counted, and a failure of each kind.
MCWorkerOutcome ==
  {[status |-> "delivered", code |-> ""],
   [status |-> "failed", code |-> "INVALID_PHONE"],
   [status |-> "failed", code |-> "SESSION_EXPIRED"]}

\* Replies only.
NoOutcome == {}
=============================================================================
