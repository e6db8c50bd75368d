------------------------- MODULE CampaignLifecycle -------------------------
(***************************************************************************)
(* The row of a campaign and everything that writes it: the scheduler that *)
(* starts a draft, the operator who stops it, the replies that complete    *)
(* it, the results that count its progress and the report download that    *)
(* writes the whole row back.  All of them run side by side; a reply is a  *)
(* transaction of several READ COMMITTED statements, a download reads the  *)
(* row minutes before it writes it, and the doser asks for the campaign    *)
(* status only when it selects a target.                                   *)
(*                                                                         *)
(* One campaign.  Publishing is the subject of SendPipeline and the limits *)
(* of Dosing; a result may be applied at any time to a target that was     *)
(* dosed, more than once and in any order, and a retry is due at any time. *)
(* error_count is used by no property and projected away.                  *)
(***************************************************************************)
EXTENDS Domain, FiniteSets

CONSTANTS
  Target,            \* rows of campaign_targets of the campaign
  Handler,           \* goroutines that register replies: webhooks, consumer
  Reader,            \* HTTP requests that download the report
  NoTarget,          \* the doser holds no target
  NoRow,             \* a reader holds no copy of the campaign
  MaxRetryAttempts,
  WorkerOutcome,     \* outcomes a worker reports of a message
  MaxStarting,       \* bound on concurrent StartCampaign calls
  MaxCount,          \* bound on processed_count
  MaxFaults          \* bound on failed statements and restarts

ASSUME TargetAssumption == IsFiniteSet(Target)
ASSUME RetryAssumption == MaxRetryAttempts \in Nat \ {0}
ASSUME OutcomeAssumption == WorkerOutcome \subseteq Outcome
ASSUME BoundAssumption ==
  MaxStarting \in Nat /\ MaxCount \in Nat /\ MaxFaults \in Nat
ASSUME NullAssumption == NoTarget \notin Target

VARIABLES
  cstatus,      \* campaigns.status
  startAt,      \* time_to_start: null, to come, or reached
  processed,    \* campaigns.processed_count
  tstatus,      \* campaign_targets.status
  attempt,      \* campaign_targets.attempt_count
  starting,     \* scheduler: goroutines about to call StartCampaign
  selected,     \* doser: the target read before the assignment
  reply,        \* the reply transactions in progress
  copy,         \* readers: the campaign row GenerateExcel read
  (* observations *)
  replied,      \* targets that have been in replied
  overlap,      \* two reply transactions were open at once
  stale,        \* a report wrote back a row that had changed since its read
  late,         \* doses since the campaign last was in processing
  faults

campaignVars == <<cstatus, startAt, processed>>
targetVars   == <<tstatus, attempt>>
localVars    == <<starting, selected, reply, copy>>
observed     == <<replied, overlap, stale, late>>
vars == <<campaignVars, targetVars, localVars, observed, faults>>

CampaignStatus == {"draft", "processing", "completed", "stopped"}

Copy == [status : CampaignStatus, processed : 0..MaxCount]

NoReply == [step |-> "idle", target |-> NoTarget, all |-> FALSE]

ReplyTx == [step : {"idle", "updated", "counted"},
            target : Target \cup {NoTarget}, all : BOOLEAN]

TypeOK ==
  /\ cstatus \in CampaignStatus
  /\ startAt \in {"null", "future", "past"}
  /\ processed \in 0..MaxCount
  /\ tstatus \in [Target -> TaskStatus]
  /\ attempt \in [Target -> Nat]
  /\ starting \in 0..MaxStarting
  /\ selected \in Target \cup {NoTarget}
  /\ reply \in [Handler -> ReplyTx]
  /\ copy \in [Reader -> Copy \cup {NoRow}]
  /\ replied \subseteq Target
  /\ overlap \in BOOLEAN /\ stale \in BOOLEAN
  /\ late \in Nat
  /\ faults \in 0..MaxFaults

\* UploadCampaign: started at once, or a draft with or without a start time.
Init ==
  /\ \/ cstatus = "processing" /\ startAt = "null"
     \/ cstatus = "draft" /\ startAt \in {"null", "future"}
  /\ processed = 0
  /\ tstatus = [t \in Target |-> "pending"]
  /\ attempt = [t \in Target |-> 0]
  /\ starting = 0
  /\ selected = NoTarget
  /\ reply = [h \in Handler |-> NoReply]
  /\ copy = [r \in Reader |-> NoRow]
  /\ replied = {}
  /\ overlap = FALSE /\ stale = FALSE
  /\ late = 0
  /\ faults = 0

Fault == faults < MaxFaults /\ faults' = faults + 1

\* The row lock a reply transaction holds on its target until it ends.
Locked(t) == \E h \in Handler : reply[h].step # "idle" /\ reply[h].target = t

-----------------------------------------------------------------------------
(* SchedulerWorker                                                         *)

TimeToStartReached ==
  /\ startAt = "future"
  /\ startAt' = "past"
  /\ UNCHANGED <<cstatus, processed, targetVars, localVars, observed, faults>>

\* Mutant: the comparison with the clock is the wrong way round.
ListReadyBeforeTime ==
  /\ cstatus = "draft" /\ startAt = "future"
  /\ starting < MaxStarting
  /\ starting' = starting + 1
  /\ UNCHANGED <<campaignVars, targetVars, selected, reply, copy, observed,
                 faults>>

\* checkAndStartCampaigns: the ready draft is listed, and a goroutine of its
\* own is to start it; the next tick may list it again before that happens.
ListReady ==
  /\ cstatus = "draft" /\ startAt = "past"
  /\ starting < MaxStarting
  /\ starting' = starting + 1
  /\ UNCHANGED <<campaignVars, targetVars, selected, reply, copy, observed,
                 faults>>

\* Mutant: the update does not look at the status.
StartCampaignAnyStatus ==
  /\ starting > 0
  /\ starting' = starting - 1
  /\ cstatus' = "processing"
  /\ late' = 0
  /\ UNCHANGED <<startAt, processed, targetVars, selected, reply, copy,
                 replied, overlap, stale, faults>>

StartCampaign ==
  /\ starting > 0
  /\ starting' = starting - 1
  /\ cstatus' = IF cstatus = "draft" THEN "processing" ELSE cstatus
  /\ late' = IF cstatus' = "processing" THEN 0 ELSE late
  /\ UNCHANGED <<startAt, processed, targetVars, selected, reply, copy,
                 replied, overlap, stale, faults>>

StartFails ==
  /\ starting > 0
  /\ Fault
  /\ starting' = starting - 1
  /\ UNCHANGED <<campaignVars, targetVars, selected, reply, copy, observed>>

-----------------------------------------------------------------------------
(* The operator                                                            *)

StopCampaign ==
  /\ cstatus' = "stopped"
  /\ UNCHANGED <<startAt, processed, targetVars, localVars, observed, faults>>

\* GenerateExcel: the campaign is read first ...
ReadCampaign(r) ==
  /\ copy[r] = NoRow
  /\ copy' = [copy EXCEPT ![r] = [status |-> cstatus, processed |-> processed]]
  /\ UNCHANGED <<campaignVars, targetVars, starting, selected, reply, observed,
                 faults>>

\* ... and after the report has been built UpdateCampaign writes every column
\* of it back.
WriteCampaign(r) ==
  /\ copy[r] # NoRow
  /\ cstatus' = copy[r].status
  /\ processed' = copy[r].processed
  /\ stale' = (stale \/ copy[r] # [status |-> cstatus, processed |-> processed])
  /\ late' = IF cstatus' = "processing" THEN 0 ELSE late
  /\ copy' = [copy EXCEPT ![r] = NoRow]
  /\ UNCHANGED <<startAt, targetVars, starting, selected, reply, replied,
                 overlap, faults>>

\* The file cannot be read or saved.
ReportFails(r) ==
  /\ copy[r] # NoRow
  /\ copy' = [copy EXCEPT ![r] = NoRow]
  /\ UNCHANGED <<campaignVars, targetVars, starting, selected, reply, observed,
                 faults>>

-----------------------------------------------------------------------------
(* CampaignDoser                                                           *)

\* Mutant: the selection does not ask for the campaign status.
SelectTargetAnyStatus(t) ==
  /\ selected = NoTarget
  /\ \/ tstatus[t] = "pending" /\ attempt[t] = 0
     \/ tstatus[t] = "retry_pending"
  /\ ~Locked(t)
  /\ selected' = t
  /\ UNCHANGED <<campaignVars, targetVars, starting, reply, copy, observed,
                 faults>>

\* Mutant: a dosed target that is pending can be claimed again.
EligibleByStatus(t) == tstatus[t] \in {"pending", "retry_pending"}

Eligible(t) ==
  \/ tstatus[t] = "pending" /\ attempt[t] = 0
  \/ tstatus[t] = "retry_pending"

\* getNextPendingTarget skips locked rows.
SelectTarget(t) ==
  /\ selected = NoTarget
  /\ cstatus = "processing"
  /\ Eligible(t) /\ ~Locked(t)
  /\ selected' = t
  /\ UNCHANGED <<campaignVars, targetVars, starting, reply, copy, observed,
                 faults>>

\* AssignAccountAndEnqueueTarget waits for the row lock and looks at the
\* target again, not at the campaign.
AssignAndEnqueue ==
  /\ selected # NoTarget
  /\ Eligible(selected) /\ ~Locked(selected)
  /\ tstatus' = [tstatus EXCEPT ![selected] = "pending"]
  /\ attempt' = [attempt EXCEPT ![selected] = @ + 1]
  /\ late' = IF cstatus = "processing" THEN 0 ELSE late + 1
  /\ selected' = NoTarget
  /\ UNCHANGED <<campaignVars, starting, reply, copy, replied, overlap, stale,
                 faults>>

\* No longer eligible, no account slot left, or the statement fails.
AssignRefused ==
  /\ selected # NoTarget
  /\ selected' = NoTarget
  /\ UNCHANGED <<campaignVars, targetVars, starting, reply, copy, observed,
                 faults>>

-----------------------------------------------------------------------------
(* Results of the workers                                                  *)

\* Mutant: only the first status a target gets is counted.
CountedFromPending(old, new) == new = "delivered" /\ old = "pending"

\* UpdateTargetStatus counts by the reported status, also when the row keeps
\* a higher one.
Counted(old, new) == new = "delivered" /\ old # "delivered"

\* Observed of every writer of the statuses.
NoteReplied == replied' = replied \cup {t \in Target : tstatus'[t] = "replied"}

\* Mutant: any other report of a delivered target takes the count back.
CountProgressTakenBack(t, writer, new) ==
  /\ processed' = IF writer = "update" /\ Counted(tstatus[t], new)
                  THEN processed + 1
                  ELSE IF tstatus[t] = "delivered" /\ new # "delivered"
                  THEN processed - 1 ELSE processed
  /\ processed' <= MaxCount

CountProgress(t, writer, new) ==
  /\ processed' = IF writer = "update" /\ Counted(tstatus[t], new)
                  THEN processed + 1 ELSE processed
  /\ processed' <= MaxCount

\* The result consumer.
ApplyResult(t, o) ==
  /\ attempt[t] > 0 /\ ~Locked(t)
  /\ tstatus' = [tstatus EXCEPT ![t] =
                   StatusAfterResult(@, attempt[t], MaxRetryAttempts, o)]
  /\ CountProgress(t, WriterOfResult(o), o.status)
  /\ NoteReplied
  /\ UNCHANGED <<cstatus, startAt, attempt, localVars, overlap, stale, late,
                 faults>>

\* The HTTP callback.
WorkerCallback(t, o) ==
  /\ attempt[t] > 0 /\ ~Locked(t)
  /\ ~CallbackDeferred(o)
  /\ tstatus' = [tstatus EXCEPT ![t] = StatusAfterCallback(@, o)]
  /\ CountProgress(t, "update", o.status)
  /\ NoteReplied
  /\ UNCHANGED <<cstatus, startAt, attempt, localVars, overlap, stale, late,
                 faults>>

-----------------------------------------------------------------------------
(* RegisterReply.  The statements of the transaction are separate steps;   *)
(* its writes are seen by others when it commits.                          *)

ReplyUpdate(h, t) ==
  /\ reply[h].step = "idle"
  /\ attempt[t] > 0 /\ ~Locked(t)
  /\ reply' = [reply EXCEPT ![h] =
                 [step |-> "updated", target |-> t, all |-> FALSE]]
  /\ overlap' = (overlap \/ \E g \in Handler : reply[g].step # "idle")
  /\ UNCHANGED <<campaignVars, targetVars, starting, selected, copy, replied,
                 stale, late, faults>>

\* Mutant: a target that was delivered counts as answered.
SeenRepliedOrDelivered(h) ==
  {t \in Target : tstatus[t] \in {"replied", "delivered"}} \cup {reply[h].target}

\* Mutant: the count runs before the transaction's own update.
SeenCommitted(h) == {t \in Target : tstatus[t] = "replied"}

\* What the count sees: committed rows and the transaction's own.
SeenReplied(h) ==
  {t \in Target : tstatus[t] = "replied"} \cup {reply[h].target}

ReplyCount(h) ==
  /\ reply[h].step = "updated"
  /\ reply' = [reply EXCEPT ![h].step = "counted",
                            ![h].all = (SeenReplied(h) = Target)]
  /\ UNCHANGED <<campaignVars, targetVars, starting, selected, copy, observed,
                 faults>>

\* If all replied, the campaign is completed, whatever its status.
ReplyCommit(h) ==
  /\ reply[h].step = "counted"
  /\ tstatus' = [tstatus EXCEPT ![reply[h].target] = "replied"]
  /\ cstatus' = IF reply[h].all THEN "completed" ELSE cstatus
  /\ NoteReplied
  /\ reply' = [reply EXCEPT ![h] = NoReply]
  /\ UNCHANGED <<startAt, processed, attempt, starting, selected, copy,
                 overlap, stale, late, faults>>

ReplyRollback(h) ==
  /\ reply[h].step # "idle"
  /\ Fault
  /\ reply' = [reply EXCEPT ![h] = NoReply]
  /\ UNCHANGED <<campaignVars, targetVars, starting, selected, copy, observed>>

-----------------------------------------------------------------------------
Restart ==
  /\ Fault
  /\ starting' = 0
  /\ selected' = NoTarget
  /\ reply' = [h \in Handler |-> NoReply]
  /\ copy' = [r \in Reader |-> NoRow]
  /\ UNCHANGED <<campaignVars, targetVars, observed>>

Scheduler == TimeToStartReached \/ ListReady \/ StartCampaign \/ StartFails

Report(r) == ReadCampaign(r) \/ WriteCampaign(r) \/ ReportFails(r)

Doser ==
  \/ \E t \in Target : SelectTarget(t)
  \/ AssignAndEnqueue
  \/ AssignRefused

RegisterReply(h) ==
  \/ \E t \in Target : ReplyUpdate(h, t)
  \/ ReplyCount(h)
  \/ ReplyCommit(h)
  \/ ReplyRollback(h)

Next ==
  \/ Scheduler
  \/ StopCampaign
  \/ \E r \in Reader : Report(r)
  \/ Doser
  \/ \E t \in Target, o \in WorkerOutcome : ApplyResult(t, o)
  \/ \E t \in Target, o \in WorkerOutcome : WorkerCallback(t, o)
  \/ \E h \in Handler : RegisterReply(h)
  \/ Restart

Spec == Init /\ [][Next]_vars

\* The scheduler ticks every two seconds and its goroutines run.
Fairness == WF_vars(ListReady) /\ WF_vars(StartCampaign)

FairSpec == Spec /\ Fairness

-----------------------------------------------------------------------------
(* Properties                                                              *)

\* Nothing the scheduler listed before the stop starts the campaign again: a
\* stopped campaign leaves that status when its last reply completes it, or
\* when a report that was begun before the stop writes the old row back.
StopSticks ==
  [][cstatus = "stopped" /\ cstatus' # "stopped"
       => \/ cstatus' = "completed"
          \/ \E r \in Reader : /\ copy[r] # NoRow /\ copy'[r] = NoRow
                               /\ copy[r].status = cstatus']_vars

\* The doser re-reads the target but not the campaign: after a stop (or the
\* completion) at most the one target already selected is enqueued.
LateDoses == late <= 1

\* A completed campaign was answered by every one of its targets, although
\* the count is taken from rows that may change before the commit, and a
\* report may write an old "completed" back.
CompletedMeansReplied == cstatus = "completed" => replied = Target

\* "If all replied, mark campaign as completed" (RegisterReply).
Answered ==
  /\ \A t \in Target : tstatus[t] = "replied"
  /\ \A h \in Handler : reply[h].step = "idle"

CompletedWhenAllReplied ==
  Answered /\ ~stale => cstatus \in {"completed", "stopped"}

\* The same, as long as no two replies are registered at the same time.
CompletedWithoutOverlap ==
  Answered /\ ~stale /\ ~overlap => cstatus \in {"completed", "stopped"}

\* Every target that is delivered was counted, unless a report wrote an old
\* count back.
ProgressCounted ==
  ~stale => Cardinality({t \in Target : tstatus[t] = "delivered"}) <= processed

\* What a target of the campaign looks like from outside; there is an outbox
\* row for every attempt.
Lifecycle ==
  INSTANCE TargetLifecycle
    WITH phase <- [t \in Target |-> Phase(tstatus[t], attempt[t])],
         doses <- attempt,
         enqueued <- UNION {[target : {t}, attempt : 1..attempt[t]] : t \in Target}

\* Stops, restarts, overlapping replies and reports that write old rows back
\* leave each target within the promise of TargetLifecycle.
ImplementsLifecycle == Lifecycle!Spec

\* A draft whose time has come does not stay a draft, even if its start
\* fails or the process restarts.
DraftStarts == (cstatus = "draft" /\ startAt = "past") ~> (cstatus # "draft")
=============================================================================
