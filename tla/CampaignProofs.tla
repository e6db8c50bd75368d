--------------------------- MODULE CampaignProofs ---------------------------
(***************************************************************************)
(* Safety of CampaignLifecycle for every finite set of targets, any number *)
(* of goroutines that register replies and of report downloads, every set  *)
(* of outcomes and any number of faults.                                   *)
(***************************************************************************)
EXTENDS CampaignLifecycle, DomainProofs, FiniteSetTheorems, TLAPS

-----------------------------------------------------------------------------
(* Type correctness.                                                       *)

\* A reply transaction that is open has a target.
ReplyOK == \A h \in Handler : reply[h].step # "idle" => reply[h].target \in Target

TypeInv == TypeOK /\ ReplyOK

\* A fault is counted within its bound.
LEMMA FaultType ==
  ASSUME TypeOK, Fault
  PROVE  faults' \in 0..MaxFaults
  BY BoundAssumption DEF TypeOK, Fault

\* The initial state is typed.
LEMMA TypeInit == Init => TypeInv
  <1> SUFFICES ASSUME Init PROVE TypeInv
    OBVIOUS
  <1>1. NoReply \in ReplyTx /\ NoReply.step = "idle"
    BY DEF NoReply, ReplyTx
  <1>2. reply \in [Handler -> ReplyTx] /\ ReplyOK
    BY <1>1 DEF Init, ReplyOK
  <1>3. "pending" \in TaskStatus /\ cstatus \in CampaignStatus
    BY DEF Init, TaskStatus, CampaignStatus
  <1>4. /\ tstatus \in [Target -> TaskStatus] /\ attempt \in [Target -> Nat]
        /\ copy \in [Reader -> Copy \cup {NoRow}]
    BY <1>3 DEF Init
  <1>5. /\ processed \in 0..MaxCount /\ starting \in 0..MaxStarting
        /\ faults \in 0..MaxFaults /\ late \in Nat
    BY BoundAssumption DEF Init
  <1>6. /\ startAt \in {"null", "future", "past"} /\ replied \subseteq Target
        /\ selected \in Target \cup {NoTarget}
        /\ overlap \in BOOLEAN /\ stale \in BOOLEAN
    BY DEF Init
  <1> QED BY <1>2, <1>3, <1>4, <1>5, <1>6 DEF TypeInv, TypeOK

\* The writes of the scheduler, the operator and the report.
LEMMA CampaignType ==
  ASSUME TypeInv, Scheduler \/ StopCampaign \/ \E r \in Reader : Report(r)
  PROVE  TypeInv'
  <1> USE DEF TypeInv
  <1>1. CASE TimeToStartReached
    BY <1>1 DEF TimeToStartReached, TypeOK, ReplyOK, targetVars, localVars, observed
  <1>2. CASE ListReady
    BY <1>2, BoundAssumption
       DEF ListReady, TypeOK, ReplyOK, campaignVars, targetVars, observed
  <1>3. CASE StartCampaign
    BY <1>3, BoundAssumption
       DEF StartCampaign, TypeOK, ReplyOK, CampaignStatus, targetVars
  <1>4. CASE StartFails
    BY <1>4, BoundAssumption, FaultType
       DEF StartFails, TypeOK, ReplyOK, campaignVars, targetVars, observed
  <1>5. CASE StopCampaign
    BY <1>5 DEF StopCampaign, TypeOK, ReplyOK, CampaignStatus, targetVars,
                localVars, observed
  <1>6. ASSUME NEW r \in Reader, ReadCampaign(r) PROVE TypeInv'
    BY <1>6 DEF ReadCampaign, TypeOK, ReplyOK, Copy, campaignVars, targetVars,
                observed
  <1>7. ASSUME NEW r \in Reader, WriteCampaign(r) PROVE TypeInv'
    <2>1. copy[r] \in Copy
      BY <1>7 DEF WriteCampaign, TypeOK
    <2> QED BY <1>7, <2>1 DEF WriteCampaign, TypeOK, ReplyOK, Copy, targetVars
  <1>8. ASSUME NEW r \in Reader, ReportFails(r) PROVE TypeInv'
    BY <1>8 DEF ReportFails, TypeOK, ReplyOK, campaignVars, targetVars, observed
  <1> QED BY <1>1, <1>2, <1>3, <1>4, <1>5, <1>6, <1>7, <1>8 DEF Scheduler, Report

\* The writes of the doser.
LEMMA DoserType ==
  ASSUME TypeInv, Doser
  PROVE  TypeInv'
  <1> USE DEF TypeInv
  <1>1. ASSUME NEW t \in Target, SelectTarget(t) PROVE TypeInv'
    BY <1>1 DEF SelectTarget, TypeOK, ReplyOK, campaignVars, targetVars, observed
  <1>2. CASE AssignAndEnqueue
    BY <1>2 DEF AssignAndEnqueue, TypeOK, ReplyOK, TaskStatus, campaignVars
  <1>3. CASE AssignRefused
    BY <1>3 DEF AssignRefused, TypeOK, ReplyOK, campaignVars, targetVars, observed
  <1> QED BY <1>1, <1>2, <1>3 DEF Doser

\* What is counted stays within the bound.
LEMMA CountType ==
  ASSUME TypeOK, NEW t \in Target, NEW w, NEW new, CountProgress(t, w, new)
  PROVE  processed' \in 0..MaxCount
  BY BoundAssumption DEF TypeOK, CountProgress

\* The writes of the results.
LEMMA ResultType ==
  ASSUME TypeInv, NEW t \in Target, NEW o \in WorkerOutcome,
         ApplyResult(t, o) \/ WorkerCallback(t, o)
  PROVE  TypeInv'
  <1> USE DEF TypeInv
  <1>1. o.status \in TaskStatus /\ o.code \in ErrorCode
    BY OutcomeAssumption DEF Outcome
  <1>2. tstatus[t] \in TaskStatus /\ attempt[t] \in Nat
    BY DEF TypeOK
  <1>3. StatusAfterResult(tstatus[t], attempt[t], MaxRetryAttempts, o) \in TaskStatus
    BY <1>1, <1>2, ResultStatus, RetryAssumption
  <1>4. StatusAfterCallback(tstatus[t], o) \in TaskStatus
    BY <1>1, <1>2, CallbackStatus
  <1>5. processed' \in 0..MaxCount
    BY CountType DEF ApplyResult, WorkerCallback
  <1>6. tstatus' \in [Target -> TaskStatus]
    BY <1>3, <1>4 DEF ApplyResult, WorkerCallback, TypeOK
  <1> QED BY <1>5, <1>6 DEF ApplyResult, WorkerCallback, NoteReplied, TypeOK,
                            ReplyOK, localVars

\* The statements of a reply transaction.
LEMMA ReplyType ==
  ASSUME TypeInv, NEW h \in Handler, RegisterReply(h)
  PROVE  TypeInv'
  <1> USE DEF TypeInv
  <1>1. ASSUME NEW t \in Target, ReplyUpdate(h, t) PROVE TypeInv'
    BY <1>1 DEF ReplyUpdate, TypeOK, ReplyOK, ReplyTx, campaignVars, targetVars
  <1>2. CASE ReplyCount(h)
    <2>1. reply[h] \in ReplyTx /\ reply[h].target \in Target
      BY <1>2 DEF ReplyCount, TypeOK, ReplyOK
    <2> QED BY <1>2, <2>1 DEF ReplyCount, TypeOK, ReplyOK, ReplyTx, campaignVars,
                              targetVars, observed
  <1>3. CASE ReplyCommit(h)
    <2>1. reply[h].target \in Target
      BY <1>3 DEF ReplyCommit, ReplyOK
    <2> QED BY <1>3, <2>1 DEF ReplyCommit, TypeOK, ReplyOK, ReplyTx, NoReply,
                              NoteReplied, CampaignStatus, TaskStatus
  <1>4. CASE ReplyRollback(h)
    BY <1>4, FaultType DEF ReplyRollback, TypeOK, ReplyOK, ReplyTx, NoReply,
                           campaignVars, targetVars, observed
  <1> QED BY <1>1, <1>2, <1>3, <1>4 DEF RegisterReply

\* Every step keeps the types.
LEMMA TypeStep == TypeInv /\ [Next]_vars => TypeInv'
  <1> SUFFICES ASSUME TypeInv, [Next]_vars PROVE TypeInv'
    OBVIOUS
  <1>1. CASE Restart
    BY <1>1, FaultType, BoundAssumption
       DEF Restart, TypeInv, TypeOK, ReplyOK, ReplyTx, NoReply, campaignVars,
           targetVars, observed
  <1>2. CASE UNCHANGED vars
    BY <1>2 DEF vars, TypeInv, TypeOK, ReplyOK, campaignVars, targetVars,
                localVars, observed
  <1> QED BY <1>1, <1>2, CampaignType, DoserType, ResultType, ReplyType DEF Next

\* Every reachable state is typed.
LEMMA TypeInvariant == Spec => []TypeInv
  BY TypeInit, TypeStep, PTL DEF Spec

\* Every reachable state is typed, and the count of a report that writes its
\* row back stays within the bound.
THEOREM TypeCorrect == Spec => []TypeOK
  <1>1. TypeInv => TypeOK
    BY DEF TypeInv
  <1> QED BY <1>1, TypeInvariant, PTL

-----------------------------------------------------------------------------
(* Doses after the campaign left "processing".                             *)

\* The doser holds a target only if none was dosed since.
LateInv ==
  /\ cstatus = "processing" => late = 0
  /\ selected # NoTarget => late = 0
  /\ late <= 1

\* Every step keeps the bound: only a selection made before can be dosed.
LEMMA LateStep ==
  ASSUME TypeInv, LateInv, [Next]_vars
  PROVE  LateInv'
  <1>1. ASSUME UNCHANGED <<cstatus, selected, late>> PROVE LateInv'
    BY <1>1 DEF LateInv
  <1>2. CASE Scheduler
    <2>1. CASE StartCampaign
      BY <2>1 DEF StartCampaign, LateInv
    <2> QED BY <1>1, <1>2, <2>1
            DEF Scheduler, TimeToStartReached, ListReady, StartFails, localVars,
                campaignVars, observed
  <1>3. CASE StopCampaign
    BY <1>3 DEF StopCampaign, LateInv, localVars, observed
  <1>4. ASSUME NEW r \in Reader, Report(r) PROVE LateInv'
    <2>1. CASE WriteCampaign(r)
      BY <2>1 DEF WriteCampaign, LateInv
    <2> QED BY <1>1, <1>4, <2>1
            DEF Report, ReadCampaign, ReportFails, campaignVars, observed
  <1>5. CASE Doser
    <2>1. ASSUME NEW t \in Target, SelectTarget(t) PROVE LateInv'
      BY <2>1 DEF SelectTarget, LateInv, campaignVars, observed
    <2>2. CASE AssignAndEnqueue
      BY <2>2 DEF AssignAndEnqueue, LateInv, campaignVars
    <2>3. CASE AssignRefused
      BY <2>3 DEF AssignRefused, LateInv, campaignVars, observed
    <2> QED BY <1>5, <2>1, <2>2, <2>3 DEF Doser
  <1>6. ASSUME NEW t \in Target, NEW o \in WorkerOutcome,
               ApplyResult(t, o) \/ WorkerCallback(t, o)
        PROVE  LateInv'
    BY <1>1, <1>6 DEF ApplyResult, WorkerCallback, localVars
  <1>7. ASSUME NEW h \in Handler, RegisterReply(h) PROVE LateInv'
    <2>1. CASE ReplyCommit(h)
      BY <2>1 DEF ReplyCommit, LateInv
    <2> QED BY <1>1, <1>7, <2>1
            DEF RegisterReply, ReplyUpdate, ReplyCount, ReplyRollback,
                campaignVars, observed
  <1>8. CASE Restart
    BY <1>8 DEF Restart, LateInv, campaignVars, observed
  <1>9. CASE UNCHANGED vars
    BY <1>1, <1>9 DEF vars, campaignVars, localVars, observed
  <1> QED BY <1>2, <1>3, <1>4, <1>5, <1>6, <1>7, <1>8, <1>9 DEF Next

\* A campaign that was stopped or completed is dosed at most once more until
\* it is processed again.
THEOREM LateDosesHolds == Spec => []LateDoses
  <1>1. Init => LateInv
    BY DEF Init, LateInv
  <1>2. TypeInv /\ LateInv /\ [Next]_vars => LateInv'
    BY LateStep
  <1>3. LateInv => LateDoses
    BY DEF LateInv, LateDoses
  <1> QED BY <1>1, <1>2, <1>3, TypeInvariant, PTL DEF Spec

-----------------------------------------------------------------------------
(* A stop.                                                                 *)

\* Only a completion, or a report that was begun before the stop, takes a
\* campaign out of "stopped": the goroutines of the scheduler cannot.
LEMMA StopStep ==
  ASSUME TypeInv, [Next]_vars, cstatus = "stopped", cstatus' # "stopped"
  PROVE  \/ cstatus' = "completed"
         \/ \E r \in Reader : /\ copy[r] # NoRow /\ copy'[r] = NoRow
                              /\ copy[r].status = cstatus'
  <1>1. ASSUME NEW r \in Reader, WriteCampaign(r)
        PROVE  /\ copy[r] # NoRow /\ copy'[r] = NoRow
               /\ copy[r].status = cstatus'
    BY <1>1 DEF WriteCampaign, TypeInv, TypeOK
  <1>2. ASSUME NEW h \in Handler, ReplyCommit(h) PROVE cstatus' = "completed"
    BY <1>2 DEF ReplyCommit
  <1>3. ASSUME NEW t \in Target, NEW o \in WorkerOutcome,
               ApplyResult(t, o) \/ WorkerCallback(t, o)
        PROVE  cstatus' = cstatus
    BY <1>3 DEF ApplyResult, WorkerCallback
  <1>4. Scheduler \/ StopCampaign => cstatus' = "stopped"
    BY DEF Scheduler, TimeToStartReached, ListReady, StartCampaign, StartFails,
           StopCampaign, campaignVars
  <1>5. Doser \/ Restart \/ UNCHANGED vars => cstatus' = cstatus
    BY DEF Doser, SelectTarget, AssignAndEnqueue, AssignRefused, Restart, vars,
           campaignVars
  <1>6. ASSUME NEW r \in Reader, ReadCampaign(r) \/ ReportFails(r)
        PROVE  cstatus' = cstatus
    BY <1>6 DEF ReadCampaign, ReportFails, campaignVars
  <1>7. ASSUME NEW h \in Handler, RegisterReply(h), ~ReplyCommit(h)
        PROVE  cstatus' = cstatus
    BY <1>7 DEF RegisterReply, ReplyUpdate, ReplyCount, ReplyRollback, campaignVars
  <1> QED BY <1>1, <1>2, <1>3, <1>4, <1>5, <1>6, <1>7 DEF Next, Report

\* A stopped campaign stays stopped, whatever the scheduler listed before.
THEOREM StopSticksHolds == Spec => StopSticks
  <1>1. TypeInv /\ [Next]_vars =>
          [cstatus = "stopped" /\ cstatus' # "stopped"
             => \/ cstatus' = "completed"
                \/ \E r \in Reader : /\ copy[r] # NoRow /\ copy'[r] = NoRow
                                     /\ copy[r].status = cstatus']_vars
    BY StopStep
  <1> QED BY <1>1, TypeInvariant, PTL DEF Spec, StopSticks

-----------------------------------------------------------------------------
(* Completion.                                                             *)

\* Everything from which a campaign may be completed knows of the replies: the
\* rows, the copies of a report and the count of a transaction.
RepliedInv ==
  /\ \A t \in Target : tstatus[t] = "replied" => t \in replied
  /\ \A h \in Handler : reply[h].step = "counted" /\ reply[h].all =>
       Target \subseteq replied \cup {reply[h].target}
  /\ \A r \in Reader :
       copy[r] # NoRow /\ copy[r].status = "completed" => replied = Target
  /\ cstatus = "completed" => replied = Target

\* The replied targets only grow, and hold those that become replied.
LEMMA RepliedGrows ==
  ASSUME TypeInv, NoteReplied
  PROVE  /\ replied \subseteq replied'
         /\ replied = Target => replied' = Target
         /\ \A t \in Target : tstatus'[t] = "replied" => t \in replied'
  BY DEF NoteReplied, TypeInv, TypeOK

\* Every step keeps it.
LEMMA RepliedStep ==
  ASSUME TypeInv, RepliedInv, [Next]_vars
  PROVE  RepliedInv'
  <1>1. ASSUME UNCHANGED <<cstatus, tstatus, reply, copy, replied>>
        PROVE  RepliedInv'
    BY <1>1 DEF RepliedInv
  <1>2. CASE Scheduler
    BY <1>2 DEF Scheduler, TimeToStartReached, ListReady, StartCampaign,
                StartFails, RepliedInv, localVars, targetVars, campaignVars, observed
  <1>3. CASE StopCampaign
    BY <1>3 DEF StopCampaign, RepliedInv, localVars, observed, targetVars
  <1>4. ASSUME NEW r \in Reader, Report(r) PROVE RepliedInv'
    <2>1. CASE ReadCampaign(r)
      BY <2>1 DEF ReadCampaign, RepliedInv, TypeInv, TypeOK, campaignVars,
                  targetVars, observed
    <2>2. CASE WriteCampaign(r)
      BY <2>2 DEF WriteCampaign, RepliedInv, TypeInv, TypeOK, targetVars
    <2>3. CASE ReportFails(r)
      BY <2>3 DEF ReportFails, RepliedInv, TypeInv, TypeOK, campaignVars,
                  targetVars, observed
    <2> QED BY <1>4, <2>1, <2>2, <2>3 DEF Report
  <1>5. CASE Doser
    <2>1. CASE AssignAndEnqueue
      BY <2>1 DEF AssignAndEnqueue, RepliedInv, TypeInv, TypeOK, campaignVars
    <2> QED BY <1>1, <1>5, <2>1 DEF Doser, SelectTarget, AssignRefused,
                                    campaignVars, targetVars, observed
  <1>6. ASSUME NEW t \in Target, NEW o \in WorkerOutcome,
               ApplyResult(t, o) \/ WorkerCallback(t, o)
        PROVE  RepliedInv'
    <2>1. NoteReplied /\ UNCHANGED <<cstatus, reply, copy>>
      BY <1>6 DEF ApplyResult, WorkerCallback, localVars
    <2> QED BY <2>1, RepliedGrows DEF RepliedInv
  <1>7. ASSUME NEW h \in Handler, ReplyUpdate(h, reply'[h].target)
        PROVE  RepliedInv'
    BY <1>7 DEF ReplyUpdate, RepliedInv, TypeInv, TypeOK, campaignVars, targetVars
  <1>8. ASSUME NEW h \in Handler, ReplyCount(h) PROVE RepliedInv'
    <2>1. SeenReplied(h) \subseteq replied \cup {reply[h].target}
      BY DEF SeenReplied, RepliedInv
    <2>2. /\ reply'[h].all => Target \subseteq replied \cup {reply'[h].target}
          /\ \A g \in Handler : g # h => reply'[g] = reply[g]
      BY <1>8, <2>1 DEF ReplyCount, TypeInv, TypeOK, ReplyTx
    <2> QED BY <1>8, <2>2 DEF ReplyCount, RepliedInv, campaignVars, targetVars,
                              observed
  <1>9. ASSUME NEW h \in Handler, ReplyCommit(h) PROVE RepliedInv'
    <2>1. /\ tstatus'[reply[h].target] = "replied"
          /\ reply[h].target \in Target
      BY <1>9 DEF ReplyCommit, TypeInv, TypeOK, ReplyOK
    <2>2. /\ replied \subseteq replied' /\ reply[h].target \in replied'
          /\ replied' \subseteq Target
          /\ \A t \in Target : tstatus'[t] = "replied" => t \in replied'
      BY <1>9, <2>1 DEF ReplyCommit, NoteReplied, TypeInv, TypeOK
    <2>3. reply[h].all => replied' = Target
      BY <1>9, <2>2 DEF ReplyCommit, RepliedInv
    <2>4. \A g \in Handler : reply'[g].step = "counted" => g # h /\ reply'[g] = reply[g]
      BY <1>9 DEF ReplyCommit, NoReply, TypeInv, TypeOK
    <2>5. replied = Target => replied' = Target
      BY <2>2
    <2> QED BY <1>9, <2>2, <2>3, <2>4, <2>5 DEF ReplyCommit, RepliedInv
  <1>10. ASSUME NEW h \in Handler, ReplyRollback(h) PROVE RepliedInv'
    BY <1>10 DEF ReplyRollback, RepliedInv, NoReply, TypeInv, TypeOK,
                 campaignVars, targetVars, observed
  <1>11. CASE Restart
    BY <1>11 DEF Restart, RepliedInv, NoReply, campaignVars, targetVars, observed
  <1>12. CASE UNCHANGED vars
    BY <1>1, <1>12 DEF vars, campaignVars, targetVars, localVars, observed
  <1>13. ASSUME NEW h \in Handler, NEW t \in Target, ReplyUpdate(h, t)
         PROVE  RepliedInv'
    <2>1. reply'[h].target = t
      BY <1>13 DEF ReplyUpdate, TypeInv, TypeOK
    <2> QED BY <1>7, <1>13, <2>1
  <1> QED BY <1>2, <1>3, <1>4, <1>5, <1>6, <1>8, <1>9, <1>10, <1>11, <1>12, <1>13
          DEF Next, RegisterReply

\* Replies that overlap, targets that fail later and reports that write an old
\* row back: a completed campaign was answered by all of its targets.
THEOREM CompletedMeansRepliedHolds == Spec => []CompletedMeansReplied
  <1>1. Init => RepliedInv
    BY DEF Init, RepliedInv, NoReply
  <1>2. TypeInv /\ RepliedInv /\ [Next]_vars => RepliedInv'
    BY RepliedStep
  <1>3. RepliedInv => CompletedMeansReplied
    BY DEF RepliedInv, CompletedMeansReplied
  <1> QED BY <1>1, <1>2, <1>3, TypeInvariant, PTL DEF Spec

-----------------------------------------------------------------------------
(* Progress.                                                               *)

Delivered == {t \in Target : tstatus[t] = "delivered"}

CountInv == ~stale => Cardinality(Delivered) <= processed

\* A set that gains no more than it counts keeps its bound.
LEMMA CountKept ==
  ASSUME TypeInv, TypeInv', CountInv, NEW t \in Target, stale' = stale,
         \/ Delivered' \subseteq Delivered /\ processed <= processed'
         \/ Delivered' \subseteq Delivered \cup {t} /\ processed' = processed + 1
  PROVE  CountInv'
  <1> USE DEF TypeInv, TypeOK
  <1>1. IsFiniteSet(Delivered) /\ IsFiniteSet(Delivered \cup {t})
    BY TargetAssumption, FS_Subset, FS_AddElement DEF Delivered
  <1>2. processed \in Nat /\ processed' \in Nat /\ Cardinality(Delivered) \in Nat
    BY <1>1, BoundAssumption, FS_CardinalityType
  <1>3. CASE Delivered' \subseteq Delivered /\ processed <= processed'
    <2>1. Cardinality(Delivered') <= Cardinality(Delivered)
      BY <1>1, <1>3, FS_Subset
    <2>2. Cardinality(Delivered') \in Nat
      BY <1>1, <1>3, FS_Subset, FS_CardinalityType
    <2> QED BY <1>2, <1>3, <2>1, <2>2 DEF CountInv
  <1>4. CASE Delivered' \subseteq Delivered \cup {t} /\ processed' = processed + 1
    <2>1. /\ Cardinality(Delivered') <= Cardinality(Delivered \cup {t})
          /\ IsFiniteSet(Delivered')
      BY <1>1, <1>4, FS_Subset
    <2>2. Cardinality(Delivered \cup {t}) <= Cardinality(Delivered) + 1
      BY <1>1, <1>2, FS_AddElement
    <2>3. Cardinality(Delivered') \in Nat /\ Cardinality(Delivered \cup {t}) \in Nat
      BY <1>1, <2>1, FS_CardinalityType
    <2>4. Cardinality(Delivered') <= processed + 1 \/ stale
      BY <1>2, <2>1, <2>2, <2>3 DEF CountInv
    <2> QED BY <1>4, <2>4 DEF CountInv
  <1> QED BY <1>3, <1>4

\* Every step keeps the bound.
LEMMA CountStep ==
  ASSUME TypeInv, TypeInv', CountInv, [Next]_vars
  PROVE  CountInv'
  <1> USE DEF TypeInv, TypeOK
  <1>1. ASSUME UNCHANGED <<tstatus, processed, stale>> PROVE CountInv'
    BY <1>1 DEF CountInv, Delivered
  <1>2. CASE Scheduler \/ StopCampaign
    BY <1>1, <1>2
       DEF Scheduler, TimeToStartReached, ListReady, StartCampaign, StartFails,
           StopCampaign, campaignVars, targetVars, observed
  <1>3. ASSUME NEW r \in Reader, Report(r) PROVE CountInv'
    <2>1. CASE WriteCampaign(r)
      <3>1. CASE stale \/ copy[r] # [status |-> cstatus, processed |-> processed]
        <4>1. stale'
          BY <2>1, <3>1 DEF WriteCampaign
        <4> QED BY <4>1 DEF CountInv
      <3>2. CASE copy[r] = [status |-> cstatus, processed |-> processed] /\ ~stale
        <4>1. processed' = processed /\ Delivered' = Delivered
          BY <2>1, <3>2 DEF WriteCampaign, targetVars, Delivered
        <4> QED BY <3>2, <4>1 DEF CountInv
      <3> QED BY <3>1, <3>2
    <2> QED BY <1>1, <1>3, <2>1 DEF Report, ReadCampaign, ReportFails,
                                    campaignVars, targetVars, observed
  <1>4. CASE Doser
    <2>1. CASE AssignAndEnqueue
      <3>1. selected \in Target
        BY <2>1 DEF AssignAndEnqueue
      <3>2. Delivered' \subseteq Delivered /\ processed' = processed /\ stale' = stale
        BY <2>1 DEF AssignAndEnqueue, Delivered, campaignVars
      <3>3. processed <= processed'
        BY <3>2, BoundAssumption
      <3> QED BY <3>1, <3>2, <3>3, CountKept
    <2> QED BY <1>1, <1>4, <2>1 DEF Doser, SelectTarget, AssignRefused,
                                    campaignVars, targetVars, observed
  <1>5. ASSUME NEW t \in Target, NEW o \in WorkerOutcome,
               ApplyResult(t, o) \/ WorkerCallback(t, o)
        PROVE  CountInv'
    <2>1. /\ stale' = stale
          /\ \A u \in Target : u # t => tstatus'[u] = tstatus[u]
      BY <1>5 DEF ApplyResult, WorkerCallback
    <2>2. o.status \in TaskStatus /\ o.code \in ErrorCode
      BY OutcomeAssumption DEF Outcome
    <2>3. ASSUME tstatus'[t] = "delivered", tstatus[t] # "delivered"
          PROVE  processed' = processed + 1
      <3>1. CASE ApplyResult(t, o)
        <4>1. StatusAfterResult(tstatus[t], attempt[t], MaxRetryAttempts, o)
                = "delivered"
          BY <2>3, <3>1 DEF ApplyResult
        <4>2. WriterOfResult(o) = "update" /\ o.status = "delivered"
          BY <2>2, <2>3, <4>1, ResultReached
        <4> QED BY <2>3, <3>1, <4>2 DEF ApplyResult, CountProgress, Counted
      <3>2. CASE WorkerCallback(t, o)
        <4>1. StatusAfterCallback(tstatus[t], o) = "delivered"
          BY <2>3, <3>2 DEF WorkerCallback
        <4>2. o.status = "delivered"
          BY <2>3, <4>1, CallbackReached
        <4> QED BY <2>3, <3>2, <4>2 DEF WorkerCallback, CountProgress, Counted
      <3> QED BY <1>5, <3>1, <3>2
    <2>4. processed' \in {processed, processed + 1}
      BY <1>5 DEF ApplyResult, WorkerCallback, CountProgress
    <2>5. processed <= processed'
      BY <2>4, BoundAssumption
    <2>6. CASE tstatus'[t] = "delivered" /\ tstatus[t] # "delivered"
      <3>1. Delivered' \subseteq Delivered \cup {t}
        BY <2>1 DEF Delivered
      <3> QED BY <2>1, <2>3, <2>6, <3>1, CountKept
    <2>7. CASE ~(tstatus'[t] = "delivered" /\ tstatus[t] # "delivered")
      <3>1. Delivered' \subseteq Delivered
        BY <2>1, <2>7 DEF Delivered
      <3> QED BY <2>1, <2>5, <3>1, CountKept
    <2> QED BY <2>6, <2>7
  <1>6. ASSUME NEW h \in Handler, RegisterReply(h) PROVE CountInv'
    <2>1. CASE ReplyCommit(h)
      <3>1. reply[h].target \in Target
        BY <2>1 DEF ReplyCommit, ReplyOK
      <3>2. Delivered' \subseteq Delivered /\ processed' = processed /\ stale' = stale
        BY <2>1 DEF ReplyCommit, Delivered
      <3>3. processed <= processed'
        BY <3>2, BoundAssumption
      <3> QED BY <3>1, <3>2, <3>3, CountKept
    <2> QED BY <1>1, <1>6, <2>1
            DEF RegisterReply, ReplyUpdate, ReplyCount, ReplyRollback,
                campaignVars, targetVars, observed
  <1>7. CASE Restart \/ UNCHANGED vars
    BY <1>1, <1>7 DEF Restart, vars, campaignVars, targetVars, observed
  <1> QED BY <1>2, <1>3, <1>4, <1>5, <1>6, <1>7 DEF Next

\* Every delivered target was counted, unless a report wrote an old count
\* back: also when the status was reached through errors and retries.
THEOREM ProgressCountedHolds == Spec => []ProgressCounted
  <1>1. Init => CountInv
    <2> SUFFICES ASSUME Init PROVE CountInv
      OBVIOUS
    <2>1. Delivered = {}
      BY DEF Init, Delivered
    <2>2. Cardinality(Delivered) = 0
      BY <2>1, FS_EmptySet
    <2> QED BY <2>2 DEF Init, CountInv
  <1>2. TypeInv /\ TypeInv' /\ CountInv /\ [Next]_vars => CountInv'
    BY CountStep
  <1>3. CountInv => ProgressCounted
    BY DEF CountInv, Delivered, ProgressCounted
  <1> QED BY <1>1, <1>2, <1>3, TypeInvariant, PTL DEF Spec

-----------------------------------------------------------------------------
(* The last reply.                                                         *)

\* A result or a callback makes a target replied, and RegisterReply does not
\* come to know.
RepliedUnregistered ==
  \E t \in Target, o \in WorkerOutcome :
    /\ ApplyResult(t, o) \/ WorkerCallback(t, o)
    /\ tstatus[t] # "replied" /\ tstatus'[t] = "replied"

\* No worker or callback reports "replied".
RepliesRegisteredOnly == \A o \in WorkerOutcome : o.status # "replied"

Active(h) == reply[h].step # "idle"

AllReplied == \A t \in Target : tstatus[t] = "replied"

\* As long as no two transactions overlapped, the one that is open knows
\* whether it answers the last target, and nobody else answers another.
AloneInv ==
  ~overlap =>
    /\ \A g, h \in Handler : Active(g) /\ Active(h) => g = h
    /\ \A h \in Handler : reply[h].step = "counted" /\ ~reply[h].all =>
         \E t \in Target \ {reply[h].target} : tstatus[t] # "replied"

CompletedInv ==
  ~overlap /\ ~stale /\ AllReplied => cstatus \in {"completed", "stopped"}

LastReplyInv == AloneInv /\ CompletedInv

\* A report that does not say replied does not make a target replied.
LEMMA OnlyRepliesReply ==
  ASSUME RepliesRegisteredOnly, TypeInv
  PROVE  ~RepliedUnregistered
  <1> USE DEF TypeInv, TypeOK
  <1> SUFFICES ASSUME NEW t \in Target, NEW o \in WorkerOutcome,
                      ApplyResult(t, o) \/ WorkerCallback(t, o),
                      tstatus'[t] = "replied", tstatus[t] # "replied"
               PROVE  FALSE
    BY DEF RepliedUnregistered
  <1>1. o.status \in TaskStatus /\ o.code \in ErrorCode /\ o.status # "replied"
    BY OutcomeAssumption DEF Outcome, RepliesRegisteredOnly
  <1>2. \/ StatusAfterResult(tstatus[t], attempt[t], MaxRetryAttempts, o)
             = "replied"
        \/ StatusAfterCallback(tstatus[t], o) = "replied"
    BY DEF ApplyResult, WorkerCallback
  <1> QED BY <1>1, <1>2, ResultReached, CallbackReached

\* A step that only takes replies away keeps everything.
LEMMA LastReplyKept ==
  ASSUME LastReplyInv, UNCHANGED <<reply, overlap>>,
         \A u \in Target : tstatus'[u] = "replied" => tstatus[u] = "replied",
         \/ cstatus' \in {"completed", "stopped"}
         \/ UNCHANGED <<cstatus, stale>>
         \/ stale'
         \/ cstatus = "draft" /\ stale' = stale
  PROVE  LastReplyInv'
  <1>1. AloneInv'
    BY DEF LastReplyInv, AloneInv, Active
  <1>2. AllReplied' => AllReplied
    BY DEF AllReplied
  <1>3. CompletedInv'
    BY <1>2 DEF LastReplyInv, CompletedInv
  <1> QED BY <1>1, <1>3 DEF LastReplyInv

\* The statements of a reply transaction.
LEMMA LastReplyOfHandler ==
  ASSUME TypeInv, LastReplyInv, NEW h \in Handler, RegisterReply(h)
  PROVE  LastReplyInv'
  <1> USE DEF TypeInv, TypeOK
  <1>1. ASSUME UNCHANGED <<cstatus, stale, tstatus>>, ~overlap' => ~overlap
        PROVE  CompletedInv'
    BY <1>1 DEF LastReplyInv, CompletedInv, AllReplied
  <1>2. ASSUME NEW t \in Target, ReplyUpdate(h, t) PROVE LastReplyInv'
    <2>1. \A g \in Handler : g # h => reply'[g] = reply[g]
      BY <1>2 DEF ReplyUpdate
    <2>2. reply'[h].step = "updated"
      BY <1>2 DEF ReplyUpdate
    <2>3. CASE overlap \/ \E g \in Handler : Active(g)
      <3>1. overlap'
        BY <1>2, <2>3 DEF ReplyUpdate, Active
      <3> QED BY <3>1 DEF LastReplyInv, AloneInv, CompletedInv
    <2>4. CASE ~overlap /\ \A g \in Handler : ~Active(g)
      <3>1. ~overlap' /\ tstatus' = tstatus /\ cstatus' = cstatus /\ stale' = stale
        BY <1>2, <2>4 DEF ReplyUpdate, Active, campaignVars, targetVars
      <3>2. AloneInv'
        BY <2>1, <2>2, <2>4 DEF AloneInv, Active
      <3> QED BY <1>1, <2>4, <3>1, <3>2 DEF LastReplyInv
    <2> QED BY <2>3, <2>4
  <1>3. CASE ReplyCount(h)
    <2>1. /\ UNCHANGED <<cstatus, stale, tstatus, overlap>>
          /\ \A g \in Handler : g # h => reply'[g] = reply[g]
      BY <1>3 DEF ReplyCount, campaignVars, targetVars, observed
    <2>2. /\ reply'[h].target = reply[h].target
          /\ Active(h)
          /\ reply'[h].all = (SeenReplied(h) = Target)
          /\ reply[h].target \in Target
      BY <1>3 DEF ReplyCount, Active, ReplyTx, ReplyOK
    <2>3. ~reply'[h].all =>
            \E t \in Target \ {reply'[h].target} : tstatus'[t] # "replied"
      BY <2>1, <2>2 DEF SeenReplied
    <2>4. AloneInv'
      <3>1. ASSUME ~overlap', NEW f \in Handler, NEW g \in Handler,
                   Active(f)', Active(g)'
            PROVE  f = g
        <4>1. Active(f) /\ Active(g)
          BY <2>1, <2>2, <3>1 DEF Active
        <4> QED BY <2>1, <3>1, <4>1 DEF LastReplyInv, AloneInv
      <3>2. ASSUME ~overlap', NEW g \in Handler, reply'[g].step = "counted",
                   ~reply'[g].all
            PROVE  \E t \in Target \ {reply'[g].target} : tstatus'[t] # "replied"
        <4>1. CASE g = h
          BY <2>3, <3>2, <4>1
        <4>2. CASE g # h
          BY <2>1, <3>2, <4>2 DEF LastReplyInv, AloneInv
        <4> QED BY <4>1, <4>2
      <3> QED BY <3>1, <3>2 DEF AloneInv
    <2> QED BY <1>1, <2>1, <2>4 DEF LastReplyInv
  <1>4. CASE ReplyCommit(h)
    <2>1. /\ UNCHANGED <<stale, overlap>>
          /\ reply'[h].step = "idle"
          /\ \A g \in Handler : g # h => reply'[g] = reply[g]
          /\ reply[h].target \in Target
          /\ \A t \in Target : t # reply[h].target => tstatus'[t] = tstatus[t]
          /\ Active(h) /\ reply[h].step = "counted"
      BY <1>4 DEF ReplyCommit, NoReply, ReplyOK, Active
    <2>2. AloneInv'
      BY <2>1 DEF LastReplyInv, AloneInv, Active
    <2>3. ASSUME ~overlap', ~stale', AllReplied' PROVE cstatus' = "completed"
      <3>1. reply[h].all
        BY <2>1, <2>3 DEF LastReplyInv, AloneInv, AllReplied
      <3> QED BY <1>4, <3>1 DEF ReplyCommit
    <2> QED BY <2>2, <2>3 DEF LastReplyInv, CompletedInv
  <1>5. CASE ReplyRollback(h)
    <2>1. /\ UNCHANGED <<cstatus, stale, tstatus, overlap>>
          /\ reply'[h].step = "idle"
          /\ \A g \in Handler : g # h => reply'[g] = reply[g]
      BY <1>5 DEF ReplyRollback, NoReply, campaignVars, targetVars, observed
    <2>2. AloneInv'
      BY <2>1 DEF LastReplyInv, AloneInv, Active
    <2> QED BY <1>1, <2>1, <2>2 DEF LastReplyInv
  <1> QED BY <1>2, <1>3, <1>4, <1>5 DEF RegisterReply

\* Every step keeps it.
LEMMA LastReplyStep ==
  ASSUME TypeInv, LastReplyInv, [Next]_vars, [~RepliedUnregistered]_vars
  PROVE  LastReplyInv'
  <1> USE DEF TypeInv, TypeOK
  <1>1. CASE Scheduler \/ StopCampaign
    BY <1>1, LastReplyKept
       DEF Scheduler, TimeToStartReached, ListReady, StartCampaign, StartFails,
           StopCampaign, campaignVars, targetVars, localVars, observed
  <1>2. ASSUME NEW r \in Reader, Report(r) PROVE LastReplyInv'
    <2>1. CASE WriteCampaign(r)
      <3>1. UNCHANGED <<reply, overlap, tstatus>>
        BY <2>1 DEF WriteCampaign, targetVars
      <3>2. CASE stale \/ copy[r] # [status |-> cstatus, processed |-> processed]
        <4>1. stale'
          BY <2>1, <3>2 DEF WriteCampaign
        <4> QED BY <3>1, <4>1, LastReplyKept
      <3>3. CASE copy[r] = [status |-> cstatus, processed |-> processed] /\ ~stale
        <4>1. cstatus' = cstatus /\ (stale' <=> stale)
          BY <2>1, <3>3 DEF WriteCampaign
        <4>2. stale' = stale
          BY <2>1, <3>3 DEF WriteCampaign
        <4> QED BY <3>1, <4>1, <4>2, LastReplyKept
      <3> QED BY <3>2, <3>3
    <2> QED BY <1>2, <2>1, LastReplyKept
            DEF Report, ReadCampaign, ReportFails, campaignVars, targetVars, observed
  <1>3. CASE Doser
    BY <1>3, LastReplyKept
       DEF Doser, SelectTarget, AssignAndEnqueue, AssignRefused, campaignVars,
           targetVars, observed
  <1>4. ASSUME NEW t \in Target, NEW o \in WorkerOutcome,
               ApplyResult(t, o) \/ WorkerCallback(t, o)
        PROVE  LastReplyInv'
    <2>1. UNCHANGED <<cstatus, stale, reply, overlap>>
      BY <1>4 DEF ApplyResult, WorkerCallback, localVars
    <2>2. \A u \in Target : u # t => tstatus'[u] = tstatus[u]
      BY <1>4 DEF ApplyResult, WorkerCallback
    <2>3. RepliedUnregistered => UNCHANGED tstatus
      BY DEF vars, targetVars
    <2>4. tstatus'[t] = "replied" => tstatus[t] = "replied"
      BY <1>4, <2>3 DEF RepliedUnregistered
    <2> QED BY <2>1, <2>2, <2>4, LastReplyKept
  <1>5. ASSUME NEW h \in Handler, RegisterReply(h) PROVE LastReplyInv'
    BY <1>5, LastReplyOfHandler
  <1>6. CASE Restart
    BY <1>6 DEF Restart, LastReplyInv, AloneInv, CompletedInv, AllReplied, Active,
                NoReply, campaignVars, targetVars, observed
  <1>7. CASE UNCHANGED vars
    BY <1>7, LastReplyKept DEF vars, campaignVars, targetVars, localVars, observed
  <1> QED BY <1>1, <1>2, <1>3, <1>4, <1>5, <1>6, <1>7 DEF Next

\* A campaign whose replies were registered, and one after the other, is
\* completed by the last of them, unless it is stopped.
THEOREM CompletedWithoutOverlapHolds ==
  Target # {} =>
    (Spec /\ [][~RepliedUnregistered]_vars => []CompletedWithoutOverlap)
  <1> SUFFICES ASSUME Target # {}
               PROVE  Spec /\ [][~RepliedUnregistered]_vars
                        => []CompletedWithoutOverlap
    OBVIOUS
  <1>1. Init => LastReplyInv
    BY DEF Init, LastReplyInv, AloneInv, CompletedInv, AllReplied, Active, NoReply
  <1>2. TypeInv /\ LastReplyInv /\ [Next]_vars /\ [~RepliedUnregistered]_vars
          => LastReplyInv'
    BY LastReplyStep
  <1>3. LastReplyInv => CompletedWithoutOverlap
    BY DEF LastReplyInv, CompletedInv, AllReplied, CompletedWithoutOverlap, Answered
  <1> QED BY <1>1, <1>2, <1>3, TypeInvariant, PTL DEF Spec

\* Workers and callbacks that never report replied are enough for that.
THEOREM RepliesRegisteredSuffices ==
  RepliesRegisteredOnly => (Spec => [][~RepliedUnregistered]_vars)
  <1> SUFFICES ASSUME RepliesRegisteredOnly
               PROVE  Spec => [][~RepliedUnregistered]_vars
    OBVIOUS
  <1>1. TypeInv => [~RepliedUnregistered]_vars
    BY OnlyRepliesReply
  <1> QED BY <1>1, TypeInvariant, PTL

-----------------------------------------------------------------------------
(* Every target keeps what TargetLifecycle promises.                       *)

\* A report that says "pending", or a callback that asks for a retry and is not
\* left to the result consumer: these write the row without looking at the
\* budget.
Reopens ==
  \E t \in Target, o \in WorkerOutcome :
    \/ ApplyResult(t, o) /\ o.status = "pending"
    \/ WorkerCallback(t, o) /\ o.status \in Open

NeverReopens ==
  \A o \in WorkerOutcome :
    o.status # "pending" /\ (o.status \in Open => CallbackDeferred(o))

BudgetInv ==
  \A t \in Target :
    /\ attempt[t] <= MaxRetryAttempts
    /\ tstatus[t] = "retry_pending" => attempt[t] < MaxRetryAttempts

PhaseMap == [t \in Target |-> Phase(tstatus[t], attempt[t])]

Enqueued == UNION {[target : {t}, attempt : 1..attempt[t]] : t \in Target}

\* A step as a target sees it: it is claimed ...
ClaimOf(t) ==
  /\ Eligible(t)
  /\ tstatus' = [tstatus EXCEPT ![t] = "pending"]
  /\ attempt' = [attempt EXCEPT ![t] = @ + 1]

\* ... or a dosed one gets a status that does not reopen it.
WriteOf(t, new) ==
  /\ attempt[t] > 0
  /\ \/ new = tstatus[t]
     \/ new \notin Open
     \/ /\ tstatus[t] = "pending" /\ new = "retry_pending"
        /\ attempt[t] < MaxRetryAttempts
  /\ tstatus' = [tstatus EXCEPT ![t] = new]
  /\ attempt' = attempt

StatusStep ==
  \/ UNCHANGED targetVars
  \/ \E t \in Target : ClaimOf(t) \/ \E new \in TaskStatus : WriteOf(t, new)

\* An open reply transaction is of a dosed target.
DosedInv == \A h \in Handler : Active(h) => attempt[reply[h].target] > 0

\* Attempts never go back, so it stays one.
LEMMA DosedStep ==
  ASSUME TypeInv, DosedInv, [Next]_vars
  PROVE  DosedInv'
  <1> USE DEF TypeInv, TypeOK
  <1>1. ASSUME NEW t \in Target, attempt[t] > 0 PROVE attempt'[t] > 0
    <2>1. CASE AssignAndEnqueue
      BY <1>1, <2>1 DEF AssignAndEnqueue
    <2>2. CASE ~AssignAndEnqueue
      <3>1. attempt' = attempt
        BY <2>2 DEF Next, Scheduler, TimeToStartReached, ListReady, StartCampaign,
             StartFails, StopCampaign, Report, ReadCampaign, WriteCampaign,
             ReportFails, Doser, SelectTarget, AssignRefused, ApplyResult,
             WorkerCallback, RegisterReply, ReplyUpdate, ReplyCount, ReplyCommit,
             ReplyRollback, Restart, vars, targetVars
      <3> QED BY <1>1, <3>1
    <2> QED BY <2>1, <2>2
  <1>2. ASSUME NEW h \in Handler, NEW g \in Handler, RegisterReply(h), Active(g)'
        PROVE  \/ Active(g) /\ reply'[g].target = reply[g].target
               \/ attempt[reply'[g].target] > 0 /\ reply'[g].target \in Target
    <2>1. ASSUME NEW t \in Target, ReplyUpdate(h, t)
          PROVE  \/ Active(g) /\ reply'[g].target = reply[g].target
                 \/ attempt[reply'[g].target] > 0 /\ reply'[g].target \in Target
      BY <1>2, <2>1 DEF ReplyUpdate, Active
    <2>2. CASE ReplyCount(h)
      BY <1>2, <2>2 DEF ReplyCount, Active, ReplyTx
    <2>3. CASE ReplyCommit(h) \/ ReplyRollback(h)
      BY <1>2, <2>3 DEF ReplyCommit, ReplyRollback, Active, NoReply
    <2> QED BY <1>2, <2>1, <2>2, <2>3 DEF RegisterReply
  <1>3. ASSUME \A h \in Handler : ~RegisterReply(h), NEW g \in Handler, Active(g)'
        PROVE  Active(g) /\ reply'[g].target = reply[g].target
    BY <1>3 DEF Next, Scheduler, TimeToStartReached, ListReady, StartCampaign,
         StartFails, StopCampaign, Report, ReadCampaign, WriteCampaign,
         ReportFails, Doser, SelectTarget, AssignAndEnqueue, AssignRefused,
         ApplyResult, WorkerCallback, Restart, vars, localVars, Active, NoReply
  <1>4. \A g \in Handler : Active(g) => reply[g].target \in Target
    BY DEF Active, ReplyOK
  <1>5. ASSUME NEW g \in Handler, Active(g)' PROVE attempt'[reply'[g].target] > 0
    <2>1. \/ Active(g) /\ reply'[g].target = reply[g].target
          \/ attempt[reply'[g].target] > 0 /\ reply'[g].target \in Target
      BY <1>2, <1>3, <1>5
    <2> QED BY <1>1, <1>4, <2>1 DEF DosedInv
  <1> QED BY <1>5 DEF DosedInv

\* Every step that reopens no target is one of these.
LEMMA StatusStepHolds ==
  ASSUME TypeInv, DosedInv, [Next]_vars, [~Reopens]_vars
  PROVE  StatusStep
  <1> USE DEF TypeInv, TypeOK
  <1>0. CASE UNCHANGED vars
    BY <1>0 DEF vars, StatusStep
  <1>1. CASE AssignAndEnqueue
    BY <1>1 DEF AssignAndEnqueue, StatusStep, ClaimOf
  <1>2. ASSUME NEW t \in Target, NEW o \in WorkerOutcome,
               ApplyResult(t, o) \/ WorkerCallback(t, o)
        PROVE  StatusStep
    <2> SUFFICES ASSUME ~Reopens PROVE StatusStep
      BY <1>0
    <2>1. /\ o.status \in TaskStatus /\ o.code \in ErrorCode
          /\ ApplyResult(t, o) => o.status # "pending"
          /\ WorkerCallback(t, o) => o.status \notin Open
      BY OutcomeAssumption DEF Outcome, Reopens
    <2>2. CASE ApplyResult(t, o)
      <3> DEFINE new == StatusAfterResult(tstatus[t], attempt[t], MaxRetryAttempts, o)
      <3>1. /\ new \in TaskStatus
            /\ \/ new = tstatus[t]
               \/ new \notin Open
               \/ /\ tstatus[t] = "pending" /\ new = "retry_pending"
                  /\ attempt[t] < MaxRetryAttempts
        BY <2>1, <2>2, ResultStatus, RetryAssumption
      <3>2. /\ attempt[t] > 0 /\ attempt' = attempt
            /\ tstatus' = [tstatus EXCEPT ![t] = new]
        BY <2>2 DEF ApplyResult
      <3>3. WriteOf(t, new)
        BY <3>1, <3>2 DEF WriteOf
      <3> QED BY <3>1, <3>3 DEF StatusStep
    <2>3. CASE WorkerCallback(t, o)
      <3> DEFINE new == StatusAfterCallback(tstatus[t], o)
      <3>1. /\ new \in TaskStatus
            /\ new = tstatus[t] \/ new \notin Open
        BY <2>1, <2>3, CallbackStatus
      <3>2. /\ attempt[t] > 0 /\ attempt' = attempt
            /\ tstatus' = [tstatus EXCEPT ![t] = new]
        BY <2>3 DEF WorkerCallback
      <3>3. WriteOf(t, new)
        BY <3>1, <3>2 DEF WriteOf
      <3> QED BY <3>1, <3>3 DEF StatusStep
    <2> QED BY <1>2, <2>2, <2>3
  <1>3. ASSUME NEW h \in Handler, ReplyCommit(h) PROVE StatusStep
    <2>1. reply[h].target \in Target /\ attempt[reply[h].target] > 0
      BY <1>3 DEF ReplyCommit, ReplyOK, DosedInv, Active
    <2>2. "replied" \in TaskStatus /\ "replied" \notin Open
      BY DEF TaskStatus, Open
    <2>3. WriteOf(reply[h].target, "replied")
      BY <1>3, <2>1, <2>2 DEF ReplyCommit, WriteOf
    <2> QED BY <2>1, <2>2, <2>3 DEF StatusStep
  <1>4. ASSUME NEW h \in Handler, RegisterReply(h), ~ReplyCommit(h)
        PROVE  UNCHANGED targetVars
    BY <1>4 DEF RegisterReply, ReplyUpdate, ReplyCount, ReplyRollback, targetVars
  <1>5. Scheduler \/ StopCampaign \/ Restart \/ UNCHANGED vars => UNCHANGED targetVars
    BY DEF Scheduler, TimeToStartReached, ListReady, StartCampaign, StartFails,
           StopCampaign, Restart, vars, targetVars
  <1>6. ASSUME NEW r \in Reader, Report(r) PROVE UNCHANGED targetVars
    BY <1>6 DEF Report, ReadCampaign, WriteCampaign, ReportFails, targetVars
  <1>7. Doser /\ ~AssignAndEnqueue => UNCHANGED targetVars
    BY DEF Doser, SelectTarget, AssignRefused, targetVars
  <1> QED BY <1>1, <1>2, <1>3, <1>4, <1>5, <1>6, <1>7 DEF Next, StatusStep

\* The budget lasts.
LEMMA BudgetStep ==
  ASSUME TypeInv, BudgetInv, StatusStep
  PROVE  BudgetInv'
  <1> USE DEF TypeInv, TypeOK
  <1>1. ASSUME NEW t \in Target, ClaimOf(t) PROVE BudgetInv'
    <2>1. attempt[t] + 1 <= MaxRetryAttempts
      BY <1>1, RetryAssumption DEF ClaimOf, Eligible, BudgetInv
    <2> QED BY <1>1, <2>1 DEF ClaimOf, BudgetInv
  <1>2. ASSUME NEW t \in Target, NEW new \in TaskStatus, WriteOf(t, new)
        PROVE  BudgetInv'
    BY <1>2 DEF WriteOf, BudgetInv, Open
  <1>3. CASE UNCHANGED targetVars
    BY <1>3 DEF targetVars, BudgetInv
  <1> QED BY <1>1, <1>2, <1>3 DEF StatusStep

\* What was ever enqueued, element by element.
LEMMA EnqueuedElements ==
  ASSUME NEW x
  PROVE  x \in Enqueued <=>
           \E t \in Target : \E k \in 1..attempt[t] : x = [target |-> t, attempt |-> k]
  <1>1. ASSUME NEW t \in Target
        PROVE  x \in [target : {t}, attempt : 1..attempt[t]] <=>
                 \E k \in 1..attempt[t] : x = [target |-> t, attempt |-> k]
    OBVIOUS
  <1> QED BY <1>1 DEF Enqueued

\* A claim is a dose.
LEMMA ClaimIsDose ==
  ASSUME TypeInv, BudgetInv, NEW t \in Target, ClaimOf(t)
  PROVE  Lifecycle!Dose(t)
  <1> USE DEF TypeInv, TypeOK
  <1>1. attempt[t] \in Nat /\ attempt[t] < MaxRetryAttempts
    BY RetryAssumption DEF ClaimOf, Eligible, BudgetInv
  <1>2. PhaseMap[t] \in {"waiting", "retry"}
    BY DEF ClaimOf, Eligible, PhaseMap, Phase
  <1>3. Phase("pending", attempt[t] + 1) = "in_flight"
    BY <1>1 DEF Phase
  <1>4. PhaseMap' = [PhaseMap EXCEPT ![t] = "in_flight"]
    BY <1>3 DEF ClaimOf, PhaseMap
  <1>5. attempt' = [attempt EXCEPT ![t] = attempt[t] + 1]
    BY DEF ClaimOf
  <1>6. Enqueued' = Enqueued \cup {[target |-> t, attempt |-> attempt[t] + 1]}
    <2>1. ASSUME NEW x
          PROVE  x \in Enqueued' <=>
                   \E u \in Target : \E k \in 1..attempt'[u] :
                     x = [target |-> u, attempt |-> k]
      <3>1. ASSUME NEW u \in Target
            PROVE  x \in [target : {u}, attempt : 1..attempt'[u]] <=>
                     \E k \in 1..attempt'[u] : x = [target |-> u, attempt |-> k]
        OBVIOUS
      <3> QED BY <3>1 DEF Enqueued
    <2>2. ASSUME NEW u \in Target
          PROVE  1..attempt'[u] = IF u = t THEN 1..attempt[u] \cup {attempt[t] + 1}
                                  ELSE 1..attempt[u]
      <3>1. attempt'[u] = IF u = t THEN attempt[t] + 1 ELSE attempt[u]
        BY <1>5
      <3>2. 1..(attempt[t] + 1) = 1..attempt[t] \cup {attempt[t] + 1}
        BY <1>1
      <3> QED BY <3>1, <3>2
    <2>3. ASSUME NEW x
          PROVE  x \in Enqueued' <=>
                   \/ x \in Enqueued
                   \/ x = [target |-> t, attempt |-> attempt[t] + 1]
      BY <2>1, <2>2, EnqueuedElements
    <2> QED BY <2>3
  <1> QED BY <1>1, <1>2, <1>4, <1>5, <1>6 DEF Lifecycle!Dose, PhaseMap, Enqueued

\* A write is a retry that is granted, a close, or nothing.
LEMMA WriteIsRetryOrClose ==
  ASSUME TypeInv, NEW t \in Target, NEW new \in TaskStatus, WriteOf(t, new)
  PROVE  \/ Lifecycle!GrantRetry(t)
         \/ Lifecycle!Close(t)
         \/ UNCHANGED targetVars
  <1> USE DEF TypeInv, TypeOK
  <1>1. PhaseMap' = [PhaseMap EXCEPT ![t] = Phase(new, attempt[t])]
    BY DEF WriteOf, PhaseMap
  <1>2. attempt' = attempt /\ Enqueued' = Enqueued
    BY DEF WriteOf, Enqueued
  <1>3. CASE new = tstatus[t]
    BY <1>3 DEF WriteOf, targetVars
  <1>4. CASE new \notin Open
    <2>1. Phase(new, attempt[t]) = "closed"
      BY <1>4 DEF Phase, Open
    <2> QED BY <1>1, <1>2, <2>1 DEF Lifecycle!Close, PhaseMap, Enqueued
  <1>5. CASE /\ tstatus[t] = "pending" /\ new = "retry_pending"
             /\ attempt[t] < MaxRetryAttempts
    <2>1. PhaseMap[t] = "in_flight" /\ Phase(new, attempt[t]) = "retry"
      BY <1>5 DEF WriteOf, PhaseMap, Phase
    <2> QED BY <1>1, <1>2, <1>5, <2>1 DEF Lifecycle!GrantRetry, PhaseMap, Enqueued
  <1> QED BY <1>3, <1>4, <1>5 DEF WriteOf

\* Every step of the campaign is a step of the promise, or invisible to it.
LEMMA LifecycleStep ==
  ASSUME TypeInv, BudgetInv, StatusStep
  PROVE  [Lifecycle!Next]_(Lifecycle!vars)
  <1>1. ASSUME NEW t \in Target, ClaimOf(t) PROVE Lifecycle!Next
    BY <1>1, ClaimIsDose DEF Lifecycle!Next
  <1>2. ASSUME UNCHANGED targetVars PROVE UNCHANGED Lifecycle!vars
    BY <1>2 DEF targetVars, Lifecycle!vars
  <1>3. ASSUME NEW t \in Target, NEW new \in TaskStatus, WriteOf(t, new)
        PROVE  [Lifecycle!Next]_(Lifecycle!vars)
    BY <1>2, <1>3, WriteIsRetryOrClose DEF Lifecycle!Next
  <1> QED BY <1>1, <1>2, <1>3 DEF StatusStep

\* The initial states correspond.
LEMMA LifecycleInit == Init => Lifecycle!Init
  <1> SUFFICES ASSUME Init PROVE Lifecycle!Init
    OBVIOUS
  <1>1. PhaseMap = [t \in Target |-> "waiting"]
    BY DEF Init, PhaseMap, Phase
  <1>2. Enqueued = {}
    BY EnqueuedElements DEF Init
  <1> QED BY <1>1, <1>2 DEF Init, PhaseMap, Enqueued, Lifecycle!Init

\* As long as no report reopens a target, stops, overlapping replies, restarts
\* and reports that write old rows back leave every target within the promise
\* of TargetLifecycle, for every budget of attempts.
THEOREM ImplementsLifecycleHolds ==
  Spec /\ [][~Reopens]_vars => ImplementsLifecycle
  <1>1. Init => BudgetInv /\ DosedInv
    BY RetryAssumption DEF Init, BudgetInv, DosedInv, Active, NoReply
  <1>2. /\ TypeInv /\ BudgetInv /\ DosedInv /\ [Next]_vars /\ [~Reopens]_vars
             => BudgetInv' /\ DosedInv' /\ [Lifecycle!Next]_(Lifecycle!vars)
    BY StatusStepHolds, BudgetStep, DosedStep, LifecycleStep
  <1> QED BY <1>1, <1>2, LifecycleInit, TypeInvariant, PTL
          DEF Spec, ImplementsLifecycle, Lifecycle!Spec

\* Workers that never report pending, nor an open status that the callback
\* does not defer, are enough for that.
THEOREM NeverReopensSuffices == NeverReopens => (Spec => [][~Reopens]_vars)
  <1> SUFFICES ASSUME NeverReopens PROVE Spec => [][~Reopens]_vars
    OBVIOUS
  <1>1. ~Reopens
    BY DEF NeverReopens, Reopens, WorkerCallback
  <1> QED BY <1>1, PTL
=============================================================================
