---------------------------- MODULE DosingProofs ----------------------------
(***************************************************************************)
(* Safety of Dosing for every set of targets and accounts, all limits,     *)
(* intervals and delays, every work window, day length and offset from     *)
(* UTC, and any number of ticks that are cut short.                        *)
(***************************************************************************)
EXTENDS Dosing, DomainProofs, FiniteSetTheorems, TLAPS

-----------------------------------------------------------------------------
(* Days.                                                                   *)

\* Dividing by the length of a day is monotone.
LEMMA DivMonotone ==
  ASSUME NEW m \in Nat, NEW n \in Nat, m <= n, NEW d \in Int, d > 0
  PROVE  m \div d \in Nat /\ m \div d <= n \div d
  OBVIOUS

\* The local and the UTC date of a time are days of the model.
LEMMA DayOf ==
  ASSUME NEW t \in 0..MaxTime
  PROVE  LocalDate(t) \in Day /\ UtcDate(t) \in Day
  <1>1. /\ t \in Nat /\ t + UtcOffset \in Nat /\ MaxTime + UtcOffset \in Nat
        /\ t <= t + UtcOffset /\ t + UtcOffset <= MaxTime + UtcOffset
        /\ t <= MaxTime + UtcOffset
        /\ DayLength \in Int /\ DayLength > 0
    BY ClockAssumption
  <1>2. LocalDate(t) \in Nat /\ LocalDate(t) <= LocalDate(MaxTime)
    BY <1>1, DivMonotone DEF LocalDate
  <1>3. UtcDate(t) \in Nat /\ UtcDate(t) <= LocalDate(MaxTime)
    BY <1>1, DivMonotone DEF LocalDate, UtcDate
  <1>4. LocalDate(MaxTime) \in Nat
    BY <1>1, DivMonotone DEF LocalDate
  <1> QED BY <1>2, <1>3, <1>4 DEF Day

-----------------------------------------------------------------------------
(* Type correctness.                                                       *)

\* The tick holds a target.
Picked == At("reserve") \/ At("assign") \/ At("count")

\* What the tick has read stays true until it dosed: only the doser writes
\* the usage and the quotas.
TickInv ==
  /\ At("listed") =>
       \A a \in tick.accounts : used[a][LocalDate(tick.at)] < DailyLimit[a]
  /\ At("reserve") \/ At("assign") =>
       used[tick.account][LocalDate(tick.at)] < DailyLimit[tick.account]
  /\ Picked => /\ LocalDate(tick.at) \in DOMAIN quota
               /\ tick.kind = "cold" => tick.interval \in ColdInterval
  /\ At("reserve") => tick.kind = "cold"
  /\ At("count") => tick.kind = "warm"

TypeInv == TypeOK /\ TickInv

\* Which record the tick is.
LEMMA TickType ==
  ASSUME TypeOK
  PROVE  /\ At("listed") => tick \in Listed
         /\ Picked => tick \in Chosen
         /\ tick # Idle => tick.at \in 0..MaxTime
         /\ tick # Idle => At("listed") \/ Picked
  BY DEF TypeOK, At, Picked, Listed, Chosen

\* GetOrCreateTenantDailyQuota adds the row of the day, if there is none.
LEMMA QuotaRow ==
  ASSUME TypeOK, NEW day \in Day, NEW limit \in LimitColdMin..LimitColdMax
  PROVE  LET q == WithQuota(day, limit) IN
         /\ DOMAIN q = DOMAIN quota \cup {day}
         /\ q \in [DOMAIN q -> Quota]
         /\ \A d \in DOMAIN quota : q[d] = quota[d]
         /\ day \notin DOMAIN quota =>
              q[day] = [limit |-> limit, cold |-> 0, warm |-> 0, last |-> Never]
  <1>1. CASE day \in DOMAIN quota
    <2>1. WithQuota(day, limit) = quota /\ DOMAIN quota = DOMAIN quota \cup {day}
      BY <1>1 DEF WithQuota
    <2> QED BY <1>1, <2>1 DEF TypeOK
  <1>2. CASE day \notin DOMAIN quota
    <2>1. [limit |-> limit, cold |-> 0, warm |-> 0, last |-> Never] \in Quota
      BY DEF Quota
    <2> QED BY <1>2, <2>1 DEF WithQuota, TypeOK
  <1> QED BY <1>1, <1>2

\* The columns of a row, and the two statements that write them.
LEMMA QuotaWrite ==
  ASSUME NEW q \in Quota
  PROVE  /\ \A at \in 0..MaxTime :
              [q EXCEPT !.cold = q.cold + 1, !.last = at] \in Quota
         /\ [q EXCEPT !.warm = q.warm + 1] \in Quota
  <1>1. q.cold \in Nat /\ q.warm \in Nat
    BY DEF Quota
  <1>2. q.cold + 1 \in Nat /\ q.warm + 1 \in Nat
    BY <1>1
  <1> QED BY <1>2 DEF Quota

\* The initial state is typed.
LEMMA TypeInit == Init => TypeInv
  <1> SUFFICES ASSUME Init PROVE TypeInv
    OBVIOUS
  <1>1. "pending" \in TaskStatus /\ now \in 0..MaxTime /\ faults \in 0..MaxFaults
    BY ClockAssumption DEF Init, TaskStatus
  <1>2. DOMAIN quota = {} /\ quota \in [DOMAIN quota -> Quota]
    BY DEF Init
  <1>3. used \in [Account -> [Day -> Nat]]
    BY DEF Init
  <1>4. /\ status \in [Target -> TaskStatus] /\ attempt \in [Target -> Nat]
        /\ nextAttempt \in [Target -> Int] /\ outbox \subseteq Dose
        /\ contact \in [Target -> Account \cup {NoAccount}]
        /\ coolUntil \in [Account -> Nat] /\ since \in [Account -> Nat]
    BY <1>1 DEF Init
  <1>5. tick = Idle
    BY DEF Init
  <1> QED BY <1>1, <1>2, <1>3, <1>4, <1>5 DEF TypeInv, TypeOK, TickInv, At, Picked

\* The choice of a target.
LEMMA PickType ==
  ASSUME TypeInv, NEW t \in Target, ChooseWarm(t) \/ ChooseCold(t)
  PROVE  /\ TypeInv'
         /\ \E limit \in LimitColdMin..LimitColdMax :
              quota' = WithQuota(LocalDate(tick.at), limit)
         /\ \E a \in tick.accounts, i \in ColdInterval :
              \/ Choose("assign", "warm", t, a, 0)
              \/ Choose("reserve", "cold", t, a, i)
  <1>1. At("listed") /\ tick \in Listed /\ tick.accounts # {}
        /\ tick.accounts \subseteq Account
    BY TickType DEF TypeInv, ChooseWarm, ChooseCold, Listed
  <1>2. LocalDate(tick.at) \in Day
    BY <1>1, DayOf DEF Listed
  <1>3. PICK limit \in LimitColdMin..LimitColdMax :
          quota' = WithQuota(LocalDate(tick.at), limit)
    BY DEF ChooseWarm, ChooseCold
  <1>4. \A a \in PickAccount(t) : a \in tick.accounts
    BY DEF PickAccount
  <1>5. PICK a \in tick.accounts, i \in ColdInterval :
              \/ Choose("assign", "warm", t, a, 0)
              \/ Choose("reserve", "cold", t, a, i)
    <2>1. CASE ChooseWarm(t)
      BY <1>4, <2>1, LimitAssumption DEF ChooseWarm
    <2>2. CASE ChooseCold(t)
      BY <1>4, <2>2 DEF ChooseCold
    <2> QED BY <2>1, <2>2
  <1>6. /\ tick' \in Chosen /\ tick'.at = tick.at /\ tick'.account = a
        /\ tick'.step \in {"assign", "reserve"}
        /\ tick'.step = "reserve" => tick'.kind = "cold"
        /\ tick'.kind = "cold" => tick'.interval \in ColdInterval
    BY <1>1, <1>5 DEF Choose, Chosen, Listed
  <1>7. /\ DOMAIN quota' = DOMAIN quota \cup {LocalDate(tick.at)}
        /\ quota' \in [DOMAIN quota' -> Quota]
    BY <1>2, <1>3, QuotaRow DEF TypeInv
  <1>8. UNCHANGED <<now, targetVars, contact, accountVars, outbox, faults>>
    BY DEF ChooseWarm, ChooseCold
  <1>9. TypeOK'
    BY <1>2, <1>6, <1>7, <1>8 DEF TypeInv, TypeOK, targetVars, accountVars
  <1>10. TickInv'
    BY <1>1, <1>6, <1>7, <1>8 DEF TypeInv, TickInv, At, Picked, accountVars
  <1> QED BY <1>3, <1>5, <1>9, <1>10 DEF TypeInv

\* The other steps of doseTenant.
LEMMA TickStepType ==
  ASSUME TypeInv, ListAccounts \/ DeferRetryTargets \/ NothingToDose \/ TickCutShort
  PROVE  TypeInv'
  <1> USE DEF TypeInv
  <1>1. CASE ListAccounts
    <2>1. /\ tick' \in Listed /\ tick'.at = now
          /\ \A a \in tick'.accounts : used[a][LocalDate(now)] < DailyLimit[a]
          /\ UNCHANGED <<now, targetVars, contact, accountVars, quota, outbox, faults>>
      BY <1>1 DEF ListAccounts, Listed, TypeOK, Assignable
    <2>2. TypeOK'
      BY <2>1 DEF TypeOK, targetVars, accountVars
    <2> QED BY <2>1, <2>2 DEF TickInv, At, Picked, Listed, accountVars
  <1>2. CASE DeferRetryTargets
    <2>1. tick.at \in 0..MaxTime
      BY <1>2, TickType DEF DeferRetryTargets, At
    <2>2. LocalDate(tick.at) \in Int /\ DayLength \in Int
          /\ WorkWindowStart \in Int /\ UtcOffset \in Int /\ tick.at \in Int
      BY <2>1, DayOf, ClockAssumption DEF Day
    <2>3. LocalDate(tick.at) * DayLength \in Int
      BY <2>2
    <2>4. NextDayWorkStart(tick.at) \in Int
      BY <2>2, <2>3 DEF NextDayWorkStart
    <2>5. nextAttempt' \in [Target -> Int]
      BY <1>2, <2>4 DEF DeferRetryTargets, TypeOK
    <2> QED BY <1>2, <2>5 DEF DeferRetryTargets, TypeOK, TickInv, At, Picked,
                              accountVars
  <1>3. CASE NothingToDose
    <2>1. tick.at \in 0..MaxTime
      BY <1>3, TickType DEF NothingToDose, At
    <2>2. LocalDate(tick.at) \in Day
      BY <2>1, DayOf
    <2>3. PICK limit \in LimitColdMin..LimitColdMax :
            quota' = WithQuota(LocalDate(tick.at), limit)
      BY <1>3 DEF NothingToDose
    <2>4. /\ DOMAIN quota' = DOMAIN quota \cup {LocalDate(tick.at)}
          /\ quota' \in [DOMAIN quota' -> Quota]
      BY <2>2, <2>3, QuotaRow
    <2>5. tick' = Idle
          /\ UNCHANGED <<now, targetVars, contact, accountVars, outbox, faults>>
      BY <1>3 DEF NothingToDose
    <2> QED BY <2>2, <2>4, <2>5 DEF TypeOK, TickInv, At, Picked, targetVars,
                                    accountVars
  <1>4. CASE TickCutShort
    BY <1>4, ClockAssumption
       DEF TickCutShort, TypeOK, TickInv, At, Picked, targetVars, accountVars
  <1> QED BY <1>1, <1>2, <1>3, <1>4

\* What follows an assignment.
LEMMA AfterAssignTick ==
  ASSUME TypeInv, At("assign"), AfterAssign
  PROVE  \/ tick' = Idle /\ tick.kind = "cold"
         \/ /\ tick' \in Chosen /\ tick' = [tick EXCEPT !.step = "count"]
            /\ tick'.step = "count" /\ tick.kind = "warm" /\ tick'.kind = "warm"
            /\ tick'.at = tick.at /\ tick' # Idle
  <1>1. tick \in Chosen
    BY TickType DEF TypeInv, Picked
  <1> QED BY <1>1, IdleAssumption DEF AfterAssign, Chosen

\* scheduleTarget.
LEMMA ScheduleType ==
  ASSUME TypeInv,
         \/ TryReserveColdSlot
         \/ AssignAccountAndEnqueue \/ AssignNotEligible \/ AssignLimitExhausted
         \/ IncrementWarmUsed
  PROVE  TypeInv'
  <1> USE DEF TypeInv
  <1>1. Picked /\ tick \in Chosen /\ tick.at \in 0..MaxTime
        /\ tick.account \in Account /\ tick.target \in Target
        /\ LocalDate(tick.at) \in Day /\ UtcDate(tick.at) \in Day
    <2>1. Picked
      BY DEF TryReserveColdSlot, AssignAccountAndEnqueue, AssignNotEligible,
             AssignLimitExhausted, IncrementWarmUsed, Picked
    <2>2. tick \in Chosen
      BY <2>1, TickType
    <2> QED BY <2>1, <2>2, DayOf DEF Chosen
  <1>2. CASE TryReserveColdSlot
    <2> DEFINE day == LocalDate(tick.at)
               ok == quota[day].cold < quota[day].limit
                       /\ Paced(quota[day], tick.at, tick.interval)
    <2>1. day \in DOMAIN quota /\ quota[day] \in Quota
      BY <1>1 DEF TickInv, TypeOK
    <2>2. CASE ok
      <3>1. /\ quota' = [quota EXCEPT ![day].cold = @ + 1, ![day].last = tick.at]
            /\ tick' = [tick EXCEPT !.step = "assign"]
        BY <1>2, <2>2 DEF TryReserveColdSlot
      <3>2. [quota[day] EXCEPT !.cold = @ + 1, !.last = tick.at] \in Quota
        BY <1>1, <2>1, QuotaWrite
      <3>3. quota' \in [DOMAIN quota -> Quota]
        BY <2>1, <3>1, <3>2 DEF TypeOK
      <3>4. DOMAIN quota' = DOMAIN quota
        BY <3>1
      <3>5. /\ tick' \in Chosen /\ tick'.step = "assign" /\ tick'.at = tick.at
            /\ tick'.account = tick.account /\ tick'.kind = tick.kind
            /\ tick'.interval = tick.interval
        BY <1>1, <3>1 DEF Chosen
      <3>6. UNCHANGED <<now, targetVars, contact, accountVars, outbox, faults>>
            /\ At("reserve")
        BY <1>2 DEF TryReserveColdSlot
      <3>7. TypeOK'
        BY <3>3, <3>4, <3>5, <3>6 DEF TypeOK, targetVars, accountVars
      <3>8. TickInv'
        BY <3>4, <3>5, <3>6 DEF TickInv, At, Picked, accountVars
      <3> QED BY <3>7, <3>8
    <2>3. CASE ~ok
      <3>1. quota' = quota /\ tick' = Idle
            /\ UNCHANGED <<now, targetVars, contact, accountVars, outbox, faults>>
        BY <1>2, <2>3 DEF TryReserveColdSlot
      <3> QED BY <3>1 DEF TypeOK, TickInv, At, Picked, targetVars, accountVars
    <2> QED BY <2>2, <2>3
  <1>3. ASSUME At("assign"), AfterAssign, quota' = quota PROVE TickInv'
    BY <1>3, AfterAssignTick DEF TickInv, At, Picked
  <1>4. ASSUME At("assign"), AfterAssign PROVE tick' \in {Idle} \cup Chosen
    BY <1>4, AfterAssignTick
  <1>5. CASE AssignAccountAndEnqueue
    <2> DEFINE x == [target |-> tick.target, attempt |-> attempt[tick.target] + 1,
                     account |-> tick.account, kind |-> tick.kind, at |-> tick.at]
    <2>1. x \in Dose
      BY <1>1 DEF Dose, Chosen, TypeOK
    <2>2. outbox' \subseteq Dose
      BY <1>5, <2>1 DEF AssignAccountAndEnqueue, TypeOK
    <2>3. used' \in [Account -> [Day -> Nat]] /\ since' \in [Account -> Nat]
      BY <1>1, <1>5 DEF AssignAccountAndEnqueue, TypeOK
    <2>4. /\ status' \in [Target -> TaskStatus] /\ attempt' \in [Target -> Nat]
          /\ nextAttempt' \in [Target -> Int]
      BY <1>1, <1>5 DEF AssignAccountAndEnqueue, TypeOK, TaskStatus
    <2>5. UNCHANGED <<now, contact, coolUntil, quota, faults>>
          /\ At("assign") /\ AfterAssign
      BY <1>5 DEF AssignAccountAndEnqueue
    <2>6. TypeOK'
      BY <1>4, <2>2, <2>3, <2>4, <2>5 DEF TypeOK
    <2> QED BY <1>3, <2>5, <2>6
  <1>6. CASE AssignNotEligible
    <2>1. At("assign") /\ AfterAssign
          /\ UNCHANGED <<now, targetVars, contact, accountVars, quota, outbox, faults>>
      BY <1>6 DEF AssignNotEligible
    <2>2. TypeOK'
      BY <1>4, <2>1 DEF TypeOK, targetVars, accountVars
    <2> QED BY <1>3, <2>1, <2>2
  <1>7. CASE AssignLimitExhausted
    BY <1>7 DEF AssignLimitExhausted, TypeOK, TickInv, At, Picked, targetVars,
                accountVars
  <1>8. CASE IncrementWarmUsed
    <2>1. LocalDate(tick.at) \in DOMAIN quota
      BY <1>1 DEF TickInv
    <2>2. [quota[LocalDate(tick.at)] EXCEPT !.warm = @ + 1] \in Quota
      <3>1. quota[LocalDate(tick.at)] \in Quota
        BY <2>1 DEF TypeOK
      <3> QED BY <3>1, QuotaWrite
    <2>3. quota' \in [DOMAIN quota -> Quota] /\ DOMAIN quota' = DOMAIN quota
      BY <1>8, <2>1, <2>2 DEF IncrementWarmUsed, TypeOK
    <2> QED BY <1>8, <2>3 DEF IncrementWarmUsed, TypeOK, TickInv, At, Picked,
                              targetVars, accountVars
  <1> QED BY <1>2, <1>5, <1>6, <1>7, <1>8

\* The results, the chats and the clock.
LEMMA MeanwhileType ==
  ASSUME TypeInv,
         \/ \E x \in outbox, o \in WorkerOutcome : ApplyResult(x, o)
         \/ \E t \in Target, a \in Account : UpsertChatPhoneMapping(t, a)
         \/ TimePasses
  PROVE  TypeInv'
  <1> USE DEF TypeInv
  <1>1. ASSUME NEW x \in outbox, NEW o \in WorkerOutcome, ApplyResult(x, o)
        PROVE  TypeInv'
    <2>1. /\ x.target \in Target /\ x.account \in Account
          /\ o.status \in TaskStatus /\ o.code \in ErrorCode
      BY RetryAssumption DEF TypeOK, Dose, Outcome
    <2>2. StatusAfterResult(status[x.target], attempt[x.target], MaxRetryAttempts, o)
            \in TaskStatus
      BY <2>1, ResultStatus, RetryAssumption DEF TypeOK
    <2>3. status' \in [Target -> TaskStatus]
      BY <1>1, <2>2 DEF ApplyResult, TypeOK
    <2>4. now + RetryDelay \in Int /\ now + AccountCooldown \in Nat
      BY RetryAssumption, ClockAssumption DEF TypeOK
    <2>5. nextAttempt' \in [Target -> Int]
      <3>1. PICK v \in Int : nextAttempt' = [nextAttempt EXCEPT ![x.target] = v]
        <4> DEFINE t == x.target
                   retry == WriterOfResult(o) = "retry" /\ RetryAccepted(status[t])
                   v == CASE retry /\ attempt[t] < MaxRetryAttempts -> now + RetryDelay
                          [] retry /\ attempt[t] >= MaxRetryAttempts -> 0
                          [] WriterOfResult(o) = "unknown" /\ status'[t] # status[t] -> 0
                          [] OTHER -> nextAttempt[t]
        <4>1. v \in Int
          BY <2>1, <2>4 DEF TypeOK
        <4>2. nextAttempt' = [nextAttempt EXCEPT ![t] = v]
          BY <1>1 DEF ApplyResult
        <4> QED BY <4>1, <4>2
      <3> QED BY <3>1 DEF TypeOK
    <2>6. coolUntil' \in [Account -> Nat] /\ since' \in [Account -> Nat]
      BY <1>1, <2>4 DEF ApplyResult, TypeOK
    <2>7. UNCHANGED <<now, attempt, contact, used, quota, outbox, tick, faults>>
      BY <1>1 DEF ApplyResult
    <2>8. TypeOK'
      BY <2>3, <2>5, <2>6, <2>7 DEF TypeOK
    <2> QED BY <2>7, <2>8 DEF TickInv, At, Picked
  <1>2. ASSUME NEW t \in Target, NEW a \in Account, UpsertChatPhoneMapping(t, a)
        PROVE  TypeInv'
    BY <1>2 DEF UpsertChatPhoneMapping, TypeOK, TickInv, At, Picked, targetVars,
                accountVars
  <1>3. CASE TimePasses
    BY <1>3, ClockAssumption
       DEF TimePasses, TypeOK, TickInv, At, Picked, targetVars, accountVars
  <1> QED BY <1>1, <1>2, <1>3

\* A stutter.
LEMMA StutterType == TypeInv /\ UNCHANGED vars => TypeInv'
  BY DEF vars, TypeInv, TypeOK, TickInv, At, Picked, targetVars, accountVars

\* Every step keeps the types.
LEMMA TypeStep == TypeInv /\ [Next]_vars => TypeInv'
  BY PickType, TickStepType, ScheduleType, MeanwhileType, StutterType DEF Next

\* Every reachable state is typed.
LEMMA TypeInvariant == Spec => []TypeInv
  BY TypeInit, TypeStep, PTL DEF Spec

\* Every reachable state is typed: in particular the cold limit of a day stays
\* in the configured range, and the dates stay on the calendar.
THEOREM TypeCorrect == Spec => []TypeOK
  <1>1. TypeInv => TypeOK
    BY DEF TypeInv
  <1> QED BY <1>1, TypeInvariant, PTL

-----------------------------------------------------------------------------
(* The daily limit across midnight.                                        *)

\* By day the usage that was listed is the usage that is reserved.
THEOREM RefusedOnlyAcrossMidnightHolds == Spec => []RefusedOnlyAcrossMidnight
  <1>1. TypeInv => RefusedOnlyAcrossMidnight
    BY DEF TypeInv, TickInv, RefusedOnlyAcrossMidnight, SlotLeft
  <1> QED BY <1>1, TypeInvariant, PTL

-----------------------------------------------------------------------------
(* The daily limit of an account.                                          *)

\* There are finitely many messages, and none is of an attempt to come.
OutboxInv ==
  /\ IsFiniteSet(outbox)
  /\ \A x \in outbox : x.attempt <= attempt[x.target]

NewDose ==
  [target |-> tick.target, attempt |-> attempt[tick.target] + 1,
   account |-> tick.account, kind |-> tick.kind, at |-> tick.at]

\* Only the assignment enqueues, and what it enqueues is new.
LEMMA Enqueued ==
  ASSUME TypeInv, OutboxInv, [Next]_vars
  PROVE  \/ UNCHANGED <<outbox, used, attempt>>
         \/ /\ AssignAccountAndEnqueue
            /\ tick \in Chosen
            /\ NewDose \in Dose /\ NewDose \notin outbox
            /\ outbox' = outbox \cup {NewDose}
  <1>1. CASE AssignAccountAndEnqueue
    <2>1. tick \in Chosen
      BY <1>1, TickType DEF AssignAccountAndEnqueue, TypeInv, Picked
    <2>2. tick.target \in Target /\ attempt[tick.target] \in Nat
      BY <2>1 DEF Chosen, TypeInv, TypeOK
    <2>3. NewDose \in Dose
      BY <2>1, <2>2 DEF NewDose, Dose, Chosen
    <2>4. NewDose.target = tick.target /\ NewDose.attempt = attempt[tick.target] + 1
      BY DEF NewDose
    <2>5. NewDose \notin outbox
      BY <2>2, <2>4 DEF OutboxInv
    <2> QED BY <1>1, <2>1, <2>3, <2>5 DEF AssignAccountAndEnqueue, NewDose
  <1>2. CASE ~AssignAccountAndEnqueue
    BY <1>2 DEF Next, ListAccounts, DeferRetryTargets, ChooseWarm, ChooseCold,
                NothingToDose, TryReserveColdSlot, AssignNotEligible,
                AssignLimitExhausted, IncrementWarmUsed, TickCutShort, ApplyResult,
                UpsertChatPhoneMapping, TimePasses, vars, targetVars, accountVars
  <1> QED BY <1>1, <1>2

\* Every step keeps it.
LEMMA OutboxStep ==
  ASSUME TypeInv, OutboxInv, [Next]_vars
  PROVE  OutboxInv'
  <1>1. CASE UNCHANGED <<outbox, used, attempt>>
    BY <1>1 DEF OutboxInv
  <1>2. CASE AssignAccountAndEnqueue /\ outbox' = outbox \cup {NewDose}
               /\ tick \in Chosen
    <2>1. IsFiniteSet(outbox')
      BY <1>2, FS_AddElement DEF OutboxInv
    <2>2. \A t \in Target : attempt[t] \in Nat /\ attempt[t] <= attempt'[t]
      BY <1>2 DEF AssignAccountAndEnqueue, TypeInv, TypeOK
    <2>3. NewDose.attempt <= attempt'[NewDose.target]
      BY <1>2 DEF NewDose, AssignAccountAndEnqueue, Chosen, TypeInv, TypeOK
    <2>4. ASSUME NEW x \in outbox PROVE x.attempt <= attempt'[x.target]
      <3>1. x.target \in Target /\ x.attempt \in Nat
        BY DEF TypeInv, TypeOK, Dose
      <3>2. attempt[x.target] \in Nat /\ attempt'[x.target] \in Nat
        BY <1>2, <2>2, <3>1 DEF AssignAccountAndEnqueue, TypeInv, TypeOK
      <3> QED BY <2>2, <3>1, <3>2 DEF OutboxInv
    <2> QED BY <1>2, <2>1, <2>3, <2>4 DEF OutboxInv
  <1> QED BY <1>1, <1>2, Enqueued

\* The messages of a kind are counted one by one.
LEMMA DosesCounted ==
  ASSUME NEW S, IsFiniteSet(S), NEW x, x \notin S
  PROVE  /\ Cardinality(S) \in Nat
         /\ Cardinality(S \cup {x}) = Cardinality(S) + 1
  BY FS_CardinalityType, FS_AddElement

\* Every dose of an account is counted on its day.
DailyInv ==
  \A a \in Account, d \in Day :
    /\ used[a][d] = Cardinality(DosesOf(a, d))
    /\ used[a][d] <= DailyLimit[a]

LEMMA DailyStep ==
  ASSUME TypeInv, OutboxInv, DailyInv, [Next]_vars
  PROVE  DailyInv'
  <1>1. CASE UNCHANGED <<outbox, used, attempt>>
    BY <1>1 DEF DailyInv, DosesOf
  <1>2. CASE /\ AssignAccountAndEnqueue /\ tick \in Chosen
             /\ NewDose \in Dose /\ NewDose \notin outbox
             /\ outbox' = outbox \cup {NewDose}
    <2>0. tick.account \in Account /\ UtcDate(tick.at) \in Day
          /\ LocalDate(tick.at) \in Day
      BY <1>2, DayOf DEF Chosen
    <2>1. PICK b \in Account, day \in Day : b = tick.account /\ day = UtcDate(tick.at)
      BY <2>0
    <2>2. NewDose.account = b /\ UtcDate(NewDose.at) = day
      BY <2>1 DEF NewDose
    <2>3. /\ used \in [Account -> [Day -> Nat]] /\ DailyLimit[b] \in Nat
          /\ used' = [used EXCEPT ![b][day] = @ + 1]
      BY <1>2, <2>1, LimitAssumption DEF AssignAccountAndEnqueue, TypeInv, TypeOK
    <2>4. used[b][day] + 1 <= DailyLimit[b]
      <3>1. used[b][LocalDate(tick.at)] < DailyLimit[b] /\ SlotLeft(b, day)
        BY <1>2, <2>1 DEF AssignAccountAndEnqueue, TypeInv, TickInv
      <3>2. used[b][LocalDate(tick.at)] \in Nat /\ used[b][day] \in Nat
        BY <2>0, <2>3
      <3> QED BY <2>3, <3>1, <3>2 DEF SlotLeft
    <2>5. ASSUME NEW a \in Account, NEW d \in Day, ~(a = b /\ d = day)
          PROVE  DosesOf(a, d)' = DosesOf(a, d) /\ used'[a][d] = used[a][d]
      <3>1. DosesOf(a, d)' = DosesOf(a, d)
        BY <1>2, <2>2, <2>5 DEF DosesOf
      <3>2. used'[a][d] = used[a][d]
        BY <2>3, <2>5
      <3> QED BY <3>1, <3>2
    <2>6. /\ DosesOf(b, day)' = DosesOf(b, day) \cup {NewDose}
          /\ used'[b][day] = used[b][day] + 1
      <3>1. DosesOf(b, day)' = DosesOf(b, day) \cup {NewDose}
        BY <1>2, <2>2 DEF DosesOf
      <3>2. used'[b][day] = used[b][day] + 1
        BY <2>3
      <3> QED BY <3>1, <3>2
    <2>7. Cardinality(DosesOf(b, day)') = Cardinality(DosesOf(b, day)) + 1
      <3>1. IsFiniteSet(DosesOf(b, day)) /\ NewDose \notin DosesOf(b, day)
        BY <1>2, FS_Subset DEF OutboxInv, DosesOf
      <3> QED BY <2>6, <3>1, DosesCounted
    <2>8. ASSUME NEW a \in Account, NEW d \in Day
          PROVE  /\ used'[a][d] = Cardinality(DosesOf(a, d)')
                 /\ used'[a][d] <= DailyLimit[a]
      <3>1. CASE a = b /\ d = day
        BY <2>4, <2>6, <2>7, <3>1 DEF DailyInv
      <3>2. CASE ~(a = b /\ d = day)
        BY <2>5, <3>2 DEF DailyInv
      <3> QED BY <3>1, <3>2
    <2> QED BY <2>8 DEF DailyInv
  <1> QED BY <1>1, <1>2, Enqueued

\* The messages of an account on a UTC day are counted, and stay within its
\* limit, although the account was listed by the usage of the local day.
THEOREM DailyLimitKeptHolds == Spec => []DailyLimitKept
  <1>1. Init => OutboxInv /\ DailyInv
    <2> SUFFICES ASSUME Init PROVE OutboxInv /\ DailyInv
      OBVIOUS
    <2>1. OutboxInv
      BY FS_EmptySet DEF Init, OutboxInv
    <2>2. \A a \in Account, d \in Day : DosesOf(a, d) = {} /\ used[a][d] = 0
      BY DEF Init, DosesOf
    <2>3. \A a \in Account : 0 <= DailyLimit[a]
      BY LimitAssumption
    <2> QED BY <2>1, <2>2, <2>3, FS_EmptySet DEF DailyInv
  <1>2. TypeInv /\ OutboxInv /\ DailyInv /\ [Next]_vars => OutboxInv' /\ DailyInv'
    BY OutboxStep, DailyStep
  <1>3. DailyInv => DailyLimitKept
    BY DEF DailyInv, DailyLimitKept
  <1> QED BY <1>1, <1>2, <1>3, TypeInvariant, PTL DEF Spec

-----------------------------------------------------------------------------
(* The cooldown.                                                           *)

\* The tick may still dose the account.
MayDose(a) ==
  \/ At("listed") /\ a \in tick.accounts
  \/ (At("reserve") \/ At("assign")) /\ tick.account = a

\* An account that cools down was dosed at most once since, and not at all as
\* long as the tick that was under way may dose it.
CooldownInv ==
  \A a \in Account :
    now < coolUntil[a] => since[a] <= 1 /\ (MayDose(a) => since[a] = 0)

LEMMA CooldownStep ==
  ASSUME TypeInv, CooldownInv, [Next]_vars
  PROVE  CooldownInv'
  <1> USE DEF TypeInv, TypeOK
  <1>1. ASSUME UNCHANGED <<now, coolUntil, since>>,
               \A a \in Account : MayDose(a)' => MayDose(a)
        PROVE  CooldownInv'
    BY <1>1 DEF CooldownInv
  <1>2. CASE ListAccounts
    <2>1. /\ UNCHANGED <<now, coolUntil, since>>
          /\ \A a \in Account : MayDose(a)' => coolUntil[a] <= now
      BY <1>2 DEF ListAccounts, MayDose, At, Assignable, accountVars
    <2> QED BY <2>1, ClockAssumption DEF CooldownInv
  <1>3. CASE \/ DeferRetryTargets \/ NothingToDose \/ TickCutShort
             \/ AssignLimitExhausted \/ IncrementWarmUsed
    <2>1. tick' = Idle /\ UNCHANGED <<now, coolUntil, since>>
      BY <1>3 DEF DeferRetryTargets, NothingToDose, TickCutShort,
                  AssignLimitExhausted, IncrementWarmUsed, accountVars
    <2> QED BY <1>1, <2>1 DEF MayDose, At
  <1>4. ASSUME NEW t \in Target, ChooseWarm(t) \/ ChooseCold(t)
        PROVE  CooldownInv'
    <2>1. At("listed") /\ UNCHANGED <<now, coolUntil, since>>
      BY <1>4 DEF ChooseWarm, ChooseCold, accountVars
    <2>2. PICK a \in tick.accounts : tick'.account = a
                                     /\ tick'.step \in {"assign", "reserve"}
      BY <1>4, PickType DEF Choose
    <2> QED BY <1>1, <2>1, <2>2 DEF MayDose, At
  <1>5. CASE TryReserveColdSlot
    <2>1. At("reserve") /\ UNCHANGED <<now, coolUntil, since>>
      BY <1>5 DEF TryReserveColdSlot, accountVars
    <2>2. tick \in Chosen
      BY <2>1, TickType DEF Picked
    <2>3. tick' = Idle \/ tick' = [tick EXCEPT !.step = "assign"]
      BY <1>5 DEF TryReserveColdSlot
    <2>4. CASE tick' = [tick EXCEPT !.step = "assign"]
      <3>1. tick'.account = tick.account /\ tick'.step = "assign"
        BY <2>2, <2>4 DEF Chosen
      <3> QED BY <1>1, <2>1, <3>1 DEF MayDose, At
    <2>5. CASE tick' = Idle
      BY <1>1, <2>1, <2>5 DEF MayDose, At
    <2> QED BY <2>3, <2>4, <2>5
  <1>6. ASSUME At("assign"), AfterAssign, NEW a \in Account
        PROVE  ~MayDose(a)'
    BY <1>6, AfterAssignTick DEF MayDose, At
  <1>7. CASE AssignNotEligible
    BY <1>1, <1>6, <1>7 DEF AssignNotEligible, accountVars
  <1>8. CASE AssignAccountAndEnqueue
    <2>1. /\ UNCHANGED <<now, coolUntil>> /\ At("assign") /\ AfterAssign
          /\ since' = [since EXCEPT ![tick.account] = @ + 1]
      BY <1>8 DEF AssignAccountAndEnqueue
    <2>2. ASSUME NEW a \in Account, now < coolUntil[a] PROVE since'[a] <= 1
      <3>1. CASE a = tick.account
        <4>1. since[a] = 0
          BY <2>1, <2>2, <3>1 DEF CooldownInv, MayDose
        <4> QED BY <2>1, <3>1, <4>1
      <3>2. CASE a # tick.account
        BY <2>1, <2>2, <3>2 DEF CooldownInv
      <3> QED BY <3>1, <3>2
    <2> QED BY <1>6, <2>1, <2>2 DEF CooldownInv
  <1>9. ASSUME NEW x \in outbox, NEW o \in WorkerOutcome, ApplyResult(x, o)
        PROVE  CooldownInv'
    <2>1. UNCHANGED <<now, tick>>
      BY <1>9 DEF ApplyResult
    <2>2. \/ UNCHANGED <<coolUntil, since>>
          \/ /\ coolUntil' = [coolUntil EXCEPT ![x.account] = now + AccountCooldown]
             /\ since' = [since EXCEPT ![x.account] = 0]
      BY <1>9 DEF ApplyResult
    <2>3. ASSUME NEW a \in Account
          PROVE  \/ coolUntil'[a] = coolUntil[a] /\ since'[a] = since[a]
                 \/ since'[a] = 0
      BY <2>2
    <2>4. \A a \in Account : MayDose(a)' = MayDose(a)
      BY <2>1 DEF MayDose, At
    <2> QED BY <2>1, <2>3, <2>4 DEF CooldownInv
  <1>10. ASSUME NEW t \in Target, NEW a \in Account, UpsertChatPhoneMapping(t, a)
         PROVE  CooldownInv'
    BY <1>1, <1>10 DEF UpsertChatPhoneMapping, MayDose, At, accountVars
  <1>11. CASE TimePasses
    <2>1. /\ now' = now + 1 /\ UNCHANGED <<coolUntil, since, tick>>
          /\ now \in Nat
      BY <1>11, ClockAssumption DEF TimePasses, accountVars
    <2> QED BY <2>1 DEF CooldownInv, MayDose, At
  <1>12. CASE UNCHANGED vars
    BY <1>1, <1>12 DEF vars, MayDose, At, accountVars
  <1> QED BY <1>2, <1>3, <1>4, <1>5, <1>7, <1>8, <1>9, <1>10, <1>11, <1>12 DEF Next

\* An account that has to cool down gets at most the one message of the tick
\* that was under way.
THEOREM CooldownRespectedHolds == Spec => []CooldownRespected
  <1>1. Init => CooldownInv
    BY DEF Init, CooldownInv
  <1>2. TypeInv /\ CooldownInv /\ [Next]_vars => CooldownInv'
    BY CooldownStep
  <1>3. CooldownInv => CooldownRespected
    BY DEF CooldownInv, CooldownRespected
  <1> QED BY <1>1, <1>2, <1>3, TypeInvariant, PTL DEF Spec

-----------------------------------------------------------------------------
(* The quotas of a day.                                                    *)

\* What a step can do to the quotas, the messages and the tick.
StepKind ==
  \/ UNCHANGED <<quota, outbox, tick, faults>>
  \/ /\ UNCHANGED <<quota, outbox>> /\ ~Picked'
     /\ \/ faults' = faults /\ ~At("count")
        \/ faults' = faults + 1
  \/ /\ UNCHANGED <<outbox, faults>> /\ At("listed")
     /\ \E limit \in LimitColdMin..LimitColdMax :
          quota' = WithQuota(LocalDate(tick.at), limit)
     /\ \/ ~Picked'
        \/ At("reserve")'
        \/ At("assign")' /\ tick'.kind = "warm" /\ tick'.at = tick.at
           /\ WarmOpen(quota'[LocalDate(tick.at)])
  \/ TryReserveColdSlot
  \/ AssignAccountAndEnqueue
  \/ AssignNotEligible
  \/ IncrementWarmUsed

LEMMA StepKinds ==
  ASSUME TypeInv, [Next]_vars
  PROVE  StepKind
  <1>1. CASE ListAccounts \/ DeferRetryTargets \/ TickCutShort \/ AssignLimitExhausted
    <2>1. UNCHANGED <<quota, outbox>> /\ ~Picked'
      BY <1>1 DEF ListAccounts, DeferRetryTargets, TickCutShort,
                  AssignLimitExhausted, Picked, At
    <2>2. \/ faults' = faults /\ ~At("count")
          \/ faults' = faults + 1
      BY <1>1 DEF ListAccounts, DeferRetryTargets, TickCutShort,
                  AssignLimitExhausted, At
    <2> QED BY <2>1, <2>2 DEF StepKind
  <1>2. CASE NothingToDose
    BY <1>2 DEF NothingToDose, StepKind, Picked, At
  <1>3. ASSUME NEW t \in Target, ChooseWarm(t) \/ ChooseCold(t) PROVE StepKind
    <2>1. At("listed") /\ UNCHANGED <<outbox, faults>>
      BY <1>3 DEF ChooseWarm, ChooseCold
    <2>2. \E limit \in LimitColdMin..LimitColdMax :
            quota' = WithQuota(LocalDate(tick.at), limit)
      BY <1>3, PickType
    <2>3. CASE ChooseWarm(t)
      <3>1. WarmOpen(quota'[LocalDate(tick.at)])
        BY <2>3 DEF ChooseWarm
      <3>2. PICK a \in PickAccount(t) : Choose("assign", "warm", t, a, 0)
        BY <2>3 DEF ChooseWarm
      <3>3. tick'.step = "assign" /\ tick'.kind = "warm" /\ tick'.at = tick.at
        BY <3>2 DEF Choose
      <3> QED BY <2>1, <2>2, <3>1, <3>3 DEF StepKind, Picked, At
    <2>4. CASE ChooseCold(t)
      <3>1. PICK a \in PickAccount(t), i \in ColdInterval :
              Choose("reserve", "cold", t, a, i)
        BY <2>4 DEF ChooseCold
      <3>2. tick'.step = "reserve"
        BY <3>1 DEF Choose
      <3> QED BY <2>1, <2>2, <3>2 DEF StepKind, Picked, At
    <2> QED BY <1>3, <2>3, <2>4
  <1>4. ASSUME \/ \E x \in outbox, o \in WorkerOutcome : ApplyResult(x, o)
               \/ \E t \in Target, a \in Account : UpsertChatPhoneMapping(t, a)
               \/ TimePasses
               \/ UNCHANGED vars
        PROVE  UNCHANGED <<quota, outbox, tick, faults>>
    BY <1>4 DEF ApplyResult, UpsertChatPhoneMapping, TimePasses, vars
  <1> QED BY <1>1, <1>2, <1>3, <1>4 DEF Next, StepKind

\* The row of the day a tick picked a target on.
LEMMA PickedRow ==
  ASSUME TypeInv, Picked
  PROVE  /\ tick \in Chosen /\ LocalDate(tick.at) \in DOMAIN quota
         /\ LocalDate(tick.at) \in Day /\ tick.at \in Nat
         /\ quota[LocalDate(tick.at)] \in Quota
  <1>1. tick \in Chosen /\ LocalDate(tick.at) \in DOMAIN quota
    BY TickType DEF TypeInv, TickInv
  <1>2. tick.at \in 0..MaxTime
    BY <1>1 DEF Chosen
  <1> QED BY <1>1, <1>2, DayOf, ClockAssumption DEF TypeInv, TypeOK

\* TryReserveColdSlot takes a slot of the row or gives the tick up.
LEMMA Reservation ==
  ASSUME TypeInv, TryReserveColdSlot
  PROVE  LET day == LocalDate(tick.at)
             q   == quota[day] IN
         /\ UNCHANGED <<outbox, faults>> /\ DOMAIN quota' = DOMAIN quota
         /\ \A d \in DOMAIN quota : d # day => quota'[d] = quota[d]
         /\ \/ quota' = quota /\ tick' = Idle
            \/ /\ q.cold < q.limit /\ Paced(q, tick.at, tick.interval)
               /\ quota'[day] = [q EXCEPT !.cold = q.cold + 1, !.last = tick.at]
               /\ quota'[day].cold = q.cold + 1 /\ quota'[day].last = tick.at
               /\ quota'[day].limit = q.limit /\ quota'[day].warm = q.warm
               /\ tick'.step = "assign" /\ tick'.kind = "cold"
               /\ tick'.at = tick.at
               /\ tick.interval \in ColdInterval
  <1> DEFINE day == LocalDate(tick.at)
             q   == quota[day]
             ok  == q.cold < q.limit /\ Paced(q, tick.at, tick.interval)
  <1>1. Picked /\ At("reserve") /\ UNCHANGED <<outbox, faults>>
    BY DEF TryReserveColdSlot, Picked
  <1>2. /\ tick \in Chosen /\ day \in DOMAIN quota /\ q \in Quota
        /\ tick.kind = "cold" /\ tick.interval \in ColdInterval
    BY <1>1, PickedRow DEF TypeInv, TickInv
  <1>3. CASE ok
    <2>1. /\ quota' = [quota EXCEPT ![day] = [q EXCEPT !.cold = q.cold + 1,
                                                       !.last = tick.at]]
          /\ tick' = [tick EXCEPT !.step = "assign"]
      BY <1>2, <1>3 DEF TryReserveColdSlot
    <2>2. tick'.step = "assign" /\ tick'.kind = "cold" /\ tick'.at = tick.at
      BY <1>2, <2>1 DEF Chosen
    <2>3. quota'[day] = [q EXCEPT !.cold = q.cold + 1, !.last = tick.at]
      BY <1>2, <2>1
    <2>4. /\ quota'[day].cold = q.cold + 1 /\ quota'[day].last = tick.at
          /\ quota'[day].limit = q.limit /\ quota'[day].warm = q.warm
      BY <1>2, <2>3 DEF Quota
    <2>5. /\ DOMAIN quota' = DOMAIN quota
          /\ \A d \in DOMAIN quota : d # day => quota'[d] = quota[d]
      BY <2>1
    <2> QED BY <1>1, <1>2, <1>3, <2>2, <2>3, <2>4, <2>5
  <1>4. CASE ~ok
    <2>1. quota' = quota /\ tick' = Idle
      BY <1>4 DEF TryReserveColdSlot
    <2> QED BY <1>1, <2>1
  <1> QED BY <1>3, <1>4

\* A message of a kind is one more on its day.
LEMMA DoseOnDay ==
  ASSUME TypeInv, OutboxInv, [Next]_vars, AssignAccountAndEnqueue,
         NEW kind, NEW d \in Day
  PROVE  /\ Cardinality(DosesOn(kind, d)) \in Nat
         /\ IF kind = tick.kind /\ d = LocalDate(tick.at)
            THEN Cardinality(DosesOn(kind, d)') = Cardinality(DosesOn(kind, d)) + 1
            ELSE DosesOn(kind, d)' = DosesOn(kind, d)
  <1>1. \/ UNCHANGED <<outbox, used, attempt>>
        \/ NewDose \notin outbox /\ outbox' = outbox \cup {NewDose}
    BY Enqueued
  <1>2. attempt' # attempt
    <2>1. tick.target \in Target /\ attempt[tick.target] \in Nat
      BY TickType DEF AssignAccountAndEnqueue, Picked, Chosen, TypeInv, TypeOK
    <2>2. attempt'[tick.target] = attempt[tick.target] + 1
      BY <2>1 DEF AssignAccountAndEnqueue, TypeInv, TypeOK
    <2> QED BY <2>1, <2>2
  <1>3. NewDose \notin outbox /\ outbox' = outbox \cup {NewDose}
    BY <1>1, <1>2
  <1>4. NewDose.kind = tick.kind /\ NewDose.at = tick.at
    BY DEF NewDose
  <1>5. IsFiniteSet(DosesOn(kind, d)) /\ NewDose \notin DosesOn(kind, d)
    BY <1>3, FS_Subset DEF OutboxInv, DosesOn
  <1>6. CASE kind = tick.kind /\ d = LocalDate(tick.at)
    <2>1. DosesOn(kind, d)' = DosesOn(kind, d) \cup {NewDose}
      BY <1>3, <1>4, <1>6 DEF DosesOn
    <2> QED BY <1>5, <1>6, <2>1, DosesCounted
  <1>7. CASE ~(kind = tick.kind /\ d = LocalDate(tick.at))
    <2>1. DosesOn(kind, d)' = DosesOn(kind, d)
      BY <1>3, <1>4, <1>7 DEF DosesOn
    <2> QED BY <1>5, <1>7, <2>1, FS_CardinalityType
  <1> QED BY <1>6, <1>7

-----------------------------------------------------------------------------
(* The cold quota.                                                         *)

\* Every cold message had its slot reserved, and the tick that is about to
\* enqueue one holds a slot that no message has used.
ColdInv ==
  /\ \A d \in Day : d \notin DOMAIN quota => DosesOn("cold", d) = {}
  /\ \A d \in DOMAIN quota :
       /\ Cardinality(DosesOn("cold", d)) <= quota[d].cold
       /\ quota[d].cold <= quota[d].limit
  /\ At("assign") /\ tick.kind = "cold" =>
       Cardinality(DosesOn("cold", LocalDate(tick.at))) + 1
         <= quota[LocalDate(tick.at)].cold

\* As long as nothing is enqueued the messages of a day stay the same.
LEMMA DosesKept ==
  ASSUME UNCHANGED outbox, NEW kind, NEW d
  PROVE  DosesOn(kind, d)' = DosesOn(kind, d)
  BY DEF DosesOn

LEMMA ColdStep ==
  ASSUME TypeInv, OutboxInv, ColdInv, [Next]_vars
  PROVE  ColdInv'
  <1>1. ASSUME NEW d \in Day PROVE Cardinality(DosesOn("cold", d)) \in Nat
    BY FS_Subset, FS_CardinalityType DEF OutboxInv, DosesOn
  <1>2. /\ DOMAIN quota \subseteq Day
        /\ \A d \in DOMAIN quota : /\ quota[d] \in Quota
                                   /\ quota[d].cold \in Nat /\ quota[d].limit \in Nat
    BY LimitAssumption DEF TypeInv, TypeOK, Quota
  <1>3. CASE UNCHANGED <<quota, outbox, tick, faults>>
    BY <1>3, DosesKept DEF ColdInv, At
  <1>4. CASE UNCHANGED <<quota, outbox>> /\ ~At("assign")'
    BY <1>4, DosesKept DEF ColdInv, At
  <1>5. CASE /\ UNCHANGED <<outbox, faults>> /\ At("listed")
             /\ \E limit \in LimitColdMin..LimitColdMax :
                  quota' = WithQuota(LocalDate(tick.at), limit)
             /\ At("assign")' => tick'.kind = "warm"
    <2>1. PICK day \in Day : day = LocalDate(tick.at)
      BY <1>5, TickType, DayOf DEF TypeInv, At
    <2>2. PICK limit \in LimitColdMin..LimitColdMax : quota' = WithQuota(day, limit)
      BY <1>5, <2>1
    <2>3. limit \in Nat
      BY LimitAssumption
    <2>4. /\ DOMAIN quota' = DOMAIN quota \cup {day}
          /\ \A d \in DOMAIN quota : quota'[d] = quota[d]
          /\ day \notin DOMAIN quota =>
               quota'[day].cold = 0 /\ quota'[day].limit = limit
      <3>1. /\ DOMAIN quota' = DOMAIN quota \cup {day}
            /\ \A d \in DOMAIN quota : quota'[d] = quota[d]
            /\ day \notin DOMAIN quota =>
                 quota'[day] = [limit |-> limit, cold |-> 0, warm |-> 0, last |-> Never]
        BY <2>2, QuotaRow DEF TypeInv
      <3> QED BY <3>1
    <2>5. \A d \in Day : DosesOn("cold", d)' = DosesOn("cold", d)
      BY <1>5, DosesKept
    <2>6. ASSUME NEW d \in DOMAIN quota'
          PROVE  /\ Cardinality(DosesOn("cold", d)') <= quota'[d].cold
                 /\ quota'[d].cold <= quota'[d].limit
      <3>1. CASE d \in DOMAIN quota
        BY <1>2, <2>4, <2>5, <3>1 DEF ColdInv
      <3>2. CASE d \notin DOMAIN quota
        <4>1. d = day /\ DosesOn("cold", d)' = {}
          BY <2>4, <2>5, <3>2 DEF ColdInv
        <4> QED BY <2>3, <2>4, <3>2, <4>1, FS_EmptySet
      <3> QED BY <3>1, <3>2
    <2>7. \A d \in Day : d \notin DOMAIN quota' => DosesOn("cold", d)' = {}
      BY <2>4, <2>5 DEF ColdInv
    <2>8. ~(At("assign")' /\ tick'.kind = "cold")
      BY <1>5
    <2> QED BY <2>6, <2>7, <2>8 DEF ColdInv
  <1>6. CASE TryReserveColdSlot
    <2>1. Picked
      BY <1>6 DEF TryReserveColdSlot, Picked
    <2>2. PICK day \in Day : day = LocalDate(tick.at)
      BY <2>1, PickedRow
    <2>3. day \in DOMAIN quota /\ tick \in Chosen
      BY <2>1, <2>2, PickedRow
    <2>4. /\ UNCHANGED <<outbox, faults>> /\ DOMAIN quota' = DOMAIN quota
          /\ \A d \in DOMAIN quota : d # day => quota'[d] = quota[d]
          /\ \/ quota' = quota /\ tick' = Idle
             \/ /\ quota[day].cold < quota[day].limit
                /\ quota'[day].cold = quota[day].cold + 1
                /\ quota'[day].limit = quota[day].limit
                /\ tick'.at = tick.at
      BY <1>6, <2>2, Reservation
    <2>5. \A d \in Day : DosesOn("cold", d)' = DosesOn("cold", d)
      BY <2>4, DosesKept
    <2>6. CASE quota' = quota /\ tick' = Idle
      BY <1>4, <2>4, <2>6 DEF At
    <2>7. CASE /\ quota[day].cold < quota[day].limit
               /\ quota'[day].cold = quota[day].cold + 1
               /\ quota'[day].limit = quota[day].limit
               /\ tick'.at = tick.at
      <3>1. ASSUME NEW d \in DOMAIN quota'
            PROVE  /\ Cardinality(DosesOn("cold", d)') <= quota'[d].cold
                   /\ quota'[d].cold <= quota'[d].limit
        <4>1. CASE d = day
          BY <1>1, <1>2, <2>3, <2>5, <2>7, <4>1 DEF ColdInv
        <4>2. CASE d # day
          BY <1>2, <2>4, <2>5, <4>2 DEF ColdInv
        <4> QED BY <4>1, <4>2
      <3>2. Cardinality(DosesOn("cold", day)') + 1 <= quota'[day].cold
        BY <1>1, <1>2, <2>3, <2>5, <2>7 DEF ColdInv
      <3>3. LocalDate(tick'.at) = day
        BY <2>2, <2>7
      <3>4. \A d \in Day : d \notin DOMAIN quota' => DosesOn("cold", d)' = {}
        BY <2>4, <2>5 DEF ColdInv
      <3> QED BY <3>1, <3>2, <3>3, <3>4 DEF ColdInv
    <2> QED BY <2>4, <2>6, <2>7
  <1>7. CASE AssignAccountAndEnqueue
    <2>1. Picked /\ At("assign") /\ quota' = quota /\ AfterAssign
      BY <1>7 DEF AssignAccountAndEnqueue, Picked
    <2>2. ~At("assign")'
      BY <2>1, AfterAssignTick DEF At
    <2>3. LocalDate(tick.at) \in DOMAIN quota
      BY <2>1, PickedRow
    <2>4. ASSUME NEW d \in Day
          PROVE  \/ /\ tick.kind = "cold" /\ d = LocalDate(tick.at)
                    /\ Cardinality(DosesOn("cold", d)')
                         = Cardinality(DosesOn("cold", d)) + 1
                 \/ DosesOn("cold", d)' = DosesOn("cold", d)
      BY <1>7, DoseOnDay
    <2>5. ASSUME NEW d \in DOMAIN quota
          PROVE  /\ Cardinality(DosesOn("cold", d)') <= quota[d].cold
                 /\ quota[d].cold <= quota[d].limit
      BY <1>2, <2>1, <2>4 DEF ColdInv
    <2>6. \A d \in Day : d \notin DOMAIN quota => DosesOn("cold", d)' = {}
      BY <2>3, <2>4 DEF ColdInv
    <2> QED BY <2>1, <2>2, <2>5, <2>6 DEF ColdInv
  <1>8. CASE AssignNotEligible
    <2>1. /\ UNCHANGED <<quota, outbox>>
          /\ At("assign") /\ AfterAssign
      BY <1>8 DEF AssignNotEligible
    <2>2. ~At("assign")'
      BY <2>1, AfterAssignTick DEF At
    <2> QED BY <1>4, <2>1, <2>2
  <1>9. CASE IncrementWarmUsed
    <2>1. /\ tick' = Idle /\ UNCHANGED outbox
          /\ quota' = [quota EXCEPT ![LocalDate(tick.at)].warm = @ + 1]
      BY <1>9 DEF IncrementWarmUsed
    <2>2. /\ DOMAIN quota' = DOMAIN quota
          /\ \A d \in DOMAIN quota : /\ quota'[d].cold = quota[d].cold
                                     /\ quota'[d].limit = quota[d].limit
      BY <1>2, <2>1 DEF Quota
    <2>3. \A d \in Day : DosesOn("cold", d)' = DosesOn("cold", d)
      BY <2>1, DosesKept
    <2> QED BY <1>2, <2>1, <2>2, <2>3 DEF ColdInv, At
  <1>10. StepKind
    BY StepKinds
  <1>11. At("reserve")' => ~At("assign")'
    BY DEF At
  <1>12. ~Picked' => ~At("assign")'
    BY DEF Picked
  <1> QED BY <1>3, <1>4, <1>5, <1>6, <1>7, <1>8, <1>9, <1>10, <1>11, <1>12
          DEF StepKind

\* A cold message is never sent without a slot of its day, and no day gives
\* more slots than its limit.
THEOREM ColdQuotaKeptHolds == Spec => []ColdQuotaKept
  <1>1. Init => OutboxInv /\ ColdInv
    BY FS_EmptySet DEF Init, OutboxInv, ColdInv, DosesOn, At
  <1>2. TypeInv /\ OutboxInv /\ ColdInv /\ [Next]_vars => OutboxInv' /\ ColdInv'
    BY OutboxStep, ColdStep
  <1>3. ColdInv => ColdQuotaKept
    BY DEF ColdInv, ColdQuotaKept
  <1> QED BY <1>1, <1>2, <1>3, TypeInvariant, PTL DEF Spec

-----------------------------------------------------------------------------
(* The interval between cold messages.                                     *)

\* The row of a day knows the last slot, no message of the day is later, and
\* the tick that holds a slot is an interval after all of them.
PacedInv ==
  /\ \A x \in outbox : x.kind = "cold" =>
       /\ LocalDate(x.at) \in DOMAIN quota
       /\ x.at <= quota[LocalDate(x.at)].last
  /\ At("assign") /\ tick.kind = "cold" =>
       /\ quota[LocalDate(tick.at)].last = tick.at
       /\ \A x \in outbox :
            x.kind = "cold" /\ LocalDate(x.at) = LocalDate(tick.at) =>
              \E i \in ColdInterval : x.at + i <= tick.at
  /\ ColdPaced

\* What was sent stays an interval apart as long as nothing is sent.
LEMMA PacedKept ==
  ASSUME PacedInv, UNCHANGED outbox, ~(At("assign")' /\ tick'.kind = "cold"),
         \A d \in DOMAIN quota : d \in DOMAIN quota' /\ quota'[d].last = quota[d].last
  PROVE  PacedInv'
  <1>1. ColdPaced'
    BY DEF PacedInv, ColdPaced
  <1>2. ASSUME NEW x \in outbox', x.kind = "cold"
        PROVE  /\ LocalDate(x.at) \in DOMAIN quota'
               /\ x.at <= quota'[LocalDate(x.at)].last
    BY <1>2 DEF PacedInv
  <1> QED BY <1>1, <1>2 DEF PacedInv

LEMMA PacedStep ==
  ASSUME TypeInv, OutboxInv, PacedInv, [Next]_vars
  PROVE  PacedInv'
  <1>1. \A x \in outbox : x.at \in Nat
    BY ClockAssumption DEF TypeInv, TypeOK, Dose
  <1>2. CASE UNCHANGED <<quota, outbox, tick, faults>>
    BY <1>2 DEF PacedInv, ColdPaced, At
  <1>3. CASE UNCHANGED <<quota, outbox>> /\ ~At("assign")'
    BY <1>3, PacedKept
  <1>4. CASE /\ UNCHANGED <<outbox, faults>> /\ At("listed")
             /\ \E limit \in LimitColdMin..LimitColdMax :
                  quota' = WithQuota(LocalDate(tick.at), limit)
             /\ At("assign")' => tick'.kind = "warm"
    <2>1. PICK day \in Day : day = LocalDate(tick.at)
      BY <1>4, TickType, DayOf DEF TypeInv, At
    <2>2. PICK limit \in LimitColdMin..LimitColdMax : quota' = WithQuota(day, limit)
      BY <1>4, <2>1
    <2>3. /\ DOMAIN quota' = DOMAIN quota \cup {day}
          /\ \A d \in DOMAIN quota : quota'[d] = quota[d]
      BY <2>2, QuotaRow DEF TypeInv
    <2> QED BY <1>4, <2>3, PacedKept
  <1>5. CASE TryReserveColdSlot
    <2>1. Picked
      BY <1>5 DEF TryReserveColdSlot, Picked
    <2>2. PICK day \in Day : day = LocalDate(tick.at)
      BY <2>1, PickedRow
    <2>3. day \in DOMAIN quota /\ quota[day] \in Quota /\ tick.at \in Nat
      BY <2>1, <2>2, PickedRow
    <2>4. /\ UNCHANGED <<outbox, faults>> /\ DOMAIN quota' = DOMAIN quota
          /\ \A d \in DOMAIN quota : d # day => quota'[d] = quota[d]
          /\ \/ quota' = quota /\ tick' = Idle
             \/ /\ Paced(quota[day], tick.at, tick.interval)
                /\ quota'[day].last = tick.at /\ tick'.at = tick.at
                /\ tick.interval \in ColdInterval
      BY <1>5, <2>2, Reservation
    <2>5. CASE quota' = quota /\ tick' = Idle
      BY <1>3, <2>4, <2>5 DEF At
    <2>6. CASE /\ Paced(quota[day], tick.at, tick.interval)
               /\ quota'[day].last = tick.at /\ tick'.at = tick.at
               /\ tick.interval \in ColdInterval
      <3>1. PICK i \in ColdInterval : i = tick.interval
        BY <2>6
      <3>2. i \in Nat
        BY LimitAssumption
      <3>3. ASSUME NEW x \in outbox, x.kind = "cold", LocalDate(x.at) = day
            PROVE  x.at + i <= tick.at
        <4>1. x.at \in Nat /\ x.at <= quota[day].last
          BY <1>1, <3>3 DEF PacedInv
        <4>2. quota[day].last \in {Never} \cup Nat
          BY <2>3, ClockAssumption DEF Quota
        <4>3. quota[day].last # Never
          BY <4>1 DEF Never
        <4>4. quota[day].last \in Nat /\ quota[day].last + i <= tick.at
          BY <2>6, <3>1, <4>2, <4>3 DEF Paced
        <4> QED BY <2>3, <3>2, <4>1, <4>4
      <3>4. ASSUME NEW x \in outbox, x.kind = "cold"
            PROVE  /\ LocalDate(x.at) \in DOMAIN quota'
                   /\ x.at <= quota'[LocalDate(x.at)].last
        <4>1. CASE LocalDate(x.at) = day
          BY <1>1, <2>3, <2>4, <2>6, <3>2, <3>3, <3>4, <4>1
        <4>2. CASE LocalDate(x.at) # day
          BY <2>4, <3>4, <4>2 DEF PacedInv
        <4> QED BY <4>1, <4>2
      <3>5. ColdPaced'
        BY <2>4 DEF PacedInv, ColdPaced
      <3>6. LocalDate(tick'.at) = day
        BY <2>2, <2>6
      <3> QED BY <2>4, <2>6, <3>3, <3>4, <3>5, <3>6 DEF PacedInv
    <2> QED BY <2>4, <2>5, <2>6
  <1>6. CASE AssignAccountAndEnqueue
    <2>1. Picked /\ At("assign") /\ quota' = quota /\ AfterAssign
      BY <1>6 DEF AssignAccountAndEnqueue, Picked
    <2>2. ~At("assign")'
      BY <2>1, AfterAssignTick DEF At
    <2>3. LocalDate(tick.at) \in DOMAIN quota /\ tick.at \in Nat
      BY <2>1, PickedRow
    <2>4. outbox' = outbox \cup {NewDose}
      BY <1>6 DEF AssignAccountAndEnqueue, NewDose
    <2>5. NewDose.kind = tick.kind /\ NewDose.at = tick.at
      BY DEF NewDose
    <2>6. NewDose.kind = "cold" => NewDose.at <= quota[LocalDate(NewDose.at)].last
      BY <2>1, <2>3, <2>5 DEF PacedInv
    <2>7. ASSUME NEW x \in outbox, x.kind = "cold", NewDose.kind = "cold",
                 LocalDate(x.at) = LocalDate(NewDose.at)
          PROVE  \E i \in ColdInterval : x.at + i <= NewDose.at
      BY <2>1, <2>5, <2>7 DEF PacedInv
    <2>8. ColdPaced'
      BY <2>4, <2>7 DEF PacedInv, ColdPaced
    <2>9. ASSUME NEW x \in outbox', x.kind = "cold"
          PROVE  /\ LocalDate(x.at) \in DOMAIN quota
                 /\ x.at <= quota[LocalDate(x.at)].last
      BY <2>3, <2>4, <2>5, <2>6, <2>9 DEF PacedInv
    <2> QED BY <2>1, <2>2, <2>8, <2>9 DEF PacedInv
  <1>7. CASE AssignNotEligible
    <2>1. /\ UNCHANGED <<quota, outbox>>
          /\ At("assign") /\ AfterAssign
      BY <1>7 DEF AssignNotEligible
    <2>2. ~At("assign")'
      BY <2>1, AfterAssignTick DEF At
    <2> QED BY <1>3, <2>1, <2>2
  <1>8. CASE IncrementWarmUsed
    <2>1. /\ tick' = Idle /\ UNCHANGED outbox
          /\ quota' = [quota EXCEPT ![LocalDate(tick.at)].warm = @ + 1]
      BY <1>8 DEF IncrementWarmUsed
    <2>2. /\ DOMAIN quota' = DOMAIN quota
          /\ \A d \in DOMAIN quota : quota'[d].last = quota[d].last
      BY <2>1 DEF Quota, TypeInv, TypeOK
    <2> QED BY <2>1, <2>2, PacedKept DEF At
  <1>9. StepKind
    BY StepKinds
  <1>10. At("reserve")' => ~At("assign")'
    BY DEF At
  <1>11. ~Picked' => ~At("assign")'
    BY DEF Picked
  <1> QED BY <1>2, <1>3, <1>4, <1>5, <1>6, <1>7, <1>8, <1>9, <1>10, <1>11
          DEF StepKind

\* Cold messages of a day are an interval apart, although a slot may be
\* reserved that no message uses.
THEOREM ColdPacedHolds == Spec => []ColdPaced
  <1>1. Init => OutboxInv /\ PacedInv
    BY FS_EmptySet DEF Init, OutboxInv, PacedInv, ColdPaced, At
  <1>2. TypeInv /\ OutboxInv /\ PacedInv /\ [Next]_vars => OutboxInv' /\ PacedInv'
    BY OutboxStep, PacedStep
  <1>3. PacedInv => ColdPaced
    BY DEF PacedInv
  <1> QED BY <1>1, <1>2, <1>3, TypeInvariant, PTL DEF Spec

-----------------------------------------------------------------------------
(* The warm quota.                                                         *)

WarmUsed(d) == IF d \in DOMAIN quota THEN quota[d].warm ELSE 0

\* The message of this tick is enqueued and not counted yet.
Counting(d) == IF At("count") /\ LocalDate(tick.at) = d THEN 1 ELSE 0

\* What is enqueued is counted, but for the ticks that were cut short and the
\* one under way; a tick that may enqueue or count leaves room for one.
WarmInv ==
  /\ \A d \in Day :
       /\ Cardinality(DosesOn("warm", d)) <= WarmUsed(d) + faults + Counting(d)
       /\ WarmUsed(d) <= LimitWarmDaily
  /\ (At("assign") /\ tick.kind = "warm") \/ At("count") =>
       WarmUsed(LocalDate(tick.at)) + 1 <= LimitWarmDaily

LEMMA WarmStep ==
  ASSUME TypeInv, OutboxInv, WarmInv, [Next]_vars
  PROVE  WarmInv'
  <1>1. ASSUME NEW d \in Day
        PROVE  /\ Cardinality(DosesOn("warm", d)) \in Nat
               /\ WarmUsed(d) \in Nat /\ Counting(d) \in Nat
    <2>1. Cardinality(DosesOn("warm", d)) \in Nat
      BY FS_Subset, FS_CardinalityType DEF OutboxInv, DosesOn
    <2> QED BY <2>1 DEF WarmUsed, Counting, TypeInv, TypeOK, Quota
  <1>2. faults \in Nat /\ LimitWarmDaily \in Nat
    BY LimitAssumption, ClockAssumption DEF TypeInv, TypeOK
  <1>3. CASE UNCHANGED <<quota, outbox, tick, faults>>
    BY <1>3, DosesKept DEF WarmInv, WarmUsed, Counting, At
  <1>4. CASE /\ UNCHANGED <<quota, outbox>> /\ ~Picked'
             /\ \/ faults' = faults /\ ~At("count")
                \/ faults' = faults + 1
    <2>1. \A d \in Day : /\ WarmUsed(d)' = WarmUsed(d) /\ Counting(d)' = 0
                         /\ DosesOn("warm", d)' = DosesOn("warm", d)
      BY <1>4, DosesKept DEF WarmUsed, Counting, Picked
    <2>2. \A d \in Day : faults + Counting(d) <= faults'
      BY <1>2, <1>4 DEF Counting
    <2>3. faults' \in Nat
      BY <1>2, <1>4
    <2>4. ~At("assign")' /\ ~At("count")'
      BY <1>4 DEF Picked
    <2> QED BY <1>1, <1>2, <2>1, <2>2, <2>3, <2>4 DEF WarmInv
  <1>5. CASE /\ UNCHANGED <<outbox, faults>> /\ At("listed")
             /\ \E limit \in LimitColdMin..LimitColdMax :
                  quota' = WithQuota(LocalDate(tick.at), limit)
             /\ \/ ~Picked'
                \/ At("reserve")'
                \/ At("assign")' /\ tick'.kind = "warm" /\ tick'.at = tick.at
                   /\ WarmOpen(quota'[LocalDate(tick.at)])
    <2>1. PICK day \in Day : day = LocalDate(tick.at)
      BY <1>5, TickType, DayOf DEF TypeInv, At
    <2>2. PICK limit \in LimitColdMin..LimitColdMax : quota' = WithQuota(day, limit)
      BY <1>5, <2>1
    <2>3. /\ DOMAIN quota' = DOMAIN quota \cup {day}
          /\ \A d \in DOMAIN quota : quota'[d] = quota[d]
          /\ day \notin DOMAIN quota =>
               quota'[day] = [limit |-> limit, cold |-> 0, warm |-> 0, last |-> Never]
      BY <2>2, QuotaRow DEF TypeInv
    <2>4. \A d \in Day : WarmUsed(d)' = WarmUsed(d)
      BY <2>3 DEF WarmUsed
    <2>5. \A d \in Day : /\ DosesOn("warm", d)' = DosesOn("warm", d)
                         /\ Counting(d) = 0 /\ Counting(d)' = 0
      BY <1>5, DosesKept DEF Counting, At, Picked
    <2>6. \/ ~(At("assign") /\ tick.kind = "warm")' /\ ~At("count")'
          \/ /\ tick'.at = tick.at /\ ~At("count")'
             /\ quota'[day].warm < LimitWarmDaily
      BY <1>5, <2>1 DEF Picked, At, WarmOpen
    <2>7. quota'[day].warm < LimitWarmDaily => WarmUsed(day)' + 1 <= LimitWarmDaily
      BY <1>1, <1>2, <2>3, <2>4 DEF WarmUsed
    <2>8. ASSUME (At("assign") /\ tick.kind = "warm")' \/ At("count")'
          PROVE  WarmUsed(LocalDate(tick.at))' + 1 <= LimitWarmDaily
      <3>1. LocalDate(tick.at)' = day /\ WarmUsed(day)' + 1 <= LimitWarmDaily
        BY <2>1, <2>6, <2>7, <2>8 DEF LocalDate
      <3> QED BY <3>1 DEF WarmUsed
    <2>9. faults' = faults
      BY <1>5
    <2> QED BY <2>4, <2>5, <2>8, <2>9 DEF WarmInv
  <1>6. CASE TryReserveColdSlot
    <2>1. Picked /\ At("reserve")
      BY <1>6 DEF TryReserveColdSlot, Picked
    <2>2. PICK day \in Day : day = LocalDate(tick.at)
      BY <2>1, PickedRow
    <2>3. /\ UNCHANGED <<outbox, faults>> /\ DOMAIN quota' = DOMAIN quota
          /\ \A d \in DOMAIN quota : d # day => quota'[d] = quota[d]
          /\ \/ quota' = quota /\ tick' = Idle
             \/ /\ quota'[day].warm = quota[day].warm
                /\ tick'.step = "assign" /\ tick'.kind = "cold"
      BY <1>6, <2>2, Reservation
    <2>4. \A d \in Day : /\ WarmUsed(d)' = WarmUsed(d)
                         /\ DosesOn("warm", d)' = DosesOn("warm", d)
                         /\ Counting(d) = 0 /\ Counting(d)' = 0
      BY <2>1, <2>3, DosesKept DEF WarmUsed, Counting, At
    <2>5. ~(At("assign") /\ tick.kind = "warm")' /\ ~At("count")'
      BY <2>3 DEF At
    <2> QED BY <2>3, <2>4, <2>5 DEF WarmInv
  <1>7. ASSUME At("assign"), AfterAssign, UNCHANGED <<quota, faults>>
        PROVE  /\ \A d \in Day : WarmUsed(d)' = WarmUsed(d) /\ Counting(d) = 0
               /\ ~At("assign")'
               /\ IF tick.kind = "warm"
                  THEN At("count")' /\ tick'.at = tick.at
                  ELSE ~At("count")'
    BY <1>7, AfterAssignTick DEF WarmUsed, Counting, At
  <1>8. CASE AssignAccountAndEnqueue
    <2>1. Picked /\ At("assign") /\ UNCHANGED <<quota, faults>> /\ AfterAssign
      BY <1>8 DEF AssignAccountAndEnqueue, Picked
    <2>2. PICK day \in Day : day = LocalDate(tick.at)
      BY <2>1, PickedRow
    <2>3. ASSUME NEW d \in Day
          PROVE  \/ /\ tick.kind = "warm" /\ d = day
                    /\ Cardinality(DosesOn("warm", d)')
                         = Cardinality(DosesOn("warm", d)) + 1
                 \/ DosesOn("warm", d)' = DosesOn("warm", d)
      BY <1>8, <2>2, DoseOnDay
    <2>4. CASE tick.kind = "warm"
      <3>1. At("count")' /\ LocalDate(tick'.at) = day /\ ~At("assign")'
        BY <1>7, <2>1, <2>2, <2>4
      <3>2. Counting(day)' = 1 /\ \A d \in Day : d # day => Counting(d)' = 0
        BY <3>1 DEF Counting
      <3>3. ASSUME NEW d \in Day
            PROVE  /\ WarmUsed(d)' = WarmUsed(d)
                   /\ Cardinality(DosesOn("warm", d)') <= WarmUsed(d) + faults + Counting(d)'
                   /\ WarmUsed(d) <= LimitWarmDaily
        <4>1. /\ Cardinality(DosesOn("warm", d)) <= WarmUsed(d) + faults
              /\ WarmUsed(d)' = WarmUsed(d) /\ WarmUsed(d) <= LimitWarmDaily
          BY <1>1, <1>2, <1>7, <2>1 DEF WarmInv
        <4>2. CASE d = day
          BY <1>1, <1>2, <2>3, <3>2, <4>1, <4>2
        <4>3. CASE d # day
          BY <1>1, <1>2, <2>3, <3>2, <4>1, <4>3
        <4> QED BY <4>1, <4>2, <4>3
      <3>4. WarmUsed(day)' + 1 <= LimitWarmDaily
        BY <2>1, <2>2, <2>4, <3>3 DEF WarmInv
      <3>5. LocalDate(tick.at)' = day
        BY <3>1 DEF LocalDate
      <3> QED BY <2>1, <3>3, <3>4, <3>5 DEF WarmInv, WarmUsed
    <2>5. CASE tick.kind # "warm"
      <3>1. /\ ~At("count")' /\ ~At("assign")'
            /\ \A d \in Day : WarmUsed(d)' = WarmUsed(d) /\ Counting(d) = 0
        BY <1>7, <2>1, <2>5
      <3>2. \A d \in Day : /\ Counting(d)' = 0
                           /\ DosesOn("warm", d)' = DosesOn("warm", d)
        BY <2>3, <2>5, <3>1 DEF Counting
      <3> QED BY <2>1, <3>1, <3>2 DEF WarmInv
    <2> QED BY <2>4, <2>5
  <1>9. CASE AssignNotEligible
    <2>1. Picked /\ At("assign") /\ UNCHANGED <<quota, outbox, faults>> /\ AfterAssign
      BY <1>9 DEF AssignNotEligible, Picked
    <2>2. \A d \in Day : /\ WarmUsed(d)' = WarmUsed(d) /\ Counting(d) = 0
                         /\ DosesOn("warm", d)' = DosesOn("warm", d)
      BY <1>7, <2>1, DosesKept
    <2>3. \A d \in Day : Counting(d)' \in {0, 1}
      BY DEF Counting
    <2>4. PICK day \in Day : day = LocalDate(tick.at)
      BY <2>1, PickedRow
    <2>5. ~At("assign")'
      BY <1>7, <2>1
    <2>6. At("count")' => /\ LocalDate(tick.at)' = day
                          /\ WarmUsed(day)' + 1 <= LimitWarmDaily
      <3>1. At("count")' => tick.kind = "warm" /\ tick'.at = tick.at
        BY <1>7, <2>1
      <3>2. tick.kind = "warm" => WarmUsed(day) + 1 <= LimitWarmDaily
        BY <2>1, <2>4 DEF WarmInv
      <3> QED BY <2>2, <2>4, <3>1, <3>2 DEF LocalDate
    <2>7. ASSUME NEW d \in Day
          PROVE  Cardinality(DosesOn("warm", d)') <= WarmUsed(d)' + faults + Counting(d)'
      BY <1>1, <1>2, <2>2, <2>3 DEF WarmInv
    <2>8. \A d \in Day : WarmUsed(d)' <= LimitWarmDaily
      BY <2>2 DEF WarmInv
    <2> QED BY <2>1, <2>5, <2>6, <2>7, <2>8 DEF WarmInv, WarmUsed
  <1>10. CASE IncrementWarmUsed
    <2>1. /\ tick' = Idle /\ UNCHANGED <<outbox, faults>> /\ At("count") /\ Picked
          /\ quota' = [quota EXCEPT ![LocalDate(tick.at)].warm = @ + 1]
      BY <1>10 DEF IncrementWarmUsed, Picked
    <2>2. PICK day \in DOMAIN quota : day = LocalDate(tick.at)
      BY <2>1, PickedRow
    <2>3. \A d \in DOMAIN quota : quota[d] \in Quota
      BY DEF TypeInv, TypeOK
    <2>4. /\ DOMAIN quota' = DOMAIN quota
          /\ quota'[day].warm = quota[day].warm + 1
          /\ \A d \in DOMAIN quota : d # day => quota'[d] = quota[d]
      BY <2>1, <2>2, <2>3 DEF Quota
    <2>5. \A d \in Day : /\ WarmUsed(d)' = WarmUsed(d) + Counting(d)
                         /\ Counting(d)' = 0
                         /\ DosesOn("warm", d)' = DosesOn("warm", d)
      <3>1. ASSUME NEW d \in Day
            PROVE  WarmUsed(d)' = WarmUsed(d) + Counting(d) /\ Counting(d)' = 0
        <4>1. CASE d = day
          BY <2>1, <2>2, <2>4, <4>1 DEF WarmUsed, Counting, At
        <4>2. CASE d # day
          BY <1>1, <2>1, <2>2, <2>4, <4>2 DEF WarmUsed, Counting, At
        <4> QED BY <4>1, <4>2
      <3> QED BY <2>1, <3>1, DosesKept
    <2>6. ASSUME NEW d \in Day
          PROVE  /\ Cardinality(DosesOn("warm", d)') <= WarmUsed(d)' + faults + Counting(d)'
                 /\ WarmUsed(d)' <= LimitWarmDaily
      <3>1. Cardinality(DosesOn("warm", d)') <= WarmUsed(d)' + faults + Counting(d)'
        BY <1>1, <1>2, <2>5 DEF WarmInv
      <3>2. CASE d = day
        BY <1>1, <1>2, <2>1, <2>2, <2>5, <3>1, <3>2 DEF WarmInv, Counting
      <3>3. CASE d # day
        BY <1>1, <1>2, <2>1, <2>2, <2>5, <3>1, <3>3 DEF WarmInv, Counting
      <3> QED BY <3>1, <3>2, <3>3
    <2>7. ~At("assign")' /\ ~At("count")'
      BY <2>1 DEF At
    <2> QED BY <2>1, <2>6, <2>7 DEF WarmInv
  <1>11. StepKind
    BY StepKinds
  <1> QED BY <1>3, <1>4, <1>5, <1>6, <1>8, <1>9, <1>10, <1>11 DEF StepKind

\* The warm messages of a day exceed the limit by the ticks that were cut
\* short between the message and its count, at most.
THEOREM WarmQuotaKeptHolds == Spec => []WarmQuotaKept
  <1>1. Init => OutboxInv /\ WarmInv
    <2> SUFFICES ASSUME Init PROVE OutboxInv /\ WarmInv
      OBVIOUS
    <2>1. \A d \in Day : WarmUsed(d) = 0 /\ Counting(d) = 0 /\ DosesOn("warm", d) = {}
      BY DEF Init, WarmUsed, Counting, At, DosesOn
    <2>2. faults = 0 /\ LimitWarmDaily \in Nat /\ outbox = {} /\ tick = Idle
      BY LimitAssumption DEF Init
    <2> QED BY <2>1, <2>2, FS_EmptySet DEF OutboxInv, WarmInv, At
  <1>2. TypeInv /\ OutboxInv /\ WarmInv /\ [Next]_vars => OutboxInv' /\ WarmInv'
    BY OutboxStep, WarmStep
  <1>3. TypeInv /\ OutboxInv /\ WarmInv => WarmQuotaKept
    <2> SUFFICES ASSUME TypeInv, OutboxInv, WarmInv, NEW d \in Day
                 PROVE  Cardinality(DosesOn("warm", d)) <= LimitWarmDaily + faults
      BY DEF WarmQuotaKept
    <2>1. /\ Cardinality(DosesOn("warm", d)) \in Nat /\ faults \in Nat
          /\ WarmUsed(d) \in Nat /\ LimitWarmDaily \in Nat
      <3>1. Cardinality(DosesOn("warm", d)) \in Nat
        BY FS_Subset, FS_CardinalityType DEF OutboxInv, DosesOn
      <3> QED BY <3>1, LimitAssumption, ClockAssumption
              DEF WarmUsed, TypeInv, TypeOK, Quota
    <2>2. WarmUsed(d) + Counting(d) <= LimitWarmDaily
      BY <2>1 DEF WarmInv, Counting
    <2>3. Counting(d) \in Nat
      BY DEF Counting
    <2> QED BY <2>1, <2>2, <2>3 DEF WarmInv
  <1> QED BY <1>1, <1>2, <1>3, TypeInvariant, PTL DEF Spec
=============================================================================
