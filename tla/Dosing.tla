------------------------------- MODULE Dosing -------------------------------
(***************************************************************************)
(* The rate limits of the doser: which target a tick of CampaignDoser may  *)
(* dose, to which account, and what it counts.  A tick is several database *)
(* calls; what it read in one of them (the clock, the list of assignable   *)
(* accounts, the target) is used by the later ones, while results of the   *)
(* workers change targets and send accounts into cooldown in between.      *)
(*                                                                         *)
(* One tenant with one campaign in processing, and one doser, as main.go   *)
(* starts it.  Account holds the accounts that are not disabled.  Time is  *)
(* counted in slots; a day is DayLength slots and the configured timezone  *)
(* is UtcOffset slots ahead of UTC.  The blocklist is left to SendPipeline *)
(* and the order in which eligible targets and accounts are met (oldest    *)
(* first, round robin) is any order.                                       *)
(***************************************************************************)
EXTENDS Domain, Integers, FiniteSets

CONSTANTS
  Target, Account,
  NoAccount,            \* no chat with the recipient is known
  Idle,                 \* the doser is between two ticks
  DailyLimit,           \* tenant_accounts.daily_limit
  LimitWarmDaily, LimitColdMin, LimitColdMax,
  ColdInterval,         \* the values RandomColdInterval may return
  RetryDelay, AccountCooldown, MaxRetryAttempts,
  WorkerOutcome,        \* outcomes a worker reports of a message
  DayLength, UtcOffset, WorkWindowStart, WorkWindowEnd,
  MaxTime,              \* bound on the clock
  MaxFaults             \* bound on crashes and failed writes

ASSUME LimitAssumption ==
  /\ DailyLimit \in [Account -> Nat]
  /\ LimitWarmDaily \in Nat
  /\ LimitColdMin \in Nat /\ LimitColdMax \in Nat
  /\ LimitColdMin <= LimitColdMax
  /\ ColdInterval \subseteq Nat /\ ColdInterval # {}
ASSUME RetryAssumption ==
  /\ RetryDelay \in Nat /\ AccountCooldown \in Nat
  /\ MaxRetryAttempts \in Nat \ {0}
  /\ WorkerOutcome \subseteq Outcome
ASSUME ClockAssumption ==
  /\ DayLength \in Nat \ {0} /\ UtcOffset \in Nat
  /\ WorkWindowStart \in Nat /\ WorkWindowEnd \in Nat
  /\ MaxTime \in Nat /\ MaxFaults \in Nat
ASSUME NullAssumption == NoAccount \notin Account

VARIABLES
  now,          \* the clock, in UTC
  status,       \* campaign_targets.status
  attempt,      \* campaign_targets.attempt_count
  nextAttempt,  \* campaign_targets.next_attempt_at, 0 when null
  contact,      \* chat_phone_mappings.tenant_account_id of the recipient
  coolUntil,    \* tenant_accounts.cooldown_until, 0 when null
  used,         \* tenant_account_daily_usage.used_count, 0 without a row
  quota,        \* tenant_daily_quotas, keyed by quota_date
  outbox,       \* outbox_messages: what was dosed, when and to whom
  tick,         \* the locals of doseTenant and scheduleTarget
  since,        \* observation: doses of an account since its last cooldown
  faults        \* observation: ticks cut short

targetVars  == <<status, attempt, nextAttempt>>
accountVars == <<coolUntil, used, since>>
vars == <<now, targetVars, contact, accountVars, quota, outbox, tick, faults>>

LocalDate(t) == (t + UtcOffset) \div DayLength
UtcDate(t) == t \div DayLength
Day == 0 .. LocalDate(MaxTime)
Never == -1

IsWithinWorkWindow(t) ==
  LET s == (t + UtcOffset) % DayLength
  IN  WorkWindowStart <= s /\ s < WorkWindowEnd

NextDayWorkStart(t) ==
  LET start == LocalDate(t) * DayLength + WorkWindowStart - UtcOffset
  IN  IF t < start THEN start ELSE start + DayLength

Dose == [target : Target, attempt : Nat, account : Account,
         kind : {"cold", "warm"}, at : 0..MaxTime]
Quota == [limit : LimitColdMin..LimitColdMax, cold : Nat, warm : Nat,
          last : {Never} \cup 0..MaxTime]
Listed == [step : {"listed"}, at : 0..MaxTime, accounts : SUBSET Account]
Chosen == [step : {"reserve", "assign", "count"}, at : 0..MaxTime,
           kind : {"cold", "warm"}, target : Target, account : Account,
           interval : ColdInterval \cup {0}]

ASSUME IdleAssumption == Idle \notin Listed \cup Chosen

TypeOK ==
  /\ now \in 0..MaxTime
  /\ status \in [Target -> TaskStatus]
  /\ attempt \in [Target -> Nat]
  /\ nextAttempt \in [Target -> Int]
  /\ contact \in [Target -> Account \cup {NoAccount}]
  /\ coolUntil \in [Account -> Nat]
  /\ used \in [Account -> [Day -> Nat]]
  /\ DOMAIN quota \subseteq Day
  /\ quota \in [DOMAIN quota -> Quota]
  /\ outbox \subseteq Dose
  /\ tick \in {Idle} \cup Listed \cup Chosen
  /\ since \in [Account -> Nat]
  /\ faults \in 0..MaxFaults

Init ==
  /\ now = 0
  /\ status = [t \in Target |-> "pending"]
  /\ attempt = [t \in Target |-> 0]
  /\ nextAttempt = [t \in Target |-> 0]
  /\ contact \in [Target -> Account \cup {NoAccount}]
  /\ coolUntil = [a \in Account |-> 0]
  /\ used = [a \in Account |-> [d \in Day |-> 0]]
  /\ quota = [d \in {} |-> 0]
  /\ outbox = {}
  /\ tick = Idle
  /\ since = [a \in Account |-> 0]
  /\ faults = 0

-----------------------------------------------------------------------------
(* A tick: doseTenant                                                      *)

At(s) == tick # Idle /\ tick.step = s

\* Mutants: the account list without the cooldown, and with an off-by-one.
AssignableIgnoringCooldown(a) == used[a][LocalDate(now)] < DailyLimit[a]
AssignableAtLimit(a) ==
  coolUntil[a] <= now /\ used[a][LocalDate(now)] <= DailyLimit[a]

\* The usage looked at is that of the local date, the one reserved later is
\* that of the UTC date.
Assignable(a) ==
  /\ coolUntil[a] <= now
  /\ used[a][LocalDate(now)] < DailyLimit[a]

\* ListAssignableTenantAccounts, with the clock the whole tick will use.
ListAccounts ==
  /\ tick = Idle
  /\ tick' = [step |-> "listed", at |-> now,
              accounts |-> {a \in Account : Assignable(a)}]
  /\ UNCHANGED <<now, targetVars, contact, accountVars, quota, outbox, faults>>

\* No account can send: due retries wait for the next work day.
DeferRetryTargets ==
  /\ At("listed") /\ tick.accounts = {}
  /\ nextAttempt' =
       [t \in Target |-> IF status[t] = "retry_pending" /\ nextAttempt[t] <= now
                         THEN NextDayWorkStart(tick.at) ELSE nextAttempt[t]]
  /\ tick' = Idle
  /\ UNCHANGED <<now, status, attempt, contact, accountVars, quota, outbox,
                 faults>>

\* The claim condition, in the selection and again in the assignment.
Eligible(t) ==
  \/ status[t] = "pending" /\ attempt[t] = 0
  \/ status[t] = "retry_pending" /\ nextAttempt[t] <= now

WarmTargets == {t \in Target : Eligible(t) /\ contact[t] # NoAccount}
ColdTargets == {t \in Target : Eligible(t) /\ contact[t] = NoAccount}

\* Mutants: the conflict overwrites the row of the day; a limit drawn from
\* one past the configured range.
WithQuotaOverwritten(day, limit) ==
  [d \in DOMAIN quota \cup {day} |->
     IF d = day THEN [limit |-> limit, cold |-> 0, warm |-> 0, last |-> Never]
     ELSE quota[d]]
WithQuotaPastRange(day, limit) ==
  IF day \in DOMAIN quota THEN quota
  ELSE [d \in DOMAIN quota \cup {day} |->
          IF d = day THEN [limit |-> limit + 1, cold |-> 0, warm |-> 0, last |-> Never]
          ELSE quota[d]]

\* GetOrCreateTenantDailyQuota: the table after it ran for the day.  Only
\* the doser writes it, so the values stay good for the whole tick.
WithQuota(day, limit) ==
  IF day \in DOMAIN quota THEN quota
  ELSE [d \in DOMAIN quota \cup {day} |->
          IF d = day THEN [limit |-> limit, cold |-> 0, warm |-> 0, last |-> Never]
          ELSE quota[d]]

\* The account of the chat if it can send, any other otherwise.
PickAccount(t) ==
  IF contact[t] \in tick.accounts THEN {contact[t]} ELSE tick.accounts

Choose(step, kind, t, a, i) ==
  tick' = [step |-> step, at |-> tick.at, kind |-> kind, target |-> t,
           account |-> a, interval |-> i]

WarmOpen(q) == q.warm < LimitWarmDaily
\* Mutant: the interval left out of the comparison.
PacedWithoutInterval(q, at, i) == q.last = Never \/ q.last <= at
Paced(q, at, i) == q.last = Never \/ q.last + i <= at

ChooseWarm(t) ==
  /\ At("listed") /\ tick.accounts # {}
  /\ \E limit \in LimitColdMin..LimitColdMax :
       quota' = WithQuota(LocalDate(tick.at), limit)
  /\ WarmOpen(quota'[LocalDate(tick.at)])
  /\ t \in WarmTargets
  /\ \E a \in PickAccount(t) : Choose("assign", "warm", t, a, 0)
  /\ UNCHANGED <<now, targetVars, contact, accountVars, outbox, faults>>

\* No warm target, or no warm budget left today.
ChooseCold(t) ==
  /\ At("listed") /\ tick.accounts # {}
  /\ \E limit \in LimitColdMin..LimitColdMax :
       quota' = WithQuota(LocalDate(tick.at), limit)
  /\ LET q == quota'[LocalDate(tick.at)] IN
     /\ WarmOpen(q) => WarmTargets = {}
     /\ IsWithinWorkWindow(tick.at)
     /\ q.cold < q.limit
     /\ t \in ColdTargets
     /\ \E a \in PickAccount(t), i \in ColdInterval :
          Paced(q, tick.at, i) /\ Choose("reserve", "cold", t, a, i)
  /\ UNCHANGED <<now, targetVars, contact, accountVars, outbox, faults>>

NothingToDose ==
  /\ At("listed") /\ tick.accounts # {}
  /\ \E limit \in LimitColdMin..LimitColdMax :
       quota' = WithQuota(LocalDate(tick.at), limit)
  /\ LET q == quota'[LocalDate(tick.at)] IN
     /\ WarmOpen(q) => WarmTargets = {}
     /\ \/ ~IsWithinWorkWindow(tick.at)
        \/ q.cold >= q.limit
        \/ \E i \in ColdInterval : ~Paced(q, tick.at, i)
        \/ ColdTargets = {}
  /\ tick' = Idle
  /\ UNCHANGED <<now, targetVars, contact, accountVars, outbox, faults>>

-----------------------------------------------------------------------------
(* scheduleTarget                                                          *)

\* TryReserveColdSlot: one conditional update.
TryReserveColdSlot ==
  /\ At("reserve")
  /\ LET day == LocalDate(tick.at)
         q   == quota[day]
         ok  == q.cold < q.limit /\ Paced(q, tick.at, tick.interval)
     IN /\ quota' = IF ok THEN [quota EXCEPT ![day].cold = @ + 1,
                                             ![day].last = tick.at]
                          ELSE quota
        /\ tick' = IF ok THEN [tick EXCEPT !.step = "assign"] ELSE Idle
  /\ UNCHANGED <<now, targetVars, contact, accountVars, outbox, faults>>

\* Mutant: an off-by-one in the guard of the upsert.
SlotLeftAtLimit(a, day) == used[a][day] = 0 \/ used[a][day] <= DailyLimit[a]

\* The upsert of the usage row takes a slot: no row yet, or one below the
\* limit of the account.
SlotLeft(a, day) == used[a][day] = 0 \/ used[a][day] < DailyLimit[a]

\* Mutant: the warm dose is not counted.
AfterAssignUncounted == tick' = Idle

\* A warm dose is counted in a statement of its own, a cold one was counted
\* before.
AfterAssign ==
  tick' = IF tick.kind = "warm" THEN [tick EXCEPT !.step = "count"] ELSE Idle

\* The row is locked and the claim condition asked again.
StillEligible == Eligible(tick.target)

\* AssignAccountAndEnqueueTarget commits.  The cooldown of the account is not
\* looked at again.
AssignAccountAndEnqueue ==
  /\ At("assign")
  /\ StillEligible
  /\ SlotLeft(tick.account, UtcDate(tick.at))
  /\ used' = [used EXCEPT ![tick.account][UtcDate(tick.at)] = @ + 1]
  /\ since' = [since EXCEPT ![tick.account] = @ + 1]
  /\ status' = [status EXCEPT ![tick.target] = "pending"]
  /\ attempt' = [attempt EXCEPT ![tick.target] = @ + 1]
  /\ nextAttempt' = [nextAttempt EXCEPT ![tick.target] = 0]
  /\ outbox' = outbox \cup
       {[target |-> tick.target, attempt |-> attempt[tick.target] + 1,
         account |-> tick.account, kind |-> tick.kind, at |-> tick.at]}
  /\ AfterAssign
  /\ UNCHANGED <<now, contact, coolUntil, quota, faults>>

\* The target was resolved since it was read: no error, nothing dosed, and a
\* warm slot is counted all the same.
AssignNotEligible ==
  /\ At("assign")
  /\ ~StillEligible
  /\ AfterAssign
  /\ UNCHANGED <<now, targetVars, contact, accountVars, quota, outbox, faults>>

\* "account daily limit exhausted"
AssignLimitExhausted ==
  /\ At("assign")
  /\ StillEligible
  /\ ~SlotLeft(tick.account, UtcDate(tick.at))
  /\ tick' = Idle
  /\ UNCHANGED <<now, targetVars, contact, accountVars, quota, outbox, faults>>

IncrementWarmUsed ==
  /\ At("count")
  /\ quota' = [quota EXCEPT ![LocalDate(tick.at)].warm = @ + 1]
  /\ tick' = Idle
  /\ UNCHANGED <<now, targetVars, contact, accountVars, outbox, faults>>

\* A statement of the tick fails, or the process stops and starts again.
TickCutShort ==
  /\ tick # Idle
  /\ faults < MaxFaults
  /\ faults' = faults + 1
  /\ tick' = Idle
  /\ UNCHANGED <<now, targetVars, contact, accountVars, quota, outbox>>

-----------------------------------------------------------------------------
(* Meanwhile                                                               *)

\* handleSendFailure and the other branches of flush, on the result of a
\* dosed message; a result may come late and may come twice.
ApplyResult(x, o) ==
  LET t == x.target
      retry == WriterOfResult(o) = "retry" /\ RetryAccepted(status[t])
      cools == retry /\ IsSessionHealthError(o.code)
  IN
  /\ status' = [status EXCEPT ![t] =
                  StatusAfterResult(@, attempt[t], MaxRetryAttempts, o)]
  /\ nextAttempt' = [nextAttempt EXCEPT ![t] =
                       CASE retry /\ attempt[t] < MaxRetryAttempts -> now + RetryDelay
                         [] retry /\ attempt[t] >= MaxRetryAttempts -> 0
                         [] WriterOfResult(o) = "unknown" /\ status'[t] # status[t] -> 0
                         [] OTHER -> @]
  /\ coolUntil' = IF cools
                  THEN [coolUntil EXCEPT ![x.account] = now + AccountCooldown]
                  ELSE coolUntil
  /\ since' = IF cools THEN [since EXCEPT ![x.account] = 0] ELSE since
  /\ UNCHANGED <<now, attempt, contact, used, quota, outbox, tick, faults>>

\* A result of another campaign records the chat of the same phone.
UpsertChatPhoneMapping(t, a) ==
  /\ contact[t] = NoAccount
  /\ contact' = [contact EXCEPT ![t] = a]
  /\ UNCHANGED <<now, targetVars, accountVars, quota, outbox, tick, faults>>

TimePasses ==
  /\ now < MaxTime
  /\ now' = now + 1
  /\ UNCHANGED <<targetVars, contact, accountVars, quota, outbox, tick, faults>>

Next ==
  \/ ListAccounts
  \/ DeferRetryTargets
  \/ \E t \in Target : ChooseWarm(t)
  \/ \E t \in Target : ChooseCold(t)
  \/ NothingToDose
  \/ TryReserveColdSlot
  \/ AssignAccountAndEnqueue
  \/ AssignNotEligible
  \/ AssignLimitExhausted
  \/ IncrementWarmUsed
  \/ TickCutShort
  \/ \E x \in outbox, o \in WorkerOutcome : ApplyResult(x, o)
  \/ \E t \in Target, a \in Account : UpsertChatPhoneMapping(t, a)
  \/ TimePasses

Spec == Init /\ [][Next]_vars

-----------------------------------------------------------------------------
(* Properties                                                              *)

DosesOf(a, day) == {x \in outbox : x.account = a /\ UtcDate(x.at) = day}
DosesOn(kind, day) == {x \in outbox : x.kind = kind /\ LocalDate(x.at) = day}

\* daily_limit: the usage counter of an account is the number of messages
\* enqueued for it on the UTC day, and never exceeds the limit, although the
\* account was picked by the usage of the local day.
DailyLimitKept ==
  \A a \in Account, d \in Day :
    /\ used[a][d] = Cardinality(DosesOf(a, d))
    /\ used[a][d] <= DailyLimit[a]

\* The cold quota: every cold message of a day had its slot reserved first,
\* and slots are never reserved beyond the day's limit; a slot may be lost
\* (crash, late result), a message is never sent without one.
ColdQuotaKept ==
  \A d \in Day :
    IF d \in DOMAIN quota
    THEN /\ Cardinality(DosesOn("cold", d)) <= quota[d].cold
         /\ quota[d].cold <= quota[d].limit
    ELSE DosesOn("cold", d) = {}

\* Cold messages of a day are at least the shortest interval apart.
ColdPaced ==
  \A x, y \in outbox :
    /\ x.kind = "cold" /\ y.kind = "cold"
    /\ LocalDate(x.at) = LocalDate(y.at)
    /\ x # y
    => \E i \in ColdInterval : x.at + i <= y.at \/ y.at + i <= x.at

\* The warm counter is written after the message is enqueued, in a statement
\* of its own: it misses a dose only when the tick is cut short between the
\* two, so the warm messages of a day exceed the limit by such ticks at most.
WarmQuotaKept ==
  \A d \in Day :
    Cardinality(DosesOn("warm", d)) <= LimitWarmDaily + faults

\* The list of accounts is read once per tick and the cooldown is not looked
\* at again: an account that has to cool down gets at most the one message
\* of the tick that was under way.
CooldownRespected ==
  \A a \in Account : now < coolUntil[a] => since[a] <= 1

\* The account a tick picked is refused by the daily limit only when the
\* local and the UTC date differ: by day the list and the reservation agree.
RefusedOnlyAcrossMidnight ==
  (At("assign") /\ LocalDate(tick.at) = UtcDate(tick.at))
    => SlotLeft(tick.account, UtcDate(tick.at))
=============================================================================
