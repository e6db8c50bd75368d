----------------------------- MODULE ChatRouting -----------------------------
(***************************************************************************)
(* How the orchestrator knows whose chat a chat id is.  A worker reports   *)
(* the chat it sent a message in; the result consumer keeps one chat per   *)
(* recipient in chat_phone_mappings.  The doser hands the chat id to the   *)
(* next message for the recipient, and an answer that carries only a chat  *)
(* id is resolved through the same row to a campaign target and, if the    *)
(* worker did not say, to the account that observed it.  That account      *)
(* notifies the admin, in the chat it has with the admin, kept in a table  *)
(* of its own (admin_chat_phone_mappings).                                 *)
(*                                                                         *)
(* The hard part is that a chat belongs to one sender account while a      *)
(* recipient may be written to by several: retries and later campaigns     *)
(* are dosed to whatever account can send, and results come late.          *)
(*                                                                         *)
(* One tenant and one messenger.  The status rules are the subject of      *)
(* SendPipeline, the duplicate check, the blocklist and the delays before  *)
(* a notification of ReplyHandling: a target is open to be dosed, in       *)
(* flight or closed, and a reply is registered when it is resolved.        *)
(***************************************************************************)
EXTENDS Naturals, FiniteSets

CONSTANTS
  Account,     \* sender accounts of the tenant
  Phone,       \* normalised phones of the recipients
  AdminPhone,  \* admin phones of the tenant; a recipient may be one of them
  Target,      \* campaign targets, of any campaign
  PhoneOf,     \* the phone of each target
  NoAccount, NoTarget, NoChat,
  MaxDoses,    \* attempts per target
  MaxReplies,  \* replies and notifications that are under way at a time
  MaxFaults    \* failed statements, messages handled twice

ASSUME PhoneAssumption == PhoneOf \in [Target -> Phone]
ASSUME NullAssumption ==
  NoAccount \notin Account /\ NoTarget \notin Target
ASSUME BoundAssumption ==
  MaxDoses \in Nat /\ MaxReplies \in Nat /\ MaxFaults \in Nat

VARIABLES
  (* Postgres *)
  mapping,    \* chat_phone_mappings, at most one row per phone
  admin,      \* admin_chat_phone_mappings, one row per account and phone
  account,    \* campaign_targets.tenant_account_id
  state,      \* "open", "in_flight" or "closed"
  doses,      \* campaign_targets.attempt_count
  (* the doser between two calls *)
  selected,   \* the target, and what was read of its mapping
  (* messages *)
  tasks,      \* send tasks in the account queues
  notices,    \* admin notifications in the account queues
  results,    \* unacknowledged results
  (* observations *)
  written,    \* chats in which a client was written to
  announced,  \* those of them that a worker reported
  dosedBy,    \* accounts that were given a target of each phone
  faults

tables == <<mapping, admin, account, state, doses>>
queues == <<tasks, notices, results>>
observed == <<written, announced, dosedBy>>
vars == <<tables, selected, queues, observed, faults>>

\* MAX: the chat an account has with a phone.
Chat == [account : Account, phone : Phone \cup AdminPhone]

Row == [chat : Chat, target : Target, account : Account]

Selection == [target : Target, chat : Chat \cup {NoChat},
              preferred : Account \cup {NoAccount}]

Task == [target : Target, account : Account, chat : Chat \cup {NoChat}]

Notice == [account : Account, phone : AdminPhone, chat : Chat \cup {NoChat},
           seenIn : Chat, told : BOOLEAN]

\* A reply without a target is an event of a chat; chat is where it was seen.
Result == [kind : {"sent", "failed", "reply", "admin"},
           target : Target \cup {NoTarget}, chat : Chat \cup {NoChat},
           account : Account \cup {NoAccount}]

NoSelection == [target |-> NoTarget, chat |-> NoChat, preferred |-> NoAccount]

TypeOK ==
  /\ DOMAIN mapping \subseteq Phone /\ mapping \in [DOMAIN mapping -> Row]
  /\ DOMAIN admin \subseteq Account \X AdminPhone
  /\ admin \in [DOMAIN admin -> Chat]
  /\ account \in [Target -> Account \cup {NoAccount}]
  /\ state \in [Target -> {"open", "in_flight", "closed"}]
  /\ doses \in [Target -> 0..MaxDoses]
  /\ selected \in Selection \cup {NoSelection}
  /\ tasks \subseteq Task
  /\ notices \subseteq Notice
  /\ results \subseteq Result
  /\ written \subseteq Chat /\ announced \subseteq written
  /\ dosedBy \in [Phone -> SUBSET Account]
  /\ faults \in 0..MaxFaults

Init ==
  /\ mapping = [p \in {} |-> NoChat]
  /\ admin = [k \in {} |-> NoChat]
  /\ account = [t \in Target |-> NoAccount]
  /\ state = [t \in Target |-> "open"]
  /\ doses = [t \in Target |-> 0]
  /\ selected = NoSelection
  /\ tasks = {} /\ notices = {} /\ results = {}
  /\ written = {} /\ announced = {}
  /\ dosedBy = [p \in Phone |-> {}]
  /\ faults = 0

Fault == faults < MaxFaults /\ faults' = faults + 1

-----------------------------------------------------------------------------
(* CampaignDoser                                                           *)

\* getNextPendingTarget joins the mapping of the phone.
SelectTarget(t) ==
  /\ selected = NoSelection
  /\ state[t] = "open" /\ doses[t] < MaxDoses
  /\ selected' =
       IF PhoneOf[t] \in DOMAIN mapping
       THEN [target |-> t, chat |-> mapping[PhoneOf[t]].chat,
             preferred |-> mapping[PhoneOf[t]].account]
       ELSE [target |-> t, chat |-> NoChat, preferred |-> NoAccount]
  /\ UNCHANGED <<tables, queues, observed, faults>>

\* The preferred account if it can send now, any of the others otherwise.
PickAccount(available) ==
  IF selected.preferred \in available THEN {selected.preferred} ELSE available

\* The task names the account that was picked and the chat that was read.
AssignAndEnqueue ==
  /\ selected # NoSelection
  /\ state[selected.target] = "open"
  /\ \E available \in SUBSET Account : \E a \in PickAccount(available) :
       /\ account' = [account EXCEPT ![selected.target] = a]
       /\ tasks' = tasks \cup {[target |-> selected.target, account |-> a,
                                chat |-> selected.chat]}
       /\ dosedBy' = [dosedBy EXCEPT ![PhoneOf[selected.target]] = @ \cup {a}]
  /\ state' = [state EXCEPT ![selected.target] = "in_flight"]
  /\ doses' = [doses EXCEPT ![selected.target] = @ + 1]
  /\ selected' = NoSelection
  /\ UNCHANGED <<mapping, admin, notices, results, written, announced, faults>>

\* Closed in the meantime, no slot left, or the transaction fails.
AssignRefused ==
  /\ selected # NoSelection
  /\ selected' = NoSelection
  /\ UNCHANGED <<tables, queues, observed, faults>>

-----------------------------------------------------------------------------
(* The MAX workers and the clients (external).                             *)

OwnChat(a, p) == [account |-> a, phone |-> p]

\* A worker writes in the chat of its own account: the one it is given or the
\* one it finds by phone.  A message that was published twice is handled twice.
TakeTask(m) ==
  \/ tasks' = tasks \ {m} /\ UNCHANGED faults
  \/ Fault /\ UNCHANGED tasks

SendSucceeds(m) ==
  LET c == OwnChat(m.account, PhoneOf[m.target]) IN
  /\ TakeTask(m)
  /\ results' = results \cup {[kind |-> "sent", target |-> m.target, chat |-> c,
                               account |-> m.account]}
  /\ written' = written \cup {c}
  /\ announced' = announced \cup {c}
  /\ UNCHANGED <<tables, selected, notices, dosedBy>>

\* A failure carries no chat; the client may have been written to.
SendFails(m) ==
  /\ TakeTask(m)
  /\ results' = results \cup {[kind |-> "failed", target |-> m.target,
                               chat |-> NoChat, account |-> m.account]}
  /\ written' \in {written, written \cup {OwnChat(m.account, PhoneOf[m.target])}}
  /\ UNCHANGED <<tables, selected, notices, announced, dosedBy>>

\* The client answers.  The worker of the account reports the event of the
\* chat, with or without its account; a poll reports the target it asked for.
ClientReplies(c) ==
  /\ c \in written
  /\ Cardinality(notices) + Cardinality({r \in results : r.kind = "reply"})
       < MaxReplies
  /\ \E r \in [kind : {"reply"}, chat : {c},
               target : {NoTarget} \cup {t \in Target : PhoneOf[t] = c.phone
                                                        /\ doses[t] > 0},
               account : {c.account, NoAccount}] :
       /\ r.target # NoTarget => r.account = NoAccount
       /\ results' = results \cup {r}
  /\ UNCHANGED <<tables, selected, tasks, notices, observed, faults>>

\* The notification of one admin phone is sent; the result carries the chat
\* and, unless the worker is an old one, the account.
NotifyAdmin(n) ==
  /\ notices' = notices \ {n}
  /\ \E a \in {n.account, NoAccount} :
       results' = results \cup
         {[kind |-> "admin", target |-> NoTarget,
           chat |-> OwnChat(n.account, n.phone), account |-> a]}
  /\ UNCHANGED <<tables, selected, tasks, observed, faults>>

-----------------------------------------------------------------------------
(* ResultConsumer                                                          *)

\* An unsuccessful acknowledgement brings the result back.
AckResult(r) ==
  \/ results' = results \ {r} /\ UNCHANGED faults
  \/ Fault /\ UNCHANGED results

\* Mutant: the owner of a new row is some account of the tenant.
InsertedByAnyone(r) ==
  {[chat |-> r.chat, target |-> r.target, account |-> a] : a \in Account}

\* Mutant: a new row has no owner.
InsertedWithoutOwner(r) ==
  {[chat |-> r.chat, target |-> r.target, account |-> NoAccount]}

\* Mutant: a phone that has no row gets none.
UpsertUpdatesOnly(r) ==
  LET p == PhoneOf[r.target] IN
  {IF p \in DOMAIN mapping THEN [mapping EXCEPT ![p].chat = r.chat] ELSE mapping}

\* A new row takes its owner from the target.
Inserted(r) ==
  {[chat |-> r.chat, target |-> r.target, account |-> account[r.target]]}

\* The fallback changes the chat and the target of the row of the phone, if
\* there is one, but not its account.
Fallback(r) ==
  [p \in DOMAIN mapping |->
     IF p = PhoneOf[r.target]
     THEN [mapping[p] EXCEPT !.chat = r.chat, !.target = r.target]
     ELSE mapping[p]]

\* UpsertChatPhoneMapping.  A row with the same chat is overwritten; a row of
\* the phone with another chat makes the insert fail.
Upsert(r) ==
  LET p == PhoneOf[r.target] IN
  IF p \in DOMAIN mapping /\ mapping[p].chat # r.chat
  THEN {Fallback(r)}
  ELSE {[q \in DOMAIN mapping \cup {p} |-> IF q = p THEN row ELSE mapping[q]] :
          row \in Inserted(r)}

\* The mapping is written first.  If the insert fails only the fallback counts,
\* and if that fails as well the result is handled all the same.
ApplySent(r) ==
  /\ r.kind = "sent"
  /\ \/ mapping' \in Upsert(r) /\ AckResult(r)
     \/ Fault /\ results' = results \ {r} /\ mapping' \in {mapping, Fallback(r)}
  /\ state' = [state EXCEPT ![r.target] = "closed"]
  /\ UNCHANGED <<admin, account, doses, selected, tasks, notices, observed>>

\* A final failure, or one that is tried again.
ApplyFailed(r) ==
  /\ r.kind = "failed"
  /\ state' \in IF state[r.target] = "in_flight"
                THEN {[state EXCEPT ![r.target] = s] : s \in {"open", "closed"}}
                ELSE {state}
  /\ AckResult(r)
  /\ UNCHANGED <<mapping, admin, account, doses, selected, tasks, notices,
                 observed>>

MappedChat(c) == {p \in DOMAIN mapping : mapping[p].chat = c}

\* Mutant: the account of the target comes first.
ReplyAccountOfTarget(reported, t) ==
  IF account[t] # NoAccount THEN account[t] ELSE reported

\* replyAccountID
ReplyAccount(reported, t) ==
  IF reported # NoAccount THEN reported ELSE account[t]

\* Mutant: the admin chat of any account will do.
AdminChatOfAnyone(a, p) == {admin[k] : k \in {k \in DOMAIN admin : k[2] = p}}

\* GetAdminChatPhoneMappingByPhone
AdminChat(a, p) == {admin[k] : k \in DOMAIN admin \cap {<<a, p>>}}

\* The reply is registered with the target, and the account that observed it
\* is to notify every admin phone, by chat if the lookup finds one.
Register(r, t, a) ==
  /\ state' = [state EXCEPT ![t] = "closed"]
  /\ \E chat \in [AdminPhone -> Chat \cup {NoChat}] :
       /\ \A p \in AdminPhone : chat[p] \in AdminChat(a, p) \cup {NoChat}
       /\ notices' = notices \cup
            {[account |-> a, phone |-> p, chat |-> chat[p], seenIn |-> r.chat,
              told |-> r.account # NoAccount] : p \in AdminPhone}

\* A reply that names its target.
ApplyPolledReply(r) ==
  /\ r.kind = "reply" /\ r.target # NoTarget
  /\ Register(r, r.target, ReplyAccount(r.account, r.target))
  /\ AckResult(r)
  /\ UNCHANGED <<mapping, admin, account, doses, selected, tasks, observed>>

\* A reply that names its chat only: the mapping tells the target, and the
\* account if the worker did not.
ApplyChatReply(r) ==
  /\ r.kind = "reply" /\ r.target = NoTarget
  /\ \E p \in MappedChat(r.chat) :
       LET row == mapping[p]
           reported == IF r.account # NoAccount THEN r.account ELSE row.account
       IN  Register(r, row.target, ReplyAccount(reported, row.target))
  /\ AckResult(r)
  /\ UNCHANGED <<mapping, admin, account, doses, selected, tasks, observed>>

\* No row has the chat, or the lookup fails: the reply is acknowledged and
\* gone.
DropReply(r) ==
  /\ r.kind = "reply" /\ r.target = NoTarget
  /\ \/ MappedChat(r.chat) = {} /\ UNCHANGED faults
     \/ Fault
  /\ results' = results \ {r}
  /\ UNCHANGED <<tables, selected, tasks, notices, observed>>

\* UpsertAdminChatMapping, unless the account is unknown or the statement
\* fails.
ApplyAdminResult(r) ==
  /\ r.kind = "admin"
  /\ \/ /\ r.account # NoAccount
        /\ LET k == <<r.account, r.chat.phone>> IN
           admin' = [j \in DOMAIN admin \cup {k} |->
                       IF j = k THEN r.chat ELSE admin[j]]
        /\ UNCHANGED faults
     \/ r.account = NoAccount /\ UNCHANGED <<admin, faults>>
     \/ Fault /\ UNCHANGED admin
  /\ results' = results \ {r}
  /\ UNCHANGED <<mapping, account, state, doses, selected, tasks, notices,
                 observed>>

-----------------------------------------------------------------------------
Doser ==
  \/ \E t \in Target : SelectTarget(t)
  \/ AssignAndEnqueue
  \/ AssignRefused

Worker ==
  \/ \E m \in tasks : SendSucceeds(m) \/ SendFails(m)
  \/ \E c \in written : ClientReplies(c)
  \/ \E n \in notices : NotifyAdmin(n)

Consumer ==
  \E r \in results :
    \/ ApplySent(r)
    \/ ApplyFailed(r)
    \/ ApplyPolledReply(r)
    \/ ApplyChatReply(r)
    \/ DropReply(r)
    \/ ApplyAdminResult(r)

Next == Doser \/ Worker \/ Consumer

Spec == Init /\ [][Next]_vars

-----------------------------------------------------------------------------
(* Properties                                                              *)

OneSender(p) == Cardinality(dosedBy[p]) = 1

\* A mapping names a chat in which its phone was written to, a target of that
\* phone and an account that was given one.
MappingSound ==
  \A p \in DOMAIN mapping :
    /\ mapping[p].chat \in announced /\ mapping[p].chat.phone = p
    /\ PhoneOf[mapping[p].target] = p
    /\ mapping[p].account \in dosedBy[p]

\* The chat of a mapping belongs to its account, and the chat of a task to the
\* account that is to write in it, unless several accounts were given the
\* phone.  Then the fallback leaves the account of the old chat beside the new
\* chat, a late result takes the account of the next attempt, and an account
\* that stands in for the preferred one is handed a chat that is not its own.
ChatsOwned ==
  /\ MappingSound
  /\ \A p \in DOMAIN mapping :
       OneSender(p) => mapping[p].account = mapping[p].chat.account
  /\ \A m \in tasks :
       m.chat # NoChat =>
         /\ m.chat.phone = PhoneOf[m.target]
         /\ OneSender(m.chat.phone) => m.chat.account = m.account

\* "MAX chats belong to one account, so grouping by tenant alone would let
\* account B send account A's replies": a reply is announced to the admins by
\* the account that observed it whenever the worker names its account, and
\* otherwise as long as one account alone was given the recipient.
NotifiedByObserver ==
  \A n \in notices :
    n.told \/ OneSender(n.seenIn.phone) => n.account = n.seenIn.account

\* "account A can never resolve account B's chat": a notification that names a
\* chat names the chat that the notifying account has with this admin.
AdminChatOwned ==
  \A n \in notices : n.chat # NoChat => n.chat = OwnChat(n.account, n.phone)

\* An answer in a chat that was reported can be resolved, once the report has
\* been handled and nothing failed, as long as no other account was given the
\* recipient; a second account takes the row over and the answers in the
\* earlier chat are dropped.
AnswersRoutable ==
  faults = 0 =>
    \A c \in announced :
      \/ ~OneSender(c.phone)
      \/ \E r \in results : r.kind = "sent" /\ r.chat = c
      \/ MappedChat(c) = {c.phone}
=============================================================================
