---------------------------- MODULE RoutingProofs ----------------------------
(***************************************************************************)
(* Theorems about ChatRouting.                                             *)
(*                                                                         *)
(* What has to be known to route an answer is never unlearned: the chats   *)
(* that were written to, the accounts that were given a phone and the      *)
(* targets with an account only become more.  So each row, task, result    *)
(* and notification can be described by itself, against what has happened; *)
(* RoutingInv says how, and the properties are what it amounts to for a    *)
(* phone that one account alone was given.                                 *)
(***************************************************************************)
EXTENDS ChatRouting, FiniteSetTheorems, TLAPS

\* An account that a phone was given to.
Sender(a, p) == a \in dosedBy[p]

SelectionOK ==
  selected # NoSelection =>
    /\ doses[selected.target] < MaxDoses
    /\ selected.chat # NoChat =>
         selected.chat \in announced /\ selected.chat.phone = PhoneOf[selected.target]

RowOK(p) ==
  /\ mapping[p].chat \in announced /\ mapping[p].chat.phone = p
  /\ PhoneOf[mapping[p].target] = p
  /\ Sender(mapping[p].account, p)

TargetOK(t) ==
  /\ doses[t] > 0 => account[t] # NoAccount
  /\ account[t] # NoAccount => Sender(account[t], PhoneOf[t])

TaskOK(m) ==
  /\ account[m.target] # NoAccount
  /\ Sender(m.account, PhoneOf[m.target])
  /\ m.chat # NoChat => m.chat \in announced /\ m.chat.phone = PhoneOf[m.target]

ResultOK(r) ==
  /\ r.kind \in {"sent", "failed"} =>
       r.target \in Target /\ account[r.target] # NoAccount
  /\ r.kind = "sent" => r.chat \in announced /\ r.chat.phone = PhoneOf[r.target]
  /\ r.kind = "reply" =>
       /\ r.chat \in written
       /\ r.account \in {NoAccount, r.chat.account}
       /\ r.target # NoTarget =>
            account[r.target] # NoAccount /\ PhoneOf[r.target] = r.chat.phone
  /\ r.kind = "admin" =>
       /\ r.chat \in Chat /\ r.chat.phone \in AdminPhone
       /\ r.account \in {NoAccount, r.chat.account}

NoticeOK(n) ==
  /\ n.seenIn \in written
  /\ Sender(n.account, n.seenIn.phone)
  /\ n.told => n.account = n.seenIn.account
  /\ n.chat # NoChat => n.chat = OwnChat(n.account, n.phone)

ChatOK(c) == c.phone \in Phone /\ Sender(c.account, c.phone)

\* A chat that was reported has a row, or its report is still to be handled.
Recorded(c) ==
  \/ \E r \in results : r.kind = "sent" /\ r.chat = c
  \/ c.phone \in DOMAIN mapping

RoutingInv ==
  /\ TypeOK
  /\ SelectionOK
  /\ \A p \in DOMAIN mapping : RowOK(p)
  /\ \A t \in Target : TargetOK(t)
  /\ \A m \in tasks : TaskOK(m)
  /\ \A r \in results : ResultOK(r)
  /\ \A n \in notices : NoticeOK(n)
  /\ \A c \in written : ChatOK(c)
  /\ \A p \in Phone : IsFiniteSet(dosedBy[p])
  /\ \A k \in DOMAIN admin : admin[k] = OwnChat(k[1], k[2])
  /\ faults = 0 => \A c \in announced : Recorded(c)

LEMMA RoutingInit == Init => RoutingInv
  <1> SUFFICES ASSUME Init PROVE RoutingInv
    OBVIOUS
  <1>1. TypeOK
    BY PhoneAssumption, BoundAssumption DEF Init, TypeOK
  <1>2. \A p \in Phone : IsFiniteSet(dosedBy[p])
    BY FS_EmptySet DEF Init
  <1> QED BY <1>1, <1>2 DEF Init, RoutingInv, SelectionOK, TargetOK

-----------------------------------------------------------------------------
(* What a step leaves alone stays sound.                                   *)

Grows ==
  /\ written \subseteq written' /\ announced \subseteq announced'
  /\ \A p \in Phone : dosedBy[p] \subseteq dosedBy'[p]
  /\ \A t \in Target : account[t] # NoAccount => account'[t] # NoAccount

LEMMA KeptTask ==
  ASSUME RoutingInv, Grows, NEW m \in tasks
  PROVE  TaskOK(m)'
  BY PhoneAssumption DEF RoutingInv, TypeOK, Task, TaskOK, Grows, Sender

LEMMA KeptResult ==
  ASSUME RoutingInv, Grows, NEW r \in results
  PROVE  ResultOK(r)'
  BY DEF RoutingInv, TypeOK, Result, ResultOK, Grows

LEMMA KeptNotice ==
  ASSUME RoutingInv, Grows, NEW n \in notices
  PROVE  NoticeOK(n)'
  BY DEF RoutingInv, TypeOK, Notice, NoticeOK, ChatOK, Grows, Sender

LEMMA KeptChat ==
  ASSUME RoutingInv, Grows, NEW c \in written
  PROVE  ChatOK(c)'
  BY DEF RoutingInv, ChatOK, Grows, Sender

LEMMA KeptRow ==
  ASSUME RoutingInv, Grows, NEW p \in DOMAIN mapping, p \in DOMAIN mapping',
         mapping'[p] = mapping[p]
  PROVE  RowOK(p)'
  BY DEF RoutingInv, TypeOK, RowOK, Grows, Sender

\* A step that dosed nobody.
LEMMA KeptTarget ==
  ASSUME RoutingInv, UNCHANGED <<account, doses, dosedBy>>, NEW t \in Target
  PROVE  TargetOK(t)'
  BY DEF RoutingInv, TargetOK, Sender

LEMMA KeptSelection ==
  ASSUME RoutingInv, Grows, UNCHANGED <<selected, doses>>
  PROVE  SelectionOK'
  BY DEF RoutingInv, SelectionOK, Grows

\* A step that neither reports a chat nor handles a report.
LEMMA KeptRecords ==
  ASSUME RoutingInv, faults' = 0 => faults = 0, announced' = announced,
         DOMAIN mapping \subseteq DOMAIN mapping',
         \A r \in results : r.kind = "sent" => r \in results'
  PROVE  faults' = 0 => \A c \in announced' : Recorded(c)'
  BY DEF RoutingInv, Recorded

\* A step counts a fault, or it does not.
LEMMA FaultType ==
  ASSUME TypeOK, Fault \/ UNCHANGED faults
  PROVE  faults' \in 0..MaxFaults /\ (faults' = 0 => faults = 0)
  BY BoundAssumption DEF TypeOK, Fault

-----------------------------------------------------------------------------
(* The doser.                                                              *)

LEMMA SelectStep ==
  ASSUME RoutingInv, NEW t \in Target, SelectTarget(t)
  PROVE  RoutingInv'
  <1> USE DEF SelectTarget, tables, queues, observed
  <1>1. Grows
    BY DEF Grows
  <1>2. TypeOK'
    BY DEF RoutingInv, TypeOK, Selection, Row
  <1>3. SelectionOK'
    BY DEF RoutingInv, TypeOK, SelectionOK, RowOK
  <1>4. faults' = 0 => \A c \in announced' : Recorded(c)'
    BY KeptRecords
  <1> QED BY <1>1, <1>2, <1>3, <1>4, KeptTask, KeptResult, KeptNotice, KeptChat,
             KeptRow, KeptTarget DEF RoutingInv

LEMMA RefusedStep ==
  ASSUME RoutingInv, AssignRefused
  PROVE  RoutingInv'
  <1> USE DEF AssignRefused, tables, queues, observed
  <1>1. Grows
    BY DEF Grows
  <1>2. TypeOK' /\ SelectionOK'
    BY DEF RoutingInv, TypeOK, SelectionOK
  <1>3. faults' = 0 => \A c \in announced' : Recorded(c)'
    BY KeptRecords
  <1> QED BY <1>1, <1>2, <1>3, KeptTask, KeptResult, KeptNotice, KeptChat,
             KeptRow, KeptTarget DEF RoutingInv

LEMMA AssignStep ==
  ASSUME RoutingInv, AssignAndEnqueue
  PROVE  RoutingInv'
  <1>1. PICK s \in Selection : selected = s /\ s # NoSelection
    BY DEF AssignAndEnqueue, RoutingInv, TypeOK
  <1> DEFINE t == s.target
             p == PhoneOf[t]
  <1>2. t \in Target /\ p \in Phone /\ s.chat \in Chat \cup {NoChat}
    BY <1>1, PhoneAssumption DEF Selection
  <1>3. PICK a \in Account :
          /\ account' = [account EXCEPT ![t] = a]
          /\ tasks' = tasks \cup {[target |-> t, account |-> a,
                                   chat |-> s.chat]}
          /\ dosedBy' = [dosedBy EXCEPT ![p] = @ \cup {a}]
    BY <1>1 DEF AssignAndEnqueue, PickAccount
  <1> DEFINE new == [target |-> t, account |-> a, chat |-> s.chat]
  <1>4. /\ state' = [state EXCEPT ![t] = "in_flight"]
        /\ doses' = [doses EXCEPT ![t] = @ + 1]
        /\ selected' = NoSelection
        /\ UNCHANGED <<mapping, admin, notices, results, written, announced, faults>>
    BY <1>1 DEF AssignAndEnqueue
  <1>5. a # NoAccount
    BY NullAssumption
  <1>6. Grows
    <2>1. \A q \in Phone : dosedBy[q] \subseteq dosedBy'[q]
      BY <1>2, <1>3 DEF RoutingInv, TypeOK
    <2>2. \A u \in Target : account[u] # NoAccount => account'[u] # NoAccount
      BY <1>2, <1>3, <1>5 DEF RoutingInv, TypeOK
    <2> QED BY <1>4, <2>1, <2>2 DEF Grows
  <1>7. TypeOK'
    <2>1. doses[t] < MaxDoses
      BY <1>1 DEF RoutingInv, SelectionOK
    <2>2. doses' \in [Target -> 0..MaxDoses]
      BY <1>2, <1>4, <2>1, BoundAssumption DEF RoutingInv, TypeOK
    <2>3. new \in Task
      BY <1>2 DEF Task
    <2>4. /\ account' \in [Target -> Account \cup {NoAccount}]
          /\ state' \in [Target -> {"open", "in_flight", "closed"}]
          /\ dosedBy' \in [Phone -> SUBSET Account]
      BY <1>2, <1>3, <1>4 DEF RoutingInv, TypeOK
    <2> QED BY <1>3, <1>4, <2>2, <2>3, <2>4 DEF RoutingInv, TypeOK
  <1>8. a \in dosedBy'[p]
    BY <1>2, <1>3 DEF RoutingInv, TypeOK
  <1>9. ASSUME NEW u \in Target PROVE TargetOK(u)'
    <2>1. CASE u = t
      BY <1>2, <1>3, <1>5, <1>8, <2>1 DEF RoutingInv, TypeOK, TargetOK, Sender
    <2>2. CASE u # t
      <3>1. account'[u] = account[u] /\ doses'[u] = doses[u]
        BY <1>3, <1>4, <2>2 DEF RoutingInv, TypeOK
      <3>2. PhoneOf[u] \in Phone
        BY PhoneAssumption
      <3> QED BY <1>6, <3>1, <3>2 DEF RoutingInv, TargetOK, Grows, Sender
    <2> QED BY <2>1, <2>2
  <1>10. TaskOK(new)'
    <2>1. account'[t] = a
      BY <1>2, <1>3 DEF RoutingInv, TypeOK
    <2>2. s.chat # NoChat => s.chat \in announced /\ s.chat.phone = p
      BY <1>1 DEF RoutingInv, SelectionOK
    <2> QED BY <1>4, <1>5, <1>8, <2>1, <2>2 DEF TaskOK, Sender
  <1>11. \A m \in tasks' : TaskOK(m)'
    BY <1>3, <1>6, <1>10, KeptTask
  <1>12. \A q \in Phone : IsFiniteSet(dosedBy'[q])
    BY <1>2, <1>3, FS_AddElement DEF RoutingInv, TypeOK
  <1>13. faults' = 0 => \A c \in announced' : Recorded(c)'
    BY <1>4, KeptRecords
  <1>14. SelectionOK'
    BY <1>4, <1>1 DEF SelectionOK, NoSelection
  <1> QED BY <1>4, <1>6, <1>7, <1>9, <1>11, <1>12, <1>13, <1>14, KeptResult,
             KeptNotice, KeptChat, KeptRow DEF RoutingInv

-----------------------------------------------------------------------------
(* The workers and the clients.                                            *)

LEMMA TakenTask ==
  ASSUME TypeOK, NEW m \in tasks, TakeTask(m)
  PROVE  /\ tasks' \subseteq tasks
         /\ faults' \in 0..MaxFaults /\ (faults' = 0 => faults = 0)
  BY FaultType DEF TakeTask

LEMMA SendSucceedsStep ==
  ASSUME RoutingInv, NEW m \in tasks, SendSucceeds(m)
  PROVE  RoutingInv'
  <1> DEFINE c == OwnChat(m.account, PhoneOf[m.target])
             new == [kind |-> "sent", target |-> m.target, chat |-> c,
                     account |-> m.account]
  <1>1. /\ TakeTask(m) /\ results' = results \cup {new}
        /\ written' = written \cup {c} /\ announced' = announced \cup {c}
        /\ UNCHANGED <<mapping, admin, account, state, doses, selected, notices,
                       dosedBy>>
    BY DEF SendSucceeds, tables
  <1>2. /\ m.target \in Target /\ m.account \in Account
        /\ PhoneOf[m.target] \in Phone
    BY PhoneAssumption DEF RoutingInv, TypeOK, Task
  <1>3. c \in Chat /\ new \in Result /\ c.phone = PhoneOf[m.target]
        /\ c.account = m.account
    BY <1>2 DEF OwnChat, Chat, Result
  <1>4. Grows
    BY <1>1 DEF Grows
  <1>5. tasks' \subseteq tasks /\ faults' \in 0..MaxFaults /\ (faults' = 0 => faults = 0)
    BY <1>1, TakenTask DEF RoutingInv
  <1>6. TypeOK'
    BY <1>1, <1>3, <1>5 DEF RoutingInv, TypeOK
  <1>7. SelectionOK' /\ \A t \in Target : TargetOK(t)'
    BY <1>1, <1>4, KeptSelection, KeptTarget
  <1>8. TaskOK(m)
    BY DEF RoutingInv
  <1>9. ResultOK(new)' /\ ChatOK(c)'
    BY <1>1, <1>2, <1>3, <1>8 DEF ResultOK, ChatOK, TaskOK, Sender
  <1>10. /\ \A r \in results' : ResultOK(r)'
         /\ \A d \in written' : ChatOK(d)'
         /\ \A x \in tasks' : TaskOK(x)'
         /\ \A n \in notices' : NoticeOK(n)'
    BY <1>1, <1>4, <1>5, <1>9, KeptResult, KeptChat, KeptTask, KeptNotice
  <1>11. Recorded(c)' /\ \A d \in announced : Recorded(d) => Recorded(d)'
    <2>1. new \in results' /\ new.kind = "sent" /\ new.chat = c
      BY <1>1
    <2>2. Recorded(c)'
      BY <2>1 DEF Recorded
    <2>3. ASSUME NEW d \in announced, Recorded(d) PROVE Recorded(d)'
      BY <1>1, <2>3 DEF Recorded
    <2> QED BY <2>2, <2>3
  <1>12. faults' = 0 => \A d \in announced' : Recorded(d)'
    BY <1>1, <1>5, <1>11 DEF RoutingInv
  <1> QED BY <1>1, <1>4, <1>6, <1>7, <1>10, <1>12, KeptRow DEF RoutingInv

LEMMA SendFailsStep ==
  ASSUME RoutingInv, NEW m \in tasks, SendFails(m)
  PROVE  RoutingInv'
  <1> DEFINE c == OwnChat(m.account, PhoneOf[m.target])
             new == [kind |-> "failed", target |-> m.target, chat |-> NoChat,
                     account |-> m.account]
  <1>1. /\ TakeTask(m) /\ results' = results \cup {new}
        /\ written' \in {written, written \cup {c}}
        /\ UNCHANGED <<mapping, admin, account, state, doses, selected, notices,
                       announced, dosedBy>>
    BY DEF SendFails, tables
  <1>2. /\ m.target \in Target /\ m.account \in Account
        /\ PhoneOf[m.target] \in Phone
    BY PhoneAssumption DEF RoutingInv, TypeOK, Task
  <1>3. c \in Chat /\ new \in Result /\ c.phone = PhoneOf[m.target]
        /\ c.account = m.account
    BY <1>2 DEF OwnChat, Chat, Result
  <1>4. Grows
    BY <1>1 DEF Grows
  <1>5. tasks' \subseteq tasks /\ faults' \in 0..MaxFaults /\ (faults' = 0 => faults = 0)
    BY <1>1, TakenTask DEF RoutingInv
  <1>6. TypeOK'
    <2>1. written' \subseteq Chat /\ written \subseteq written'
      BY <1>1, <1>3 DEF RoutingInv, TypeOK
    <2> QED BY <1>1, <1>3, <1>5, <2>1 DEF RoutingInv, TypeOK
  <1>7. SelectionOK' /\ \A t \in Target : TargetOK(t)'
    BY <1>1, <1>4, KeptSelection, KeptTarget
  <1>8. TaskOK(m)
    BY DEF RoutingInv
  <1>9. ResultOK(new)' /\ ChatOK(c)'
    BY <1>1, <1>2, <1>3, <1>8 DEF ResultOK, ChatOK, TaskOK, Sender
  <1>10. /\ \A r \in results' : ResultOK(r)'
         /\ \A d \in written' : ChatOK(d)'
         /\ \A x \in tasks' : TaskOK(x)'
         /\ \A n \in notices' : NoticeOK(n)'
    BY <1>1, <1>4, <1>5, <1>9, KeptResult, KeptChat, KeptTask, KeptNotice
  <1>11. faults' = 0 => \A d \in announced' : Recorded(d)'
    BY <1>1, <1>5, KeptRecords
  <1> QED BY <1>1, <1>4, <1>6, <1>7, <1>10, <1>11, KeptRow DEF RoutingInv

LEMMA ClientRepliesStep ==
  ASSUME RoutingInv, NEW c \in written, ClientReplies(c)
  PROVE  RoutingInv'
  <1>1. PICK r : /\ r.kind = "reply" /\ r.chat = c
                 /\ r.target \in {NoTarget} \cup
                      {t \in Target : PhoneOf[t] = c.phone /\ doses[t] > 0}
                 /\ r.account \in {c.account, NoAccount}
                 /\ r \in Result
                 /\ results' = results \cup {r}
    <2>1. c \in Chat
      BY DEF RoutingInv, TypeOK
    <2>2. c.account \in Account
      BY <2>1 DEF Chat
    <2> QED BY <2>1, <2>2 DEF ClientReplies, Result
  <1>2. UNCHANGED <<mapping, admin, account, state, doses, selected, tasks, notices,
                    written, announced, dosedBy, faults>>
    BY DEF ClientReplies, tables, observed
  <1>3. Grows /\ TypeOK'
    BY <1>1, <1>2 DEF Grows, RoutingInv, TypeOK
  <1>4. ResultOK(r)'
    BY <1>1, <1>2 DEF RoutingInv, TargetOK, ResultOK
  <1>5. \A x \in results' : ResultOK(x)'
    BY <1>1, <1>3, <1>4, KeptResult
  <1>6. faults' = 0 => \A d \in announced' : Recorded(d)'
    BY <1>1, <1>2, KeptRecords
  <1>7. SelectionOK' /\ \A t \in Target : TargetOK(t)'
    BY <1>2, <1>3, KeptSelection, KeptTarget
  <1> QED BY <1>2, <1>3, <1>5, <1>6, <1>7, KeptTask, KeptNotice, KeptChat, KeptRow
          DEF RoutingInv

LEMMA NotifyAdminStep ==
  ASSUME RoutingInv, NEW n \in notices, NotifyAdmin(n)
  PROVE  RoutingInv'
  <1>1. n.account \in Account /\ n.phone \in AdminPhone
    BY DEF RoutingInv, TypeOK, Notice
  <1> DEFINE c == OwnChat(n.account, n.phone)
  <1>2. c \in Chat /\ c.phone = n.phone /\ c.account = n.account
    BY <1>1 DEF OwnChat, Chat
  <1>3. PICK r : /\ r.kind = "admin" /\ r.chat = c /\ r.target = NoTarget
                 /\ r.account \in {n.account, NoAccount}
                 /\ r \in Result
                 /\ results' = results \cup {r}
    BY <1>1, <1>2 DEF NotifyAdmin, Result
  <1>4. /\ notices' = notices \ {n}
        /\ UNCHANGED <<mapping, admin, account, state, doses, selected, tasks,
                       written, announced, dosedBy, faults>>
    BY DEF NotifyAdmin, tables, observed
  <1>5. Grows /\ TypeOK'
    BY <1>3, <1>4 DEF Grows, RoutingInv, TypeOK
  <1>6. ResultOK(r)'
    BY <1>1, <1>2, <1>3 DEF ResultOK
  <1>7. /\ \A x \in results' : ResultOK(x)'
        /\ \A x \in notices' : NoticeOK(x)'
    BY <1>3, <1>4, <1>5, <1>6, KeptResult, KeptNotice
  <1>8. faults' = 0 => \A d \in announced' : Recorded(d)'
    BY <1>3, <1>4, KeptRecords
  <1>9. SelectionOK' /\ \A t \in Target : TargetOK(t)'
    BY <1>4, <1>5, KeptSelection, KeptTarget
  <1> QED BY <1>4, <1>5, <1>7, <1>8, <1>9, KeptTask, KeptChat, KeptRow
          DEF RoutingInv

-----------------------------------------------------------------------------
(* The result consumer.                                                    *)

LEMMA AckedResult ==
  ASSUME TypeOK, NEW r \in results, AckResult(r)
  PROVE  /\ results' \in {results, results \ {r}}
         /\ faults' \in 0..MaxFaults /\ (faults' = 0 => faults = 0)
  BY FaultType DEF AckResult

\* A handled result that leaves no trace in the mappings.
LEMMA HandledStep ==
  ASSUME RoutingInv, NEW r \in results, r.kind # "sent",
         results' \in {results, results \ {r}},
         faults' = 0 => faults = 0,
         UNCHANGED <<mapping, account, doses, selected, tasks, observed>>, TypeOK',
         \A n \in notices' : n \in notices \/ NoticeOK(n)',
         \A k \in DOMAIN admin' : admin'[k] = OwnChat(k[1], k[2])
  PROVE  RoutingInv'
  <1> USE DEF observed
  <1>1. Grows
    BY DEF Grows
  <1>2. /\ \A x \in results' : ResultOK(x)'
        /\ \A n \in notices' : NoticeOK(n)'
    BY <1>1, KeptResult, KeptNotice
  <1>3. faults' = 0 => \A c \in announced' : Recorded(c)'
    BY KeptRecords
  <1> QED BY <1>1, <1>2, <1>3, KeptTask, KeptChat, KeptRow, KeptSelection,
             KeptTarget DEF RoutingInv

LEMMA ApplyFailedStep ==
  ASSUME RoutingInv, NEW r \in results, ApplyFailed(r)
  PROVE  RoutingInv'
  <1>1. AckResult(r)
    BY DEF ApplyFailed
  <1>2. /\ results' \in {results, results \ {r}}
        /\ faults' \in 0..MaxFaults /\ (faults' = 0 => faults = 0)
    BY <1>1, AckedResult DEF RoutingInv
  <1>3. UNCHANGED <<mapping, admin, account, doses, selected, tasks, notices, observed>>
    BY DEF ApplyFailed
  <1>4. state' \in [Target -> {"open", "in_flight", "closed"}]
    BY DEF ApplyFailed, RoutingInv, ResultOK, TypeOK
  <1>5. TypeOK'
    BY <1>2, <1>3, <1>4 DEF RoutingInv, TypeOK, observed
  <1> QED BY <1>2, <1>3, <1>5, HandledStep DEF ApplyFailed, RoutingInv

LEMMA DropReplyStep ==
  ASSUME RoutingInv, NEW r \in results, DropReply(r)
  PROVE  RoutingInv'
  <1>1. faults' \in 0..MaxFaults /\ (faults' = 0 => faults = 0)
    BY FaultType DEF DropReply, RoutingInv
  <1>2. /\ UNCHANGED <<mapping, admin, account, state, doses, selected, tasks,
                       notices, observed>>
        /\ results' = results \ {r} /\ r.kind = "reply"
    BY DEF DropReply, tables
  <1>3. TypeOK'
    BY <1>1, <1>2 DEF RoutingInv, TypeOK, observed
  <1> QED BY <1>1, <1>2, <1>3, HandledStep DEF RoutingInv

LEMMA ApplyAdminStep ==
  ASSUME RoutingInv, NEW r \in results, ApplyAdminResult(r)
  PROVE  RoutingInv'
  <1>1. faults' \in 0..MaxFaults /\ (faults' = 0 => faults = 0)
    BY FaultType DEF ApplyAdminResult, RoutingInv
  <1>2. /\ UNCHANGED <<mapping, account, state, doses, selected, tasks, notices,
                       observed>>
        /\ results' = results \ {r} /\ r.kind = "admin"
    BY DEF ApplyAdminResult
  <1>3. /\ DOMAIN admin' \subseteq Account \X AdminPhone
        /\ admin' \in [DOMAIN admin' -> Chat]
        /\ \A k \in DOMAIN admin' : admin'[k] = OwnChat(k[1], k[2])
    <2>1. CASE UNCHANGED admin
      BY <2>1 DEF RoutingInv, TypeOK
    <2>2. CASE r.account # NoAccount /\ ~UNCHANGED admin
      <3> DEFINE k == <<r.account, r.chat.phone>>
      <3>1. /\ r.chat \in Chat /\ r.chat.phone \in AdminPhone
            /\ r.account = r.chat.account
        BY <1>2, <2>2 DEF RoutingInv, ResultOK
      <3>2. r.account \in Account /\ r.chat = OwnChat(r.account, r.chat.phone)
        BY <3>1 DEF Chat, OwnChat
      <3>3. admin' = [j \in DOMAIN admin \cup {k} |->
                        IF j = k THEN r.chat ELSE admin[j]]
        BY <2>2 DEF ApplyAdminResult
      <3> QED BY <3>1, <3>2, <3>3 DEF RoutingInv, TypeOK
    <2> QED BY <2>1, <2>2 DEF ApplyAdminResult
  <1>4. TypeOK'
    BY <1>1, <1>2, <1>3 DEF RoutingInv, TypeOK, observed
  <1> QED BY <1>1, <1>2, <1>3, <1>4, HandledStep

\* A notification goes to an account that was given the phone, and to the one
\* that observed the reply if the worker named it.
LEMMA Registered ==
  ASSUME RoutingInv, NEW r \in results, r.kind = "reply",
         NEW t \in Target, NEW a \in Account,
         Sender(a, r.chat.phone), r.account # NoAccount => a = r.chat.account,
         Register(r, t, a), UNCHANGED <<written, dosedBy>>
  PROVE  /\ state' \in [Target -> {"open", "in_flight", "closed"}]
         /\ notices' \subseteq Notice
         /\ \A n \in notices' : n \in notices \/ NoticeOK(n)'
  <1>1. r.chat \in written /\ r.chat \in Chat
    BY DEF RoutingInv, TypeOK, ResultOK
  <1>2. PICK chat \in [AdminPhone -> Chat \cup {NoChat}] :
          /\ \A p \in AdminPhone : chat[p] \in AdminChat(a, p) \cup {NoChat}
          /\ notices' = notices \cup
               {[account |-> a, phone |-> p, chat |-> chat[p], seenIn |-> r.chat,
                 told |-> r.account # NoAccount] : p \in AdminPhone}
    BY DEF Register
  <1>3. state' \in [Target -> {"open", "in_flight", "closed"}]
    BY DEF Register, RoutingInv, TypeOK
  <1>4. \A p \in AdminPhone : chat[p] # NoChat => chat[p] = OwnChat(a, p)
    BY <1>2 DEF AdminChat, RoutingInv
  <1>5. ASSUME NEW n \in notices', n \notin notices
        PROVE  n \in Notice /\ NoticeOK(n)'
    <2>1. PICK p \in AdminPhone :
            n = [account |-> a, phone |-> p, chat |-> chat[p], seenIn |-> r.chat,
                 told |-> r.account # NoAccount]
      BY <1>2, <1>5
    <2>2. /\ n.account = a /\ n.phone = p /\ n.chat = chat[p]
          /\ n.seenIn = r.chat /\ n.told = (r.account # NoAccount)
      BY <2>1
    <2>3. n \in Notice
      BY <1>1, <2>1 DEF Notice
    <2>4. NoticeOK(n)'
      BY <1>1, <1>4, <2>2 DEF NoticeOK, Sender
    <2> QED BY <2>3, <2>4
  <1> QED BY <1>3, <1>5 DEF RoutingInv, TypeOK

LEMMA RegisterStep ==
  ASSUME RoutingInv, NEW r \in results, r.kind = "reply",
         NEW t \in Target, NEW a \in Account,
         Sender(a, r.chat.phone), r.account # NoAccount => a = r.chat.account,
         Register(r, t, a), AckResult(r),
         UNCHANGED <<mapping, admin, account, doses, selected, tasks, observed>>
  PROVE  RoutingInv'
  <1>1. /\ results' \in {results, results \ {r}}
        /\ faults' \in 0..MaxFaults /\ (faults' = 0 => faults = 0)
    BY AckedResult DEF RoutingInv
  <1>2. /\ state' \in [Target -> {"open", "in_flight", "closed"}]
        /\ notices' \subseteq Notice
        /\ \A n \in notices' : n \in notices \/ NoticeOK(n)'
    BY Registered DEF observed
  <1>3. TypeOK'
    BY <1>1, <1>2 DEF RoutingInv, TypeOK, observed
  <1> QED BY <1>1, <1>2, <1>3, HandledStep DEF RoutingInv

LEMMA ApplyPolledStep ==
  ASSUME RoutingInv, NEW r \in results, ApplyPolledReply(r)
  PROVE  RoutingInv'
  <1> DEFINE t == r.target
             a == ReplyAccount(r.account, t)
  <1>1. r.kind = "reply" /\ t \in Target
    BY DEF ApplyPolledReply, RoutingInv, TypeOK, Result
  <1>2. /\ r.chat \in written /\ r.account \in {NoAccount, r.chat.account}
        /\ account[t] # NoAccount /\ PhoneOf[t] = r.chat.phone
    BY <1>1 DEF ApplyPolledReply, RoutingInv, ResultOK
  <1>3. a \in Account /\ Sender(a, r.chat.phone)
        /\ (r.account # NoAccount => a = r.chat.account)
    BY <1>1, <1>2
       DEF ReplyAccount, RoutingInv, TypeOK, TargetOK, ChatOK, Result
  <1> QED BY <1>1, <1>3, RegisterStep DEF ApplyPolledReply

LEMMA ApplyChatStep ==
  ASSUME RoutingInv, NEW r \in results, ApplyChatReply(r)
  PROVE  RoutingInv'
  <1>1. PICK p \in MappedChat(r.chat) :
          LET row == mapping[p]
              reported == IF r.account # NoAccount THEN r.account ELSE row.account
          IN  Register(r, row.target, ReplyAccount(reported, row.target))
    BY DEF ApplyChatReply
  <1> DEFINE t == mapping[p].target
             a == IF r.account # NoAccount THEN r.account ELSE mapping[p].account
  <1>2. r.kind = "reply"
    BY DEF ApplyChatReply
  <1>3. /\ p \in DOMAIN mapping /\ mapping[p].chat = r.chat
        /\ t \in Target /\ mapping[p].account \in Account
    BY DEF MappedChat, RoutingInv, TypeOK, Row
  <1>4. r.chat.phone = p /\ Sender(mapping[p].account, p)
    BY <1>3 DEF RoutingInv, RowOK
  <1>5. /\ r.chat \in written /\ r.account \in {NoAccount, r.chat.account}
        /\ r.account \in Account \cup {NoAccount}
    BY <1>2 DEF RoutingInv, ResultOK, TypeOK, Result
  <1>6. a \in Account /\ Sender(a, r.chat.phone)
        /\ (r.account # NoAccount => a = r.chat.account)
    BY <1>3, <1>4, <1>5 DEF RoutingInv, ChatOK
  <1>7. ReplyAccount(a, t) = a
    BY <1>6, NullAssumption DEF ReplyAccount
  <1>8. Register(r, t, a)
    BY <1>1, <1>7
  <1>9. /\ AckResult(r)
        /\ UNCHANGED <<mapping, account, admin, doses, selected, tasks, observed>>
    BY DEF ApplyChatReply
  <1> HIDE DEF t, a
  <1>10. t \in Target
    BY <1>3 DEF t
  <1> QED BY <1>2, <1>6, <1>8, <1>9, <1>10, RegisterStep

\* Whatever is written for a report, and also when part of it fails, the rows
\* stay rows of their phone.
LEMMA Upserted ==
  ASSUME RoutingInv, NEW r \in results, r.kind = "sent",
         NEW m, m \in Upsert(r) \/ m \in {mapping, Fallback(r)}
  PROVE  /\ DOMAIN m \subseteq Phone /\ m \in [DOMAIN m -> Row]
         /\ DOMAIN mapping \subseteq DOMAIN m
         /\ \A p \in DOMAIN m :
              /\ m[p].chat \in announced /\ m[p].chat.phone = p
              /\ PhoneOf[m[p].target] = p /\ Sender(m[p].account, p)
         /\ m \in Upsert(r) => PhoneOf[r.target] \in DOMAIN m
  <1> DEFINE p == PhoneOf[r.target]
             row == [chat |-> r.chat, target |-> r.target,
                     account |-> account[r.target]]
  <1>1. /\ r.target \in Target /\ account[r.target] # NoAccount
        /\ r.chat \in announced /\ r.chat.phone = p
    BY DEF RoutingInv, ResultOK
  <1>2. /\ p \in Phone /\ r.chat \in Chat /\ account[r.target] \in Account
        /\ Sender(account[r.target], p)
    BY <1>1, PhoneAssumption DEF RoutingInv, TypeOK, TargetOK
  <1>3. /\ DOMAIN mapping \subseteq Phone /\ mapping \in [DOMAIN mapping -> Row]
        /\ \A q \in DOMAIN mapping : RowOK(q)
    BY DEF RoutingInv, TypeOK
  <1>4. CASE m = mapping
    BY <1>3, <1>4 DEF RowOK, Upsert
  <1>5. CASE m = Fallback(r)
    <2>1. DOMAIN m = DOMAIN mapping
      BY <1>5 DEF Fallback
    <2>2. ASSUME NEW q \in DOMAIN m
          PROVE  /\ m[q] \in Row
                 /\ m[q].chat \in announced /\ m[q].chat.phone = q
                 /\ PhoneOf[m[q].target] = q /\ Sender(m[q].account, q)
      <3>1. CASE q = p
        <4>1. mapping[q] \in Row
          BY <1>3, <2>1, <2>2
        <4>2. m[q] = [mapping[q] EXCEPT !.chat = r.chat, !.target = r.target]
          BY <1>5, <2>1, <2>2, <3>1 DEF Fallback
        <4>3. m[q].chat = r.chat /\ m[q].target = r.target
              /\ m[q].account = mapping[q].account /\ m[q] \in Row
          BY <1>1, <1>2, <4>1, <4>2 DEF Row
        <4> QED BY <1>1, <1>3, <2>1, <3>1, <4>3 DEF RowOK
      <3>2. CASE q # p
        <4>1. m[q] = mapping[q]
          BY <1>5, <2>1, <3>2 DEF Fallback
        <4> QED BY <1>3, <2>1, <4>1 DEF RowOK
      <3> QED BY <3>1, <3>2
    <2>3. m \in [DOMAIN m -> Row]
      BY <1>5, <2>1, <2>2 DEF Fallback
    <2>4. p \notin DOMAIN mapping => m \notin Upsert(r)
      <3>1. SUFFICES ASSUME p \notin DOMAIN mapping, m \in Upsert(r) PROVE FALSE
        OBVIOUS
      <3>2. p \in DOMAIN m
        BY <3>1 DEF Upsert, Inserted
      <3> QED BY <2>1, <3>1, <3>2
    <2> QED BY <1>3, <2>1, <2>2, <2>3, <2>4
  <1>6. CASE m = [q \in DOMAIN mapping \cup {p} |-> IF q = p THEN row ELSE mapping[q]]
    <2>1. row \in Row
      BY <1>1, <1>2 DEF Row
    <2> QED BY <1>1, <1>2, <1>3, <1>6, <2>1 DEF RowOK
  <1> QED BY <1>4, <1>5, <1>6 DEF Upsert, Inserted

LEMMA ApplySentStep ==
  ASSUME RoutingInv, NEW r \in results, ApplySent(r)
  PROVE  RoutingInv'
  <1>1. /\ r.kind = "sent"
        /\ state' = [state EXCEPT ![r.target] = "closed"]
        /\ UNCHANGED <<admin, account, doses, selected, tasks, notices, written,
                       announced, dosedBy>>
    BY DEF ApplySent, observed
  <1>2. /\ mapping' \in Upsert(r) \/ mapping' \in {mapping, Fallback(r)}
        /\ faults' = 0 => faults = 0 /\ mapping' \in Upsert(r)
        /\ faults' \in 0..MaxFaults
        /\ results' \in {results, results \ {r}}
    <2>1. CASE mapping' \in Upsert(r) /\ AckResult(r)
      BY <2>1, AckedResult DEF RoutingInv
    <2>2. CASE Fault /\ results' = results \ {r} /\ mapping' \in {mapping, Fallback(r)}
      <3>1. faults' \in 0..MaxFaults /\ faults' # 0
        BY <2>2, BoundAssumption DEF Fault, RoutingInv, TypeOK
      <3> QED BY <2>2, <3>1
    <2> QED BY <2>1, <2>2 DEF ApplySent
  <1>3. /\ DOMAIN mapping' \subseteq Phone /\ mapping' \in [DOMAIN mapping' -> Row]
        /\ DOMAIN mapping \subseteq DOMAIN mapping'
        /\ \A p \in DOMAIN mapping' :
              /\ mapping'[p].chat \in announced /\ mapping'[p].chat.phone = p
              /\ PhoneOf[mapping'[p].target] = p /\ Sender(mapping'[p].account, p)
        /\ mapping' \in Upsert(r) => PhoneOf[r.target] \in DOMAIN mapping'
    BY <1>1, <1>2, Upserted
  <1>4. Grows
    BY <1>1 DEF Grows
  <1>5. TypeOK'
    BY <1>1, <1>2, <1>3 DEF RoutingInv, TypeOK
  <1>6. \A p \in DOMAIN mapping' : RowOK(p)'
    BY <1>1, <1>3 DEF RowOK, Sender
  <1>7. \A x \in results' : ResultOK(x)'
    BY <1>2, <1>4, KeptResult
  <1>8. r.chat.phone = PhoneOf[r.target]
    BY <1>1 DEF RoutingInv, ResultOK
  <1>9. ASSUME faults' = 0, NEW c \in announced' PROVE Recorded(c)'
    <2>1. Recorded(c)
      BY <1>1, <1>2, <1>9 DEF RoutingInv
    <2>2. CASE c.phone \in DOMAIN mapping
      BY <1>3, <2>2 DEF Recorded
    <2>3. CASE c = r.chat
      BY <1>2, <1>3, <1>8, <1>9, <2>3 DEF Recorded
    <2>4. ASSUME NEW x \in results, x.kind = "sent", x.chat = c, c # r.chat
          PROVE  Recorded(c)'
      <3>1. x \in results'
        BY <1>2, <2>4
      <3> QED BY <2>4, <3>1 DEF Recorded
    <2> QED BY <2>1, <2>2, <2>3, <2>4 DEF Recorded
  <1>10. SelectionOK' /\ \A t \in Target : TargetOK(t)'
    BY <1>1, <1>4, KeptSelection, KeptTarget
  <1> QED BY <1>1, <1>4, <1>5, <1>6, <1>7, <1>9, <1>10, KeptTask, KeptNotice,
             KeptChat DEF RoutingInv

-----------------------------------------------------------------------------
(* The theorems.                                                           *)

LEMMA RoutingStep == RoutingInv /\ [Next]_vars => RoutingInv'
  <1> SUFFICES ASSUME RoutingInv, [Next]_vars PROVE RoutingInv'
    OBVIOUS
  <1>1. CASE Doser
    BY <1>1, SelectStep, AssignStep, RefusedStep DEF Doser
  <1>2. CASE Worker
    BY <1>2, SendSucceedsStep, SendFailsStep, ClientRepliesStep, NotifyAdminStep
       DEF Worker
  <1>3. CASE Consumer
    BY <1>3, ApplySentStep, ApplyFailedStep, ApplyPolledStep, ApplyChatStep,
       DropReplyStep, ApplyAdminStep DEF Consumer
  <1>4. CASE UNCHANGED vars
    <2> USE <1>4 DEF vars, tables, queues, observed
    <2>1. Grows
      BY DEF Grows
    <2>2. TypeOK' /\ SelectionOK'
      BY DEF RoutingInv, TypeOK, SelectionOK
    <2>3. faults' = 0 => \A c \in announced' : Recorded(c)'
      BY KeptRecords
    <2> QED BY <2>1, <2>2, <2>3, KeptTask, KeptResult, KeptNotice, KeptChat,
               KeptRow, KeptTarget DEF RoutingInv
  <1> QED BY <1>1, <1>2, <1>3, <1>4 DEF Next

LEMMA RoutingInvariant == Spec => []RoutingInv
  BY RoutingInit, RoutingStep, PTL DEF Spec

\* Every reachable state is typed: in particular a mapping that is inserted
\* has an account.
THEOREM TypeCorrect == Spec => []TypeOK
  <1>1. RoutingInv => TypeOK
    BY DEF RoutingInv
  <1> QED BY <1>1, RoutingInvariant, PTL

\* A phone that was given to one account has no other.
LEMMA TheSender ==
  ASSUME RoutingInv, NEW p \in Phone, OneSender(p), NEW a, NEW b,
         Sender(a, p), Sender(b, p)
  PROVE  a = b
  BY FS_Singleton DEF RoutingInv, OneSender, Sender

\* The chat of a row belongs to its account, and the chat of a task to the
\* account that writes in it, for every phone that one account was given.
THEOREM ChatsOwnedHolds == Spec => []ChatsOwned
  <1>1. RoutingInv => ChatsOwned
    <2> SUFFICES ASSUME RoutingInv PROVE ChatsOwned
      OBVIOUS
    <2>1. MappingSound
      BY DEF RoutingInv, RowOK, MappingSound, Sender
    <2>2. ASSUME NEW c \in announced
          PROVE  c.phone \in Phone /\ Sender(c.account, c.phone)
      BY DEF RoutingInv, TypeOK, ChatOK
    <2>3. ASSUME NEW p \in DOMAIN mapping, OneSender(p)
          PROVE  mapping[p].account = mapping[p].chat.account
      BY <2>2, <2>3, TheSender DEF RoutingInv, RowOK, TypeOK
    <2>4. ASSUME NEW m \in tasks, m.chat # NoChat
          PROVE  /\ m.chat.phone = PhoneOf[m.target]
                 /\ OneSender(m.chat.phone) => m.chat.account = m.account
      BY <2>2, <2>4, TheSender DEF RoutingInv, TaskOK
    <2> QED BY <2>1, <2>3, <2>4 DEF ChatsOwned
  <1> QED BY <1>1, RoutingInvariant, PTL

\* A reply is announced by the account that observed it: always when the
\* worker named it, otherwise when one account alone was given the recipient.
THEOREM NotifiedByObserverHolds == Spec => []NotifiedByObserver
  <1>1. RoutingInv => NotifiedByObserver
    <2> SUFFICES ASSUME RoutingInv, NEW n \in notices,
                        n.told \/ OneSender(n.seenIn.phone)
                 PROVE  n.account = n.seenIn.account
      BY DEF NotifiedByObserver
    <2>1. NoticeOK(n) /\ ChatOK(n.seenIn)
      BY DEF RoutingInv, NoticeOK
    <2> QED BY <2>1, TheSender DEF NoticeOK, ChatOK
  <1> QED BY <1>1, RoutingInvariant, PTL

\* A notification names no chat but the one its account has with the admin.
THEOREM AdminChatOwnedHolds == Spec => []AdminChatOwned
  <1>1. RoutingInv => AdminChatOwned
    BY DEF RoutingInv, NoticeOK, AdminChatOwned
  <1> QED BY <1>1, RoutingInvariant, PTL

\* An answer in a chat that was reported finds its row, as long as nothing
\* failed and no other account was given the recipient.
THEOREM AnswersRoutableHolds == Spec => []AnswersRoutable
  <1>1. RoutingInv => AnswersRoutable
    <2> SUFFICES ASSUME RoutingInv, faults = 0, NEW c \in announced,
                        OneSender(c.phone),
                        ~ \E r \in results : r.kind = "sent" /\ r.chat = c
                 PROVE  MappedChat(c) = {c.phone}
      BY DEF AnswersRoutable
    <2>1. c.phone \in DOMAIN mapping
      BY DEF RoutingInv, Recorded
    <2>2. \A d \in announced : d \in Chat /\ d.phone \in Phone
                               /\ Sender(d.account, d.phone)
      BY DEF RoutingInv, TypeOK, ChatOK
    <2>3. mapping[c.phone].chat \in announced /\ mapping[c.phone].chat.phone = c.phone
      BY <2>1 DEF RoutingInv, RowOK
    <2>4. mapping[c.phone].chat.account = c.account
      BY <2>2, <2>3, TheSender
    <2>5. mapping[c.phone].chat = c
      BY <2>2, <2>3, <2>4 DEF Chat
    <2>6. \A p \in MappedChat(c) : p = c.phone
      BY DEF MappedChat, RoutingInv, RowOK
    <2> QED BY <2>1, <2>5, <2>6 DEF MappedChat
  <1> QED BY <1>1, RoutingInvariant, PTL
=============================================================================
