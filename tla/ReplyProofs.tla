----------------------------- MODULE ReplyProofs -----------------------------
(***************************************************************************)
(* Theorems about ReplyHandling, for every set of replies, targets and     *)
(* admin phones and every number of faults.  Three invariants carry them:  *)
(* TypeInv, which adds to the types where an unacknowledged reply can be;  *)
(* RegisterInv, what the flush knows to be registered and not yet          *)
(* notified; and CacheInv, what each local copy of the blocklist may hold. *)
(***************************************************************************)
EXTENDS ReplyHandling, FiniteSetTheorems, TLAPS

\* The steps of a flush before its acknowledgement.
Unacked == {"check", "register", "target", "load", "store", "ack"}

\* A reply that was delivered and not acknowledged is in exactly one place:
\* in the hand of Run, in rc.results or in the flush, and still in the queue.
LocalsInv ==
  /\ results \subseteq queue \ ready
  /\ run = "append" => got \in queue \ (ready \cup results)
  /\ step # "none" => hand \in Reply
  /\ step \in Unacked => /\ hand \in queue \ (ready \cup results)
                         /\ run = "append" => got # hand
  /\ step = "store" => loaded # NoMap

TypeInv == TypeOK /\ LocalsInv

\* The types hold initially.
LEMMA TypeInit == Init => TypeInv
  <1> SUFFICES ASSUME Init PROVE TypeInv
    OBVIOUS
  <1>1. CacheTypeOK
    BY DEF Init, CacheInit, CacheTypeOK
  <1>2. /\ status \in [Recipient -> {"sent", "replied", "failed"}]
        /\ lastReply \in [Recipient -> Reply \cup {NoReply}]
        /\ rows \in [Reply -> Nat]
    BY DEF Init
  <1>3. notified \in [Reply -> [AdminPhone -> Nat]]
    BY DEF Init
  <1>4. webhooks \in 0..MaxWebhooks /\ faults \in 0..MaxFaults
    BY BoundAssumption DEF Init
  <1> QED
    BY <1>1, <1>2, <1>3, <1>4
    DEF Init, TypeInv, TypeOK, LocalsInv, Unacked, Goroutine, FlushStep

\* The end of a flush keeps the types of what it writes.
LEMMA EndFlushType ==
  ASSUME TypeInv, EndFlush
  PROVE  /\ run' \in {run, "receive"} /\ tick' \in {tick, "wait"}
         /\ mu' = "free" /\ step' = "none" /\ hand' = NoReply /\ left' = {}
  BY DEF EndFlush, Return

\* The goroutines of the consumer and its channels keep the types.
LEMMA LoopType ==
  ASSUME TypeInv,
         \/ Reconnect \/ ChannelCloses \/ RunExits \/ Append \/ Tick
         \/ \E r \in Reply : Receive(r)
         \/ \E g \in Goroutine : BeginFlush(g)
  PROVE  TypeInv'
  <1> USE DEF TypeInv, TypeOK, LocalsInv, Unacked
  <1>1. CASE Reconnect
    BY <1>1 DEF Reconnect, dbVars, cacheVars, CacheTypeOK, FlushStep
  <1>2. CASE ChannelCloses
    BY <1>2, BoundAssumption
    DEF ChannelCloses, Fault, dbVars, cacheVars, loopVars, flushVars, CacheTypeOK
  <1>3. CASE RunExits
    BY <1>3 DEF RunExits, dbVars, cacheVars, brokerVars, flushVars, CacheTypeOK
  <1>4. CASE Append
    BY <1>4 DEF Append, dbVars, cacheVars, brokerVars, flushVars, CacheTypeOK
  <1>5. CASE Tick
    BY <1>5 DEF Tick, dbVars, cacheVars, brokerVars, flushVars, CacheTypeOK
  <1>6. ASSUME NEW r \in Reply, Receive(r) PROVE TypeInv'
    BY <1>6 DEF Receive, dbVars, cacheVars, flushVars, CacheTypeOK
  <1>7. ASSUME NEW g \in Goroutine, BeginFlush(g) PROVE TypeInv'
    <2>1. CASE results = {}
      BY <1>7, <2>1
      DEF BeginFlush, Return, dbVars, cacheVars, brokerVars, flushVars,
          CacheTypeOK
    <2>2. CASE results # {}
      BY <1>7, <2>2
      DEF BeginFlush, dbVars, cacheVars, brokerVars, CacheTypeOK, FlushStep
    <2> QED BY <2>1, <2>2
  <1> QED BY <1>1, <1>2, <1>3, <1>4, <1>5, <1>6, <1>7

\* Registering a reply keeps the types of the tables.
LEMMA RegisterType ==
  ASSUME TypeOK, NEW r \in Reply, Register(r)
  PROVE  /\ status' \in [Recipient -> {"sent", "replied", "failed"}]
         /\ lastReply' \in [Recipient -> Reply \cup {NoReply}]
         /\ rows' \in [Reply -> Nat]
         /\ table' \subseteq Recipient
  <1>0. TargetOf[r] \in Recipient
    BY ReplyAssumption
  <1>1. status' \in [Recipient -> {"sent", "replied", "failed"}]
    BY DEF TypeOK, Register
  <1>2. lastReply' \in [Recipient -> Reply \cup {NoReply}]
    BY DEF TypeOK, Register
  <1>3. rows' \in [Reply -> Nat]
    BY DEF TypeOK, Register
  <1>4. table' \subseteq Recipient
    BY <1>0 DEF TypeOK, CacheTypeOK, Register, BlockRecipient
  <1> QED BY <1>1, <1>2, <1>3, <1>4

\* A step of a flush keeps the types.
LEMMA FlushType == TypeInv /\ Flush => TypeInv'
  <1> SUFFICES ASSUME TypeInv, Flush PROVE TypeInv'
    OBVIOUS
  <1> USE DEF TypeInv, TypeOK, LocalsInv, Unacked
  <1>1. CASE CheckDuplicate
    <2>1. CASE EndFlush /\ AckHand
      BY <1>1, <2>1, EndFlushType
      DEF CheckDuplicate, AckHand, dbVars, cacheVars, CacheTypeOK, Goroutine,
          FlushStep
    <2>2. CASE step' = "register" /\ UNCHANGED <<run, tick, mu, hand, left, brokerVars>>
      BY <1>1, <2>2
      DEF CheckDuplicate, dbVars, cacheVars, brokerVars, CacheTypeOK, FlushStep
    <2> QED BY <1>1, <2>1, <2>2 DEF CheckDuplicate
  <1>2. CASE RegisterReply
    BY <1>2, RegisterType
    DEF RegisterReply, cacheVars, brokerVars, loopVars, CacheTypeOK, FlushStep
  <1>3. CASE GetTarget
    BY <1>3
    DEF GetTarget, dbVars, cacheVars, brokerVars, loopVars, CacheTypeOK,
        FlushStep, AddLoad
  <1>4. CASE Nack
    BY <1>4, EndFlushType, BoundAssumption
    DEF Nack, Fault, dbVars, cacheVars, CacheTypeOK, Goroutine, FlushStep
  <1>5. CASE BlocklistAdd
    <2>1. CASE step = "load"
      BY <1>5, <2>1, ReplyAssumption, NobodyAssumption
      DEF BlocklistAdd, AddLoad, dbVars, brokerVars, loopVars, CacheTypeOK,
          FlushStep, NoMap
    <2>2. CASE step = "store"
      <3>1. CacheTypeOK'
        BY <1>5, <2>2
        DEF BlocklistAdd, AddEnd, AddStore, dbVars, CacheTypeOK
      <3> QED
        BY <1>5, <2>2, <3>1
        DEF BlocklistAdd, AddEnd, dbVars, brokerVars, loopVars, FlushStep
    <2> QED BY <1>5, <2>1, <2>2 DEF BlocklistAdd
  <1>6. CASE Ack
    BY <1>6 DEF Ack, AckHand, dbVars, cacheVars, loopVars, CacheTypeOK, FlushStep
  <1>7. CASE Notify
    BY <1>7
    DEF Notify, dbVars, cacheVars, brokerVars, loopVars, CacheTypeOK, FlushStep
  <1>8. ASSUME NEW a \in AdminPhone, Publish(a) PROVE TypeInv'
    BY <1>8
    DEF Publish, dbVars, cacheVars, brokerVars, loopVars, CacheTypeOK, FlushStep
  <1>9. CASE PublishFails
    BY <1>9
    DEF PublishFails, dbVars, cacheVars, brokerVars, loopVars, CacheTypeOK,
        FlushStep
  <1>10. CASE Notified
    BY <1>10, EndFlushType
    DEF Notified, dbVars, cacheVars, brokerVars, CacheTypeOK, Goroutine, FlushStep
  <1> QED
    BY <1>1, <1>2, <1>3, <1>4, <1>5, <1>6, <1>7, <1>8, <1>9, <1>10 DEF Flush

\* What happens meanwhile, and a restart, keep the types.
LEMMA MeanwhileType ==
  ASSUME TypeInv,
         \/ \E r \in Reply : RepliesWebhook(r)
         \/ \E p \in Recipient : LateFailure(p)
         \/ Refresh \/ RefreshFails \/ Restart
  PROVE  TypeInv'
  <1> USE DEF TypeInv, TypeOK, LocalsInv, Unacked
  <1>1. ASSUME NEW r \in Reply, RepliesWebhook(r) PROVE TypeInv'
    BY <1>1, RegisterType, BoundAssumption
    DEF RepliesWebhook, cacheVars, brokerVars, loopVars, flushVars, CacheTypeOK
  <1>2. ASSUME NEW p \in Recipient, LateFailure(p) PROVE TypeInv'
    BY <1>2
    DEF LateFailure, cacheVars, brokerVars, loopVars, flushVars, CacheTypeOK
  <1>3. CASE Refresh
    <2>1. CacheTypeOK'
      BY <1>3 DEF Refresh, RefreshList, RefreshStore, dbVars, CacheTypeOK
    <2> QED
      BY <1>3, <2>1
      DEF Refresh, RefreshList, RefreshStore, dbVars, brokerVars, loopVars,
          flushVars
  <1>4. CASE RefreshFails
    <2>1. CacheTypeOK'
      BY <1>4 DEF RefreshFails, dbVars, CacheTypeOK
    <2> QED
      BY <1>4, <2>1 DEF RefreshFails, dbVars, brokerVars, loopVars, flushVars
  <1>5. CASE Restart
    <2>1. CacheTypeOK'
      BY <1>5 DEF Restart, CacheRestart, dbVars, CacheTypeOK
    <2> QED
      BY <1>5, <2>1, BoundAssumption DEF Restart, Fault, dbVars, FlushStep
  <1> QED BY <1>1, <1>2, <1>3, <1>4, <1>5

\* Every step keeps the types.
LEMMA TypeStep == TypeInv /\ [Next]_vars => TypeInv'
  <1> SUFFICES ASSUME TypeInv, [Next]_vars PROVE TypeInv'
    OBVIOUS
  <1>1. CASE UNCHANGED vars
    BY <1>1
    DEF vars, dbVars, cacheVars, brokerVars, loopVars, flushVars, TypeInv,
        TypeOK, CacheTypeOK, LocalsInv
  <1>2. CASE Next
    BY <1>2, LoopType, FlushType, MeanwhileType DEF Next
  <1> QED BY <1>1, <1>2

\* Types, and with them where the replies are.
LEMMA TypeInvariant == Spec => []TypeInv
  BY TypeInit, TypeStep, PTL DEF Spec

\* Every reachable state is typed.
THEOREM TypeCorrect == Spec => []TypeOK
  <1>1. TypeInv => TypeOK
    BY DEF TypeInv
  <1> QED BY <1>1, TypeInvariant, PTL

-----------------------------------------------------------------------------
(* One result at a time.                                                   *)

\* rc.results is filled just before Run flushes; until Run has flushed it
\* receives nothing else, and it never leaves the flush with a result behind.
OneInv ==
  /\ results = {} \/ \E r \in Reply : results = {r}
  /\ run # "flush" => results = {}
  /\ mu = "run" => run = "flush" /\ results = {}

\* The parts of a step that OneInv looks at.
LEMMA OneStep == TypeInv /\ OneInv /\ [Next]_vars => OneInv'
  <1> SUFFICES ASSUME TypeInv, OneInv, [Next]_vars PROVE OneInv'
    OBVIOUS
  <1> USE DEF OneInv
  <1>0. ASSUME EndFlush, UNCHANGED results PROVE OneInv'
    BY <1>0 DEF EndFlush, Return
  <1>1. ASSUME UNCHANGED <<run, results, mu>> PROVE OneInv'
    BY <1>1
  <1>2. CASE Reconnect
    BY <1>2 DEF Reconnect
  <1>3. CASE ChannelCloses \/ UNCHANGED vars
    BY <1>1, <1>3 DEF ChannelCloses, vars, loopVars, flushVars
  <1>4. ASSUME NEW r \in Reply, Receive(r) PROVE OneInv'
    BY <1>4 DEF Receive, flushVars
  <1>5. CASE RunExits
    BY <1>5 DEF RunExits, flushVars
  <1>6. CASE Append
    <2>1. results' = {got} /\ got \in Reply
      BY <1>6 DEF Append, TypeInv, TypeOK, LocalsInv
    <2> QED BY <1>6, <2>1 DEF Append, flushVars
  <1>7. CASE Tick
    BY <1>1, <1>7 DEF Tick, flushVars
  <1>8. ASSUME NEW g \in Goroutine, BeginFlush(g) PROVE OneInv'
    <2>1. CASE results = {}
      BY <1>8, <2>1 DEF BeginFlush, Return, flushVars
    <2>2. CASE results # {}
      <3>1. results' = {} /\ run' = run /\ mu' = g
        BY <1>8, <2>2 DEF BeginFlush
      <3>2. run = "flush"
        BY <2>2
      <3> QED BY <3>1, <3>2
    <2> QED BY <2>1, <2>2
  <1>9. CASE Flush
    <2>1. CASE \/ RegisterReply \/ GetTarget \/ BlocklistAdd \/ Ack \/ Notify
               \/ PublishFails \/ \E a \in AdminPhone : Publish(a)
      BY <1>1, <2>1
      DEF RegisterReply, GetTarget, BlocklistAdd, Ack, Notify, PublishFails,
          Publish, loopVars
    <2>2. CASE CheckDuplicate
      BY <1>0, <1>1, <2>2 DEF CheckDuplicate
    <2>3. CASE Nack \/ Notified
      BY <1>0, <2>3 DEF Nack, Notified
    <2> QED BY <1>9, <2>1, <2>2, <2>3 DEF Flush
  <1>10. CASE \/ \E r \in Reply : RepliesWebhook(r)
              \/ \E p \in Recipient : LateFailure(p)
              \/ Refresh \/ RefreshFails
    BY <1>1, <1>10
    DEF RepliesWebhook, LateFailure, Refresh, RefreshFails, loopVars, flushVars
  <1>11. CASE Restart
    BY <1>11 DEF Restart
  <1> QED
    BY <1>2, <1>3, <1>4, <1>5, <1>6, <1>7, <1>8, <1>9, <1>10, <1>11 DEF Next

\* A flush never finds more than one result.
THEOREM SingleResultHolds == Spec => []SingleResult
  <1>1. Init => OneInv
    BY DEF Init, OneInv
  <1>2. OneInv => SingleResult
    <2> SUFFICES ASSUME OneInv PROVE Cardinality(results) <= 1
      BY DEF SingleResult
    <2>1. CASE results = {}
      BY <2>1, FS_EmptySet
    <2>2. ASSUME NEW r \in Reply, results = {r} PROVE Cardinality(results) <= 1
      BY <2>2, FS_Singleton
    <2> QED BY <2>1, <2>2 DEF OneInv
  <1> QED BY <1>1, <1>2, OneStep, TypeInvariant, PTL DEF Spec

-----------------------------------------------------------------------------
(* Registration, acknowledgement and notification.                         *)

\* A reply that left the queue, that a target carries as its last one, or
\* whose flush is past the registration has a row; and whom the flush still
\* has to notify was notified fewer times than there are rows.
RegisterInv ==
  /\ AckedMeansRegistered
  /\ NotifyBounded
  /\ \A p \in Recipient : lastReply[p] \in Reply => rows[lastReply[p]] > 0
  /\ step \in {"target", "load", "store", "ack"} =>
       \A a \in AdminPhone : notified[hand][a] < rows[hand]
  /\ step \in {"target", "load", "store", "ack"} => rows[hand] > 0
  /\ step \in {"notify", "publish", "reconnect"} =>
       \A a \in left : notified[hand][a] < rows[hand]

\* What Register does to the rows and to the last replies.
LEMMA RegisterRows ==
  ASSUME TypeInv, RegisterInv, NEW r \in Reply, Register(r)
  PROVE  /\ \A s \in Reply : rows'[s] = IF s = r THEN rows[s] + 1 ELSE rows[s]
         /\ \A p \in Recipient : lastReply'[p] \in Reply =>
              rows'[lastReply'[p]] > 0
  <1>1. \A s \in Reply : rows'[s] = IF s = r THEN rows[s] + 1 ELSE rows[s]
    BY DEF Register, TypeInv, TypeOK
  <1>2. \A p \in Recipient :
          lastReply'[p] = IF p = TargetOf[r] THEN r ELSE lastReply[p]
    BY ReplyAssumption DEF Register, TypeInv, TypeOK
  <1>3. \A s \in Reply : rows[s] \in Nat
    BY DEF TypeInv, TypeOK
  <1> QED BY <1>1, <1>2, <1>3 DEF RegisterInv

\* A step that changes nothing of replies, but may let queue grow or the flush
\* end, keeps the invariant.
LEMMA RegisterUntouched ==
  ASSUME RegisterInv, UNCHANGED <<lastReply, rows, notified>>,
         queue \subseteq queue',
         \/ UNCHANGED <<step, hand, left>>
         \/ step' \in {"none", "check", "register"}
  PROVE  RegisterInv'
  BY DEF RegisterInv, AckedMeansRegistered, NotifyBounded

\* A step of a flush keeps the invariant.
LEMMA RegisterFlush ==
  ASSUME TypeInv, RegisterInv, Flush PROVE RegisterInv'
  <1>0. /\ \A s \in Reply : rows[s] \in Nat
        /\ \A s \in Reply, a \in AdminPhone : notified[s][a] \in Nat
        /\ step # "none" => hand \in Reply
        /\ left \subseteq AdminPhone
    BY DEF TypeInv, TypeOK, LocalsInv
  <1>1. CASE CheckDuplicate
    <2>1. CASE Duplicate(hand) /\ EndFlush /\ AckHand
      <3>1. rows[hand] > 0
        BY <1>0, <1>1, <2>1, ReplyAssumption
        DEF CheckDuplicate, Duplicate, RegisterInv
      <3> QED
        BY <1>1, <2>1, <3>1
        DEF CheckDuplicate, EndFlush, AckHand, dbVars, RegisterInv,
            AckedMeansRegistered, NotifyBounded
    <2>2. CASE step' = "register" /\ UNCHANGED <<hand, left, brokerVars>>
      BY <1>1, <2>2, RegisterUntouched
      DEF CheckDuplicate, dbVars, brokerVars
    <2> QED BY <1>1, <2>1, <2>2 DEF CheckDuplicate
  <1>2. CASE RegisterReply
    <2>1. /\ hand \in Reply /\ hand' = hand /\ step' = "target"
          /\ UNCHANGED <<queue, notified>>
      BY <1>0, <1>2 DEF RegisterReply, brokerVars
    <2>2. /\ \A s \in Reply : rows'[s] = IF s = hand THEN rows[s] + 1 ELSE rows[s]
          /\ \A p \in Recipient : lastReply'[p] \in Reply =>
               rows'[lastReply'[p]] > 0
      BY <1>2, <2>1, RegisterRows DEF RegisterReply
    <2> QED
      BY <1>0, <2>1, <2>2
      DEF RegisterInv, AckedMeansRegistered, NotifyBounded
  <1>3. CASE GetTarget
    BY <1>3
    DEF GetTarget, dbVars, brokerVars, RegisterInv, AckedMeansRegistered,
        NotifyBounded
  <1>4. CASE Nack
    BY <1>4, RegisterUntouched DEF Nack, EndFlush, dbVars
  <1>5. CASE BlocklistAdd
    BY <1>5
    DEF BlocklistAdd, dbVars, brokerVars, RegisterInv, AckedMeansRegistered,
        NotifyBounded
  <1>6. CASE Ack
    BY <1>0, <1>6
    DEF Ack, AckHand, dbVars, RegisterInv, AckedMeansRegistered, NotifyBounded
  <1>7. CASE Notify \/ PublishFails
    BY <1>7
    DEF Notify, PublishFails, dbVars, brokerVars, RegisterInv,
        AckedMeansRegistered, NotifyBounded
  <1>8. ASSUME NEW a \in AdminPhone, Publish(a) PROVE RegisterInv'
    <2>1. /\ a \in left /\ left' = left \ {a}
          /\ step = "publish" /\ step' = "notify"
          /\ UNCHANGED <<hand, queue, rows, lastReply>>
          /\ hand \in Reply
      BY <1>0, <1>8 DEF Publish, dbVars, brokerVars
    <2>2. \A s \in Reply, b \in AdminPhone :
            notified'[s][b] = IF s = hand /\ b = a THEN notified[s][b] + 1
                              ELSE notified[s][b]
      BY <1>8, <2>1 DEF Publish, TypeInv, TypeOK
    <2>3. notified[hand][a] < rows[hand]
      BY <2>1 DEF RegisterInv
    <2>4. NotifyBounded'
      BY <1>0, <2>1, <2>2, <2>3 DEF RegisterInv, NotifyBounded
    <2>5. \A b \in left' : notified'[hand'][b] < rows'[hand']
      BY <1>0, <2>1, <2>2 DEF RegisterInv
    <2> QED
      BY <2>1, <2>4, <2>5 DEF RegisterInv, AckedMeansRegistered
  <1>9. CASE Notified
    BY <1>9, RegisterUntouched DEF Notified, EndFlush, dbVars, brokerVars
  <1> QED
    BY <1>1, <1>2, <1>3, <1>4, <1>5, <1>6, <1>7, <1>8, <1>9 DEF Flush

\* Every step keeps the invariant.
LEMMA RegisterStep == TypeInv /\ RegisterInv /\ [Next]_vars => RegisterInv'
  <1> SUFFICES ASSUME TypeInv, RegisterInv, [Next]_vars PROVE RegisterInv'
    OBVIOUS
  <1>1. CASE \/ ChannelCloses \/ RunExits \/ Append \/ Tick
             \/ (\E r \in Reply : Receive(r))
             \/ (\E p \in Recipient : LateFailure(p))
             \/ Refresh \/ RefreshFails \/ UNCHANGED vars
    BY <1>1, RegisterUntouched
    DEF ChannelCloses, RunExits, Append, Tick, Receive, LateFailure, Refresh,
        RefreshFails, vars, dbVars, brokerVars, flushVars
  <1>2. CASE Reconnect
    BY <1>2
    DEF Reconnect, dbVars, RegisterInv, AckedMeansRegistered, NotifyBounded
  <1>3. ASSUME NEW g \in Goroutine, BeginFlush(g) PROVE RegisterInv'
    BY <1>3, RegisterUntouched DEF BeginFlush, dbVars, brokerVars, flushVars
  <1>4. ASSUME NEW r \in Reply, RepliesWebhook(r) PROVE RegisterInv'
    <2>1. UNCHANGED <<queue, notified, step, hand, left>>
      BY <1>4 DEF RepliesWebhook, brokerVars, flushVars
    <2>2. /\ \A s \in Reply : rows'[s] = IF s = r THEN rows[s] + 1 ELSE rows[s]
          /\ \A p \in Recipient : lastReply'[p] \in Reply =>
               rows'[lastReply'[p]] > 0
      BY <1>4, RegisterRows DEF RepliesWebhook
    <2>3. /\ \A s \in Reply : rows[s] \in Nat
          /\ \A s \in Reply, a \in AdminPhone : notified[s][a] \in Nat
          /\ step # "none" => hand \in Reply
          /\ left \subseteq AdminPhone
      BY DEF TypeInv, TypeOK, LocalsInv
    <2> QED
      BY <2>1, <2>2, <2>3 DEF RegisterInv, AckedMeansRegistered, NotifyBounded
  <1>5. CASE Restart
    BY <1>5, RegisterUntouched DEF Restart, dbVars
  <1> QED
    BY <1>1, <1>2, <1>3, <1>4, <1>5, RegisterFlush DEF Next

\* The invariant holds of every reachable state.
LEMMA RegisterInvariant == Spec => []RegisterInv
  <1>1. Init => RegisterInv
    BY ReplyAssumption DEF Init, RegisterInv, AckedMeansRegistered, NotifyBounded
  <1> QED BY <1>1, RegisterStep, TypeInvariant, PTL DEF Spec

\* A reply leaves the queue only after a transaction has registered it.
THEOREM AckedMeansRegisteredHolds == Spec => []AckedMeansRegistered
  <1>1. RegisterInv => AckedMeansRegistered
    BY DEF RegisterInv
  <1> QED BY <1>1, RegisterInvariant, PTL

\* No admin is notified twice of one registration.
THEOREM NotifyBoundedHolds == Spec => []NotifyBounded
  <1>1. RegisterInv => NotifyBounded
    BY DEF RegisterInv
  <1> QED BY <1>1, RegisterInvariant, PTL

-----------------------------------------------------------------------------
(* The refinement.                                                         *)

\* The transaction is the abstract registration.
LEMMA RegisterIsRegister ==
  ASSUME NEW r \in Reply, Register(r), UNCHANGED <<queue, notified>>
  PROVE  Delivery!Next
  <1>1. table' = table \cup {TargetOf[s] : s \in {r} \cap Unsubscribe}
    BY DEF Register, BlockRecipient
  <1>2. Delivery!Register(r)
    BY <1>1 DEF Register, Delivery!Register
  <1> QED BY <1>2 DEF Delivery!Next

\* An acknowledgement is an abstract one, or is not heard.
LEMMA AckIsAcknowledge ==
  ASSUME hand \in Reply, rows[hand] > 0, AckHand,
         UNCHANGED <<rows, lastReply, table, notified>>
  PROVE  Delivery!Next \/ UNCHANGED Delivery!vars
  <1>1. CASE deliveries = "open"
    BY <1>1 DEF AckHand, Delivery!Next, Delivery!Acknowledge
  <1>2. CASE deliveries # "open"
    BY <1>2 DEF AckHand, Delivery!vars
  <1> QED BY <1>1, <1>2

\* Every step of the consumer, the webhook and the cache is one of the
\* abstract steps or invisible.
LEMMA DeliveryStep ==
  ASSUME TypeInv, RegisterInv, [Next]_vars
  PROVE  [Delivery!Next]_(Delivery!vars)
  <1>0. ASSUME UNCHANGED <<queue, rows, lastReply, table, notified>>
        PROVE  UNCHANGED Delivery!vars
    BY <1>0 DEF Delivery!vars
  <1>1. CASE \/ Reconnect \/ ChannelCloses \/ RunExits \/ Append \/ Tick
             \/ (\E r \in Reply : Receive(r))
             \/ (\E g \in Goroutine : BeginFlush(g)) \/ UNCHANGED vars
    BY <1>0, <1>1
    DEF Reconnect, ChannelCloses, RunExits, Append, Tick, Receive, BeginFlush,
        vars, dbVars, brokerVars
  <1>2. CASE \/ (\E p \in Recipient : LateFailure(p))
             \/ Refresh \/ RefreshFails \/ Restart
    BY <1>0, <1>2
    DEF LateFailure, Refresh, RefreshFails, Restart, dbVars, brokerVars
  <1>3. ASSUME NEW r \in Reply, RepliesWebhook(r) PROVE Delivery!Next
    BY <1>3, RegisterIsRegister DEF RepliesWebhook, brokerVars
  <1>4. CASE Flush
    <2>0. /\ step # "none" => hand \in Reply
          /\ left \subseteq AdminPhone
      BY DEF TypeInv, TypeOK, LocalsInv
    <2>1. CASE CheckDuplicate
      <3>1. CASE Duplicate(hand) /\ AckHand
        <4>1. hand \in Reply /\ AckHand
          BY <2>0, <2>1, <3>1 DEF CheckDuplicate
        <4>2. rows[hand] > 0
          BY <3>1, <4>1, ReplyAssumption DEF Duplicate, RegisterInv
        <4> QED BY <2>1, <4>1, <4>2, AckIsAcknowledge DEF CheckDuplicate, dbVars
      <3>2. CASE UNCHANGED brokerVars
        BY <1>0, <2>1, <3>2 DEF CheckDuplicate, dbVars, brokerVars
      <3> QED BY <2>1, <3>1, <3>2 DEF CheckDuplicate
    <2>2. CASE RegisterReply
      BY <2>0, <2>2, RegisterIsRegister DEF RegisterReply, brokerVars
    <2>3. CASE \/ GetTarget \/ Nack \/ BlocklistAdd \/ Notify \/ PublishFails
               \/ Notified
      BY <1>0, <2>3
      DEF GetTarget, Nack, BlocklistAdd, Notify, PublishFails, Notified, dbVars,
          brokerVars
    <2>4. CASE Ack
      <3>1. hand \in Reply /\ rows[hand] > 0 /\ AckHand
        BY <2>0, <2>4 DEF Ack, RegisterInv
      <3> QED BY <2>4, <3>1, AckIsAcknowledge DEF Ack, dbVars
    <2>5. ASSUME NEW a \in AdminPhone, Publish(a) PROVE Delivery!Next
      <3>1. /\ hand \in Reply /\ a \in left
            /\ notified[hand][a] < rows[hand]
            /\ notified' = [notified EXCEPT ![hand][a] = @ + 1]
            /\ UNCHANGED <<queue, rows, lastReply, table>>
        BY <2>0, <2>5 DEF Publish, RegisterInv, dbVars, brokerVars
      <3> QED BY <3>1 DEF Delivery!Next, Delivery!Tell
    <2> QED BY <1>4, <2>1, <2>2, <2>3, <2>4, <2>5 DEF Flush
  <1> QED BY <1>1, <1>2, <1>3, <1>4 DEF Next

\* The replies stay within the promise of ReplyDelivery.
THEOREM ImplementsDeliveryHolds == Spec => ImplementsDelivery
  <1>1. Init => Delivery!Init
    BY DEF Init, CacheInit, Delivery!Init
  <1> QED BY <1>1, DeliveryStep, TypeInvariant, RegisterInvariant, PTL
          DEF Spec, ImplementsDelivery, Delivery!Spec

-----------------------------------------------------------------------------
(* The flush that reconnects.                                              *)

\* rc.mu is held from the beginning of a flush to its end, by the goroutine
\* that flushes, and no flush is older than the process.
MutexInv ==
  /\ step # "none" <=> mu # "free"
  /\ mu = "run" => run = "flush"
  /\ mu = "tick" => tick = "flush"
  /\ tick = "flush" => run # "start"

\* A notification whose publication failed is never tried again: reconnect
\* waits for the mutex of its own flush, and until a restart neither goroutine
\* flushes, acknowledges or notifies anything; Run receives one reply more at
\* most, and cannot add it to the batch.
ReconnectWaits ==
  [][step = "reconnect" =>
       \/ run' = "start"
       \/ /\ UNCHANGED <<mu, step, hand, left, results, queue, notified>>
          /\ run = "append" => run' = "append"]_vars

\* The mutex belongs to the flush after every step.
LEMMA MutexStep ==
  ASSUME TypeInv, MutexInv, [Next]_vars PROVE MutexInv'
  <1>1. CASE Flush
    <2>0. step # "none" /\ mu \in {"run", "tick"}
      BY <1>1
      DEF Flush, CheckDuplicate, RegisterReply, GetTarget, Nack, BlocklistAdd,
          Ack, Notify, Publish, PublishFails, Notified, MutexInv, TypeInv,
          TypeOK, Goroutine
    <2>1. CASE EndFlush
      BY <2>0, <2>1 DEF EndFlush, Return, MutexInv
    <2>2. CASE ~EndFlush
      <3>1. UNCHANGED <<run, tick, mu>> /\ step' # "none"
        BY <1>1, <2>2
        DEF Flush, CheckDuplicate, RegisterReply, GetTarget, Nack, BlocklistAdd,
            Ack, Notify, Publish, PublishFails, Notified, loopVars
      <3> QED BY <2>0, <3>1 DEF MutexInv
    <2> QED BY <2>1, <2>2
  <1>2. ASSUME NEW g \in Goroutine, BeginFlush(g) PROVE MutexInv'
    <2>0. mu = "free" /\ step = "none" /\ g \in {"run", "tick"}
      BY <1>2 DEF BeginFlush, MutexInv, Goroutine
    <2>1. CASE results = {}
      BY <1>2, <2>0, <2>1 DEF BeginFlush, Return, flushVars, MutexInv
    <2>2. CASE results # {}
      <3>1. /\ mu' = g /\ step' = "check" /\ UNCHANGED <<run, tick>>
            /\ (g = "run" /\ run = "flush") \/ (g = "tick" /\ tick = "flush")
        BY <1>2, <2>2 DEF BeginFlush
      <3> QED BY <2>0, <3>1 DEF MutexInv
    <2> QED BY <2>1, <2>2
  <1>3. CASE Reconnect \/ Restart
    BY <1>3 DEF Reconnect, Restart, MutexInv
  <1>4. CASE RunExits \/ Append \/ Tick \/ (\E r \in Reply : Receive(r))
    BY <1>4 DEF RunExits, Append, Tick, Receive, flushVars, MutexInv
  <1>5. CASE \/ ChannelCloses \/ Refresh \/ RefreshFails
             \/ (\E r \in Reply : RepliesWebhook(r))
             \/ (\E p \in Recipient : LateFailure(p)) \/ UNCHANGED vars
    BY <1>5
    DEF ChannelCloses, Refresh, RefreshFails, RepliesWebhook, LateFailure, vars,
        loopVars, flushVars, MutexInv
  <1> QED BY <1>1, <1>2, <1>3, <1>4, <1>5 DEF Next

\* A flush that waits in reconnect holds the mutex it waits for.
LEMMA ReconnectStep ==
  ASSUME MutexInv, step = "reconnect", [Next]_vars
  PROVE  \/ run' = "start"
         \/ /\ UNCHANGED <<mu, step, hand, left, results, queue, notified>>
            /\ run = "append" => run' = "append"
  <1>0. mu # "free"
    BY DEF MutexInv
  <1>1. ~Flush
    BY DEF Flush, CheckDuplicate, RegisterReply, GetTarget, Nack, BlocklistAdd,
           Ack, Notify, Publish, PublishFails, Notified
  <1>2. ~Reconnect /\ ~Append /\ \A g \in Goroutine : ~BeginFlush(g)
    BY <1>0 DEF Reconnect, Append, BeginFlush
  <1>3. CASE \/ ChannelCloses \/ RunExits \/ Tick \/ Restart
             \/ (\E r \in Reply : Receive(r))
    BY <1>3
    DEF ChannelCloses, RunExits, Tick, Restart, Receive, brokerVars, loopVars,
        flushVars
  <1>4. CASE \/ Refresh \/ RefreshFails
             \/ (\E r \in Reply : RepliesWebhook(r))
             \/ (\E p \in Recipient : LateFailure(p)) \/ UNCHANGED vars
    BY <1>4
    DEF Refresh, RefreshFails, RepliesWebhook, LateFailure, vars, brokerVars,
        loopVars, flushVars
  <1> QED BY <1>1, <1>2, <1>3, <1>4 DEF Next

\* flush calls reconnect with rc.mu held, and stays there until the process is
\* started again.
THEOREM ReconnectWaitsHolds == Spec => ReconnectWaits
  <1>1. Init => MutexInv
    BY DEF Init, MutexInv
  <1>2. TypeInv /\ MutexInv /\ [Next]_vars => MutexInv'
    BY MutexStep
  <1>3. MutexInv /\ [Next]_vars =>
          [step = "reconnect" =>
             \/ run' = "start"
             \/ /\ UNCHANGED <<mu, step, hand, left, results, queue, notified>>
                /\ run = "append" => run' = "append"]_vars
    BY ReconnectStep
  <1> QED BY <1>1, <1>2, <1>3, TypeInvariant, PTL DEF Spec, ReconnectWaits

-----------------------------------------------------------------------------
(* The blocklist cache.                                                    *)

\* Whatever copy of the map is under way, it holds nobody whom the table does
\* not, and an addition begins only when its recipient is in the table.
CacheInv ==
  /\ CacheSound
  /\ listed = NoMap \/ listed \subseteq table
  /\ loaded = NoMap \/ loaded \subseteq table
  /\ adding \subseteq table
  /\ step = "target" /\ hand \in Unsubscribe => TargetOf[hand] \in table
  /\ step = "load" => TargetOf[hand] \in table

\* A step that leaves the cache alone and at most adds to the table keeps the
\* invariant.
LEMMA CacheUntouched ==
  ASSUME CacheInv, UNCHANGED cacheVars, table \subseteq table',
         UNCHANGED <<step, hand>> \/ step' \notin {"target", "load"}
  PROVE  CacheInv'
  BY DEF CacheInv, CacheSound, cacheVars

\* Every step keeps the invariant.
LEMMA CacheStep == TypeInv /\ CacheInv /\ [Next]_vars => CacheInv'
  <1> SUFFICES ASSUME TypeInv, CacheInv, [Next]_vars PROVE CacheInv'
    OBVIOUS
  <1>1. CASE \/ Reconnect \/ ChannelCloses \/ RunExits \/ Append \/ Tick
             \/ (\E r \in Reply : Receive(r))
             \/ (\E p \in Recipient : LateFailure(p)) \/ UNCHANGED vars
    BY <1>1, CacheUntouched
    DEF Reconnect, ChannelCloses, RunExits, Append, Tick, Receive, LateFailure,
        vars, dbVars, flushVars
  <1>2. ASSUME NEW g \in Goroutine, BeginFlush(g) PROVE CacheInv'
    BY <1>2, CacheUntouched DEF BeginFlush, dbVars, flushVars
  <1>3. ASSUME NEW r \in Reply, RepliesWebhook(r) PROVE CacheInv'
    BY <1>3, CacheUntouched
    DEF RepliesWebhook, Register, BlockRecipient, flushVars
  <1>4. CASE Refresh
    <2>1. UNCHANGED <<table, step, hand>>
      BY <1>4 DEF Refresh, dbVars, flushVars
    <2> QED
      BY <1>4, <2>1
      DEF Refresh, RefreshList, RefreshStore, CacheInv, CacheSound
  <1>5. CASE RefreshFails
    BY <1>5 DEF RefreshFails, dbVars, flushVars, CacheInv, CacheSound
  <1>6. CASE Restart
    BY <1>6 DEF Restart, CacheRestart, dbVars, CacheInv, CacheSound
  <1>7. CASE Flush
    <2>1. CASE \/ CheckDuplicate \/ Nack \/ Ack \/ Notify \/ PublishFails
               \/ Notified \/ \E a \in AdminPhone : Publish(a)
      BY <2>1, CacheUntouched
      DEF CheckDuplicate, Nack, Ack, Notify, PublishFails, Notified, Publish,
          EndFlush, dbVars
    <2>2. CASE RegisterReply
      BY <2>2
      DEF RegisterReply, Register, BlockRecipient, cacheVars, CacheInv, CacheSound
    <2>3. CASE GetTarget
      BY <2>3 DEF GetTarget, dbVars, cacheVars, CacheInv, CacheSound
    <2>4. CASE BlocklistAdd
      <3>1. CASE step = "load"
        BY <2>4, <3>1
        DEF BlocklistAdd, AddLoad, dbVars, CacheInv, CacheSound
      <3>2. CASE step = "store"
        BY <2>4, <3>2
        DEF BlocklistAdd, AddEnd, AddStore, dbVars, CacheInv, CacheSound,
            TypeInv, LocalsInv
      <3> QED BY <2>4, <3>1, <3>2 DEF BlocklistAdd
    <2> QED BY <1>7, <2>1, <2>2, <2>3, <2>4 DEF Flush
  <1> QED
    BY <1>1, <1>2, <1>3, <1>4, <1>5, <1>6, <1>7 DEF Next

\* The invariant holds of every reachable state.
LEMMA CacheInvariant == Spec => []CacheInv
  <1>1. Init => CacheInv
    BY DEF Init, CacheInit, CacheInv, CacheSound
  <1> QED BY <1>1, CacheStep, TypeInvariant, PTL DEF Spec

\* The cache blocks nobody whom the table does not.
THEOREM CacheSoundHolds == Spec => []CacheSound
  <1>1. CacheInv => CacheSound
    BY DEF CacheInv
  <1> QED BY <1>1, CacheInvariant, PTL

\* A step other than a restart keeps whoever is settled in the cache: Add
\* stores what it loaded, and a refresh stores what it listed.
LEMMA SettledStep ==
  ASSUME TypeInv, CacheInv, [Next]_vars, NEW p \in Recipient, Settled(p)
  PROVE  Settled(p)' \/ run' = "start"
  <1> USE DEF Settled
  <1>1. ASSUME UNCHANGED cacheVars PROVE Settled(p)'
    BY <1>1 DEF cacheVars
  <1>2. CASE Refresh
    BY <1>2 DEF Refresh, RefreshList, RefreshStore, CacheInv, CacheSound
  <1>3. CASE RefreshFails
    BY <1>3 DEF RefreshFails
  <1>4. CASE Restart
    BY <1>4 DEF Restart
  <1>5. CASE BlocklistAdd
    BY <1>5
    DEF BlocklistAdd, AddLoad, AddEnd, AddStore, TypeInv, LocalsInv
  <1>6. CASE Flush /\ ~BlocklistAdd
    BY <1>1, <1>6
    DEF Flush, CheckDuplicate, RegisterReply, GetTarget, Nack, Ack, Notify,
        Publish, PublishFails, Notified
  <1>7. CASE \/ Reconnect \/ ChannelCloses \/ RunExits \/ Append \/ Tick
             \/ (\E r \in Reply : Receive(r) \/ RepliesWebhook(r))
             \/ (\E g \in Goroutine : BeginFlush(g))
             \/ (\E q \in Recipient : LateFailure(q)) \/ UNCHANGED vars
    BY <1>1, <1>7
    DEF Reconnect, ChannelCloses, RunExits, Append, Tick, Receive, BeginFlush,
        RepliesWebhook, LateFailure, vars
  <1> QED BY <1>2, <1>3, <1>4, <1>5, <1>6, <1>7 DEF Next

\* Whoever is settled in the cache stays settled until a restart.
THEOREM SettledStaysHolds == Spec => SettledStays
  <1>1. TypeInv /\ CacheInv /\ [Next]_vars =>
          [\A p \in Recipient : Settled(p) => Settled(p)' \/ run' = "start"]_vars
    BY SettledStep
  <1> QED BY <1>1, TypeInvariant, CacheInvariant, PTL DEF Spec, SettledStays
=============================================================================
