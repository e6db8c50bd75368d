----------------------------- MODULE ExcelProofs -----------------------------
(***************************************************************************)
(* Safety of ExcelReport for every set of sheets, any number of goroutines *)
(* in the pool and channels of any capacity.                               *)
(*                                                                         *)
(* A row of the sheet is followed through the pipeline: until it is        *)
(* collected it is in the channel of jobs, in the hand of a worker or in   *)
(* the channel of results, with the index that its position determines.    *)
(***************************************************************************)
EXTENDS ExcelReport, FiniteSetTheorems, SequenceTheorems, WellFoundedInduction,
        TLAPS

-----------------------------------------------------------------------------
(* Channels.                                                               *)

\* Sending adds the element to what the channel holds.
LEMMA Sent ==
  ASSUME NEW S, NEW s \in Seq(S), NEW e \in S
  PROVE  /\ Append(s, e) \in Seq(S)
         /\ Len(Append(s, e)) = Len(s) + 1
         /\ Range(Append(s, e)) = Range(s) \cup {e}
  <1>1. /\ DOMAIN s = 1..Len(s) /\ Len(s) \in Nat
        /\ DOMAIN Append(s, e) = 1..Len(s) + 1
        /\ Append(s, e) \in Seq(S) /\ Len(Append(s, e)) = Len(s) + 1
    OBVIOUS
  <1>2. /\ \A i \in 1..Len(s) : Append(s, e)[i] = s[i]
        /\ Append(s, e)[Len(s) + 1] = e
    OBVIOUS
  <1>3. Range(Append(s, e)) = Range(s) \cup {e}
    BY <1>1, <1>2 DEF Range
  <1> QED BY <1>1, <1>3

\* Receiving takes the head; the rest stays.
LEMMA Received ==
  ASSUME NEW S, NEW s \in Seq(S), s # <<>>
  PROVE  /\ Head(s) \in S /\ Tail(s) \in Seq(S)
         /\ Len(Tail(s)) = Len(s) - 1
         /\ Range(s) = Range(Tail(s)) \cup {Head(s)}
  <1>1. /\ Len(s) \in Nat \ {0} /\ DOMAIN s = 1..Len(s)
        /\ Head(s) = s[1] /\ Head(s) \in S
        /\ Tail(s) \in Seq(S) /\ Len(Tail(s)) = Len(s) - 1
        /\ DOMAIN Tail(s) = 1..Len(s) - 1
    OBVIOUS
  <1>2. \A i \in 1..Len(s) - 1 : Tail(s)[i] = s[i + 1]
    OBVIOUS
  <1>3. \A i \in 1..Len(s) : i = 1 \/ i - 1 \in 1..Len(s) - 1
    BY <1>1
  <1>4. ASSUME NEW x \in Range(s) PROVE x \in Range(Tail(s)) \cup {Head(s)}
    <2>1. PICK i \in 1..Len(s) : x = s[i]
      BY <1>1 DEF Range
    <2>2. CASE i = 1
      BY <1>1, <2>1, <2>2
    <2>3. CASE i # 1
      <3>1. i - 1 \in DOMAIN Tail(s) /\ Tail(s)[i - 1] = s[i]
        BY <1>1, <1>2, <1>3, <2>3
      <3> QED BY <2>1, <3>1 DEF Range
    <2> QED BY <2>2, <2>3
  <1>5. ASSUME NEW x \in Range(Tail(s)) \cup {Head(s)} PROVE x \in Range(s)
    <2>1. CASE x = Head(s)
      BY <1>1, <2>1 DEF Range
    <2>2. CASE x \in Range(Tail(s))
      <3>1. PICK i \in 1..Len(s) - 1 : x = s[i + 1]
        BY <1>1, <1>2, <2>2 DEF Range
      <3>2. i + 1 \in DOMAIN s
        BY <1>1
      <3> QED BY <3>1, <3>2 DEF Range
    <2> QED BY <2>1, <2>2
  <1> QED BY <1>1, <1>4, <1>5

-----------------------------------------------------------------------------
(* Type correctness.                                                       *)

\* A normalised phone is one, of ten digits unless there were too many.
LEMMA NormalizedPhone ==
  ASSUME NEW p \in Phone
  PROVE  LET n == NormalizePhone(p) IN
         /\ n \in Phone
         /\ n # NoPhone =>
              /\ n.lead = "9" /\ n.digits >= 10
              /\ n.digits > 10 => p.digits > 11
  <1>1. p.lead \in {"9", "trunk9", "other"} /\ p.digits \in Nat
    BY DEF Phone
  <1>2. CASE p.digits > 10 /\ p.lead = "trunk9"
    <2>1. NormalizePhone(p) = [lead |-> "9", digits |-> p.digits - 1]
      BY <1>1, <1>2 DEF NormalizePhone
    <2> QED BY <1>1, <1>2, <2>1 DEF Phone
  <1>3. CASE p.digits = 10 /\ p.lead = "9"
    <2>1. NormalizePhone(p) = p
      BY <1>1, <1>3 DEF NormalizePhone
    <2> QED BY <1>1, <1>3, <2>1
  <1>4. CASE /\ ~(p.digits > 10 /\ p.lead = "trunk9")
             /\ ~(p.digits = 10 /\ p.lead = "9")
    <2>1. NormalizePhone(p) = NoPhone
      BY <1>4 DEF NormalizePhone
    <2> QED BY <2>1 DEF NoPhone, Phone
  <1> QED BY <1>2, <1>3, <1>4

\* The rows of a sheet.
LEMMA RowType ==
  ASSUME TypeOK
  PROVE  /\ rows \in Seq(Phone \cup {Short}) /\ Len(rows) \in Nat
         /\ DOMAIN rows = 1..Len(rows)
         /\ \A r \in 1..Len(rows) : rows[r] # Short => rows[r] \in Phone
  <1>1. rows \in Seq(Phone \cup {Short})
    BY SheetAssumption DEF TypeOK, rows
  <1> HIDE DEF rows
  <1>2. Len(rows) \in Nat /\ DOMAIN rows = 1..Len(rows)
    BY <1>1
  <1>3. \A r \in 1..Len(rows) : rows[r] \in Phone \cup {Short}
    BY <1>1
  <1> QED BY <1>1, <1>2, <1>3

\* The initial state is typed.
LEMMA TypeInit == Init => TypeOK
  <1> SUFFICES ASSUME Init PROVE TypeOK
    OBVIOUS
  <1>1. sheet \in Sheet
    BY DEF Init
  <1>2. Len(rows) \in Nat
    <2>1. rows \in Seq(Phone \cup {Short})
      BY <1>1, SheetAssumption DEF rows
    <2> QED BY <2>1
  <1>3. next \in 1..Len(rows) + 1 /\ rowIndex \in 1..next
    BY <1>2 DEF Init, FirstIndex
  <1>4. /\ jobs \in Seq(Job) /\ Len(jobs) = 0
        /\ results \in Seq(Job) /\ Len(results) = 0
    BY DEF Init
  <1> QED BY <1>1, <1>3, <1>4, BufferAssumption DEF Init, TypeOK

\* What the reader sends.
NextJob == [row |-> next, index |-> rowIndex, phone |-> rows[next]]

\* What a worker makes of the head of jobs.
Target(x) == [x EXCEPT !.phone = NormalizePhone(x.phone)]

\* They are jobs, and a target keeps the row and the index of its job.
LEMMA JobTypes ==
  /\ TypeOK /\ next <= Len(rows) /\ rows[next] # Short => NextJob \in Job
  /\ \A x \in Job : /\ Target(x) \in Job
                    /\ Target(x).row = x.row /\ Target(x).index = x.index
                    /\ Target(x).phone = NormalizePhone(x.phone)
  <1>1. ASSUME TypeOK, next <= Len(rows), rows[next] # Short
        PROVE  NextJob \in Job
    <2>1. next \in 1..Len(rows) /\ next \in Nat /\ rowIndex \in Nat
      BY <1>1, RowType DEF TypeOK
    <2>2. rows[next] \in Phone
      BY <1>1, <2>1, RowType
    <2> QED BY <2>1, <2>2 DEF NextJob, Job
  <1>2. ASSUME NEW x \in Job
        PROVE  /\ Target(x) \in Job
               /\ Target(x).row = x.row /\ Target(x).index = x.index
               /\ Target(x).phone = NormalizePhone(x.phone)
    <2>1. x.phone \in Phone /\ NormalizePhone(x.phone) \in Phone
      BY NormalizedPhone DEF Job
    <2> QED BY <2>1 DEF Target, Job
  <1> QED BY <1>1, <1>2

\* TakeJob in terms of these.
LEMMA TakeJobEffect ==
  ASSUME NEW w \in Worker, TakeJob(w)
  PROVE  /\ holds[w] = Idle /\ jobs # <<>> /\ jobs' = Tail(jobs)
         /\ holds' = [holds EXCEPT ![w] =
                        IF NormalizePhone(Head(jobs).phone) = NoPhone
                        THEN Idle ELSE Target(Head(jobs))]
         /\ UNCHANGED <<sheet, reader, next, rowIndex, results, targets,
                        campaign, report>>
  BY DEF TakeJob, Target

\* Every step keeps the types; no channel overflows.
LEMMA TypeStep == TypeOK /\ [Next]_vars => TypeOK'
  <1> SUFFICES ASSUME TypeOK, [Next]_vars PROVE TypeOK'
    OBVIOUS
  <1>0. /\ Len(rows) \in Nat /\ Buffer \in Nat \ {0}
        /\ next \in 1..Len(rows) + 1 /\ rowIndex \in 1..next
        /\ jobs \in Seq(Job) /\ Len(jobs) <= Buffer
        /\ results \in Seq(Job) /\ Len(results) <= Buffer
        /\ Len(jobs) \in Nat /\ Len(results) \in Nat
    BY RowType, BufferAssumption DEF TypeOK
  <1>1. ASSUME UNCHANGED <<sheet, reader, next, rowIndex>>,
               jobs' \in Seq(Job), Len(jobs') <= Buffer,
               results' \in Seq(Job), Len(results') <= Buffer,
               holds' \in [Worker -> Job \cup {Idle}], targets' \subseteq Job,
               UNCHANGED <<campaign, report>>
        PROVE  TypeOK'
    BY <1>1 DEF TypeOK, rows
  <1>2. CASE SkipShortRow
    BY <1>0, <1>2 DEF SkipShortRow, channels, TypeOK, rows
  <1>3. CASE ReadRow
    <2>1. NextJob \in Job
      BY <1>3, JobTypes DEF ReadRow
    <2>2. jobs' \in Seq(Job) /\ Len(jobs') <= Buffer
      BY <1>0, <1>3, <2>1, Sent DEF ReadRow, NextJob
    <2>3. next' \in 1..Len(rows) + 1 /\ rowIndex' \in 1..next'
      BY <1>0, <1>3 DEF ReadRow
    <2> QED BY <1>3, <2>2, <2>3 DEF ReadRow, TypeOK, rows
  <1>4. CASE ReadFails \/ CloseJobs
    BY <1>4 DEF ReadFails, CloseJobs, channels, TypeOK, rows
  <1>5. ASSUME NEW w \in Worker, TakeJob(w) PROVE TypeOK'
    <2>1. Head(jobs) \in Job /\ jobs' \in Seq(Job) /\ Len(jobs') <= Buffer
      BY <1>0, <1>5, Received DEF TakeJob
    <2>2. Target(Head(jobs)) \in Job
      BY <2>1, JobTypes
    <2>3. holds' \in [Worker -> Job \cup {Idle}]
      BY <1>5, <2>2, TakeJobEffect DEF TypeOK
    <2> QED BY <1>0, <1>1, <1>5, <2>1, <2>3 DEF TakeJob, TypeOK
  <1>6. ASSUME NEW w \in Worker, SendTarget(w) PROVE TypeOK'
    <2>1. holds[w] \in Job
      BY <1>6 DEF SendTarget, TypeOK
    <2>2. results' \in Seq(Job) /\ Len(results') <= Buffer
      BY <1>0, <1>6, <2>1, Sent DEF SendTarget
    <2> QED BY <1>0, <1>1, <1>6, <2>2 DEF SendTarget, TypeOK
  <1>7. CASE Collect
    <2>1. Head(results) \in Job /\ results' \in Seq(Job) /\ Len(results') <= Buffer
      BY <1>0, <1>7, Received DEF Collect
    <2> QED BY <1>0, <1>1, <1>7, <2>1 DEF Collect, TypeOK
  <1>8. CASE FinishUpload \/ GenerateExcel
    BY <1>8 DEF FinishUpload, GenerateExcel, channels, TypeOK, rows
  <1>9. CASE GeneratePanics \/ UploadRefused \/ UNCHANGED vars
    BY <1>9 DEF GeneratePanics, UploadRefused, vars, channels, TypeOK, rows
  <1> QED BY <1>2, <1>3, <1>4, <1>5, <1>6, <1>7, <1>8, <1>9 DEF Next

\* Every reachable state is typed: what is in a channel is a job, and no
\* channel holds more than its capacity.
THEOREM TypeCorrect == Spec => []TypeOK
  BY TypeInit, TypeStep, PTL DEF Spec

-----------------------------------------------------------------------------
(* Where the rows are.                                                     *)

Held == {holds[w] : w \in Worker} \ {Idle}

\* The targets that have been made.
Made == Range(results) \cup Held \cup targets

\* The index of a row is its position without the short rows.
IndexOf(r) == r - Cardinality(ShortRows(r))

Indexed(x) ==
  /\ x.row \in 1..next - 1 /\ rows[x.row] # Short
  /\ x.index = IndexOf(x.row)

JobOK(x) == Indexed(x) /\ x.phone = rows[x.row]

MadeOK(x) ==
  /\ Indexed(x)
  /\ x.phone = NormalizePhone(rows[x.row]) /\ x.phone # NoPhone

PlaceInv ==
  /\ rowIndex = next - Cardinality(ShortRows(next - 1))
  /\ \A x \in Range(jobs) : JobOK(x)
  /\ \A x \in Made : MadeOK(x)
  /\ \A r \in 1..next - 1 :
       HasPhone(r) => \E x \in Range(jobs) \cup Made : x.row = r
  /\ reader = "done" => next > Len(rows)
  /\ campaign = "created" => reader = "done" /\ ResultsClosed /\ results = <<>>

\* The short rows up to a row, which may be short itself.
LEMMA ShortRowsStep ==
  ASSUME NEW r \in Nat \ {0}
  PROVE  /\ IsFiniteSet(ShortRows(r)) /\ IsFiniteSet(ShortRows(r - 1))
         /\ Cardinality(ShortRows(r)) \in Nat
         /\ Cardinality(ShortRows(r - 1)) \in Nat
         /\ Cardinality(ShortRows(r))
              = Cardinality(ShortRows(r - 1)) + (IF rows[r] = Short THEN 1 ELSE 0)
  <1>1. /\ IsFiniteSet(1..r) /\ ShortRows(r) \subseteq 1..r
        /\ IsFiniteSet(1..r - 1) /\ ShortRows(r - 1) \subseteq 1..r - 1
    BY FS_Interval DEF ShortRows
  <1>2. /\ IsFiniteSet(ShortRows(r)) /\ IsFiniteSet(ShortRows(r - 1))
        /\ Cardinality(ShortRows(r)) \in Nat /\ Cardinality(ShortRows(r - 1)) \in Nat
    BY <1>1, FS_Subset, FS_CardinalityType
  <1>3. CASE rows[r] = Short
    <2>1. ShortRows(r) = ShortRows(r - 1) \cup {r} /\ r \notin ShortRows(r - 1)
      BY <1>1, <1>3 DEF ShortRows
    <2> QED BY <1>2, <1>3, <2>1, FS_AddElement
  <1>4. CASE rows[r] # Short
    <2>1. ShortRows(r) = ShortRows(r - 1)
      BY <1>1, <1>4 DEF ShortRows
    <2> QED BY <1>2, <1>4, <2>1
  <1> QED BY <1>2, <1>3, <1>4

\* A row that is not short has a greater index than every row above it.
LEMMA IndexMonotone ==
  ASSUME NEW r \in Nat \ {0}, NEW u \in Nat, r < u, rows[u] # Short
  PROVE  IndexOf(r) < IndexOf(u) /\ IndexOf(r) \in Int /\ IndexOf(u) \in Int
  <1>1. /\ IsFiniteSet(ShortRows(r)) /\ Cardinality(ShortRows(r)) \in Nat
        /\ Cardinality(ShortRows(u)) \in Nat
    BY ShortRowsStep
  <1> DEFINE S == ShortRows(r)
             T == r + 1..u - 1
  <1>2. IsFiniteSet(T) /\ Cardinality(T) = u - 1 - r
    BY FS_Interval
  <1>3. ShortRows(u) \subseteq S \cup T /\ S \cap T = {}
    BY DEF ShortRows
  <1> HIDE DEF S, T
  <1>4. /\ IsFiniteSet(S \cup T)
        /\ Cardinality(S \cup T) = Cardinality(S) + Cardinality(T) - 0
    BY <1>1, <1>2, <1>3, FS_Union, FS_EmptySet DEF S
  <1>5. Cardinality(ShortRows(u)) <= Cardinality(ShortRows(r)) + (u - 1 - r)
    BY <1>1, <1>2, <1>3, <1>4, FS_Subset DEF S
  <1> QED BY <1>1, <1>5 DEF IndexOf

\* The empty pipeline.
LEMMA PlaceInit == Init => PlaceInv
  <1> SUFFICES ASSUME Init PROVE PlaceInv
    OBVIOUS
  <1>1. Range(jobs) = {} /\ Made = {}
    BY DEF Init, Range, Made, Held
  <1>2. ShortRows(0) = {}
    BY DEF ShortRows
  <1>3. rowIndex = next - Cardinality(ShortRows(next - 1))
    BY <1>2, FS_EmptySet DEF Init, FirstIndex
  <1> QED BY <1>1, <1>3 DEF Init, PlaceInv

\* The reader takes the next row; the channel of jobs gains what it makes of
\* it, if anything.
LEMMA ReaderPlace ==
  ASSUME TypeOK, PlaceInv, reader = "reading", next <= Len(rows),
         next' = next + 1,
         UNCHANGED <<sheet, reader, results, holds, targets, campaign>>,
         \/ rows[next] = Short /\ rowIndex' = rowIndex /\ jobs' = jobs
         \/ /\ rows[next] # Short /\ rowIndex' = rowIndex + 1
            /\ jobs' = Append(jobs, NextJob)
  PROVE  PlaceInv'
  <1>1. /\ next \in Nat \ {0} /\ rowIndex \in Nat /\ jobs \in Seq(Job)
        /\ next' - 1 = next
    BY RowType DEF TypeOK
  <1>2. /\ rows' = rows /\ Made' = Made
        /\ \A r : /\ ShortRows(r)' = ShortRows(r) /\ IndexOf(r)' = IndexOf(r)
                  /\ HasPhone(r)' = HasPhone(r)
    BY DEF rows, Made, Held, ShortRows, IndexOf, HasPhone
  <1> DEFINE above == Cardinality(ShortRows(next - 1))
             upTo == Cardinality(ShortRows(next))
  <1>3. /\ above \in Nat /\ upTo \in Nat
        /\ upTo = above + (IF rows[next] = Short THEN 1 ELSE 0)
    BY <1>1, ShortRowsStep
  <1>4. rowIndex = next - above
    BY DEF PlaceInv
  <1>5. upTo = Cardinality(ShortRows(next))
    OBVIOUS
  <1> HIDE DEF above, upTo
  <1>6. rowIndex' = next' - Cardinality(ShortRows(next))
    BY <1>1, <1>3, <1>4, <1>5
  <1>7. ASSUME NEW x, Indexed(x) PROVE Indexed(x)'
    BY <1>1, <1>2, <1>7 DEF Indexed
  <1>8. CASE rows[next] = Short
    <2>1. Range(jobs)' = Range(jobs) /\ ~HasPhone(next)
      BY <1>8 DEF HasPhone
    <2> QED BY <1>1, <1>2, <1>6, <1>7, <2>1 DEF PlaceInv, JobOK, MadeOK
  <1>9. CASE rows[next] # Short /\ jobs' = Append(jobs, NextJob)
    <2> PICK x : x = NextJob
      OBVIOUS
    <2>1. Range(jobs)' = Range(jobs) \cup {x}
      BY <1>1, <1>9, JobTypes, Sent
    <2>2. x.row = next /\ x.index = rowIndex /\ x.phone = rows[next]
      BY DEF NextJob
    <2>3. rowIndex = IndexOf(next)
      BY <1>1, <1>9, <1>3, <1>4, <1>5 DEF IndexOf
    <2>4. JobOK(x)'
      BY <1>1, <1>2, <1>9, <2>2, <2>3 DEF JobOK, Indexed
    <2>5. /\ \A y \in Range(jobs) : JobOK(y)'
          /\ \A y \in Made : MadeOK(y)'
      BY <1>2, <1>7 DEF PlaceInv, JobOK, MadeOK
    <2>6. \A r \in 1..next :
            HasPhone(r) => \E y \in Range(jobs)' \cup Made' : y.row = r
      BY <1>1, <1>2, <2>1, <2>2 DEF PlaceInv
    <2> QED BY <1>1, <1>2, <1>6, <2>1, <2>4, <2>5, <2>6 DEF PlaceInv
  <1> QED BY <1>8, <1>9

\* The rest of the pipeline passes on what it has: the rows that have been
\* read stay in it, but for those without a phone.
LEMMA PassedOn ==
  ASSUME PlaceInv, UNCHANGED <<sheet, reader, next, rowIndex>>,
         \A x \in Range(jobs)' : x \in Range(jobs),
         \A x \in Made' : x \in Made \/ MadeOK(x),
         \A x \in Range(jobs) \cup Made :
            HasPhone(x.row) => \E y \in (Range(jobs) \cup Made)' : y.row = x.row,
         campaign' = "created" =>
            reader' = "done" /\ ResultsClosed' /\ results' = <<>>
  PROVE  PlaceInv'
  <1>1. /\ rows' = rows
        /\ \A r : /\ ShortRows(r)' = ShortRows(r) /\ IndexOf(r)' = IndexOf(r)
                  /\ HasPhone(r)' = HasPhone(r)
    BY DEF rows, ShortRows, IndexOf, HasPhone
  <1>2. \A x : JobOK(x)' = JobOK(x) /\ MadeOK(x)' = MadeOK(x)
    BY <1>1 DEF JobOK, MadeOK, Indexed
  <1> QED BY <1>1, <1>2 DEF PlaceInv

\* A worker takes a job; it drops it or holds the target it has made.
LEMMA TakePlace ==
  ASSUME TypeOK, PlaceInv, NEW w \in Worker, TakeJob(w)
  PROVE  PlaceInv'
  <1> DEFINE j == Head(jobs)
             phone == NormalizePhone(j.phone)
  <1>1. /\ jobs \in Seq(Job) /\ jobs # <<>> /\ holds[w] = Idle
        /\ holds \in [Worker -> Job \cup {Idle}]
        /\ jobs' = Tail(jobs)
        /\ holds' = [holds EXCEPT ![w] = IF phone = NoPhone THEN Idle
                                         ELSE Target(j)]
        /\ UNCHANGED <<sheet, reader, next, rowIndex, results, targets, campaign>>
    BY TakeJobEffect DEF TypeOK
  <1>2. j \in Job /\ Range(jobs) = Range(jobs)' \cup {j}
    BY <1>1, Received
  <1>3. JobOK(j)
    BY <1>2 DEF PlaceInv
  <1>4. campaign # "created"
    BY <1>1 DEF PlaceInv, ResultsClosed
  <1> HIDE DEF j
  <1>5. CASE phone = NoPhone
    <2>1. Held' = Held /\ Made' = Made
      <3>1. holds' = holds
        BY <1>1, <1>5
      <3> QED BY <1>1, <3>1 DEF Held, Made
    <2>2. ~HasPhone(j.row)
      BY <1>3, <1>5 DEF JobOK, HasPhone
    <2> QED BY <1>1, <1>2, <1>4, <2>1, <2>2, PassedOn
  <1>6. CASE phone # NoPhone
    <2>1. /\ Target(j) \in Job /\ Target(j).row = j.row
          /\ Target(j).index = j.index /\ Target(j).phone = phone
      BY <1>2, JobTypes
    <2>2. Held' = Held \cup {Target(j)}
      BY <1>1, <1>6, <2>1, IdleAssumption DEF Held
    <2>3. Made' = Made \cup {Target(j)}
      BY <1>1, <2>2 DEF Made
    <2>4. MadeOK(Target(j))
      BY <1>3, <1>6, <2>1 DEF MadeOK, JobOK, Indexed
    <2> QED BY <1>1, <1>2, <1>4, <2>1, <2>3, <2>4, PassedOn
  <1> QED BY <1>5, <1>6

\* Sending and collecting a target moves it from one part to another.
LEMMA MovePlace ==
  ASSUME TypeOK, PlaceInv, (\E w \in Worker : SendTarget(w)) \/ Collect
  PROVE  PlaceInv'
  <1>1. /\ UNCHANGED <<sheet, reader, next, rowIndex, jobs, campaign>>
        /\ Made' = Made
        /\ campaign # "created"
    <2>1. ASSUME NEW w \in Worker, SendTarget(w)
          PROVE  /\ UNCHANGED <<sheet, reader, next, rowIndex, jobs, campaign>>
                 /\ Made' = Made /\ campaign # "created"
      <3>1. /\ holds[w] # Idle /\ holds \in [Worker -> Job \cup {Idle}]
            /\ results' = Append(results, holds[w]) /\ results \in Seq(Job)
            /\ holds' = [holds EXCEPT ![w] = Idle]
            /\ UNCHANGED <<sheet, reader, next, rowIndex, jobs, targets, campaign>>
        BY <2>1 DEF SendTarget, TypeOK
      <3>2. Range(results)' = Range(results) \cup {holds[w]}
        BY <3>1, Sent
      <3>3. Held = Held' \cup {holds[w]}
        BY <3>1 DEF Held
      <3>4. campaign # "created"
        BY <3>1 DEF PlaceInv, ResultsClosed
      <3> QED BY <3>1, <3>2, <3>3, <3>4 DEF Made
    <2>2. ASSUME Collect
          PROVE  /\ UNCHANGED <<sheet, reader, next, rowIndex, jobs, campaign>>
                 /\ Made' = Made /\ campaign # "created"
      <3>1. /\ results # <<>> /\ results \in Seq(Job) /\ results' = Tail(results)
            /\ targets' = targets \cup {Head(results)}
            /\ UNCHANGED <<sheet, reader, next, rowIndex, jobs, holds, campaign>>
        BY <2>2 DEF Collect, TypeOK
      <3>2. Range(results) = Range(results)' \cup {Head(results)}
        BY <3>1, Received
      <3>3. campaign # "created"
        BY <3>1 DEF PlaceInv
      <3>4. Held' = Held
        BY <3>1 DEF Held
      <3> QED BY <3>1, <3>2, <3>3, <3>4 DEF Made
    <2> QED BY <2>1, <2>2
  <1>2. Range(jobs)' = Range(jobs)
    BY <1>1
  <1> QED BY <1>1, <1>2, PassedOn

\* Every step keeps each row that was read in one place.
LEMMA PlaceStep ==
  ASSUME TypeOK, PlaceInv, [Next]_vars
  PROVE  PlaceInv'
  <1>1. CASE SkipShortRow \/ ReadRow
    BY <1>1, ReaderPlace DEF SkipShortRow, ReadRow, NextJob, channels
  <1>2. CASE ReadFails \/ CloseJobs
    <2>1. campaign # "created"
      BY <1>2 DEF ReadFails, CloseJobs, PlaceInv
    <2>2. /\ rows' = rows /\ Range(jobs)' = Range(jobs) /\ Made' = Made
          /\ UNCHANGED <<next, rowIndex, campaign>>
          /\ \A r : /\ ShortRows(r)' = ShortRows(r) /\ IndexOf(r)' = IndexOf(r)
                    /\ HasPhone(r)' = HasPhone(r)
      BY <1>2 DEF ReadFails, CloseJobs, channels, rows, Made, Held, ShortRows,
                  IndexOf, HasPhone
    <2>3. \A x : JobOK(x)' = JobOK(x) /\ MadeOK(x)' = MadeOK(x)
      BY <2>2 DEF JobOK, MadeOK, Indexed
    <2>4. reader' = "done" => next > Len(rows)
      BY <1>2 DEF ReadFails, CloseJobs
    <2> QED BY <2>1, <2>2, <2>3, <2>4 DEF PlaceInv
  <1>3. ASSUME NEW w \in Worker, TakeJob(w) PROVE PlaceInv'
    BY <1>3, TakePlace
  <1>4. CASE (\E w \in Worker : SendTarget(w)) \/ Collect
    BY <1>4, MovePlace
  <1>5. ASSUME UNCHANGED <<sheet, reader, next, rowIndex, jobs, results, holds,
                           targets>>,
               campaign' = "created" =>
                 reader = "done" /\ ResultsClosed /\ results = <<>>
        PROVE  PlaceInv'
    <2>1. Range(jobs)' = Range(jobs) /\ Made' = Made /\ ResultsClosed' = ResultsClosed
      BY <1>5 DEF Made, Held, ResultsClosed
    <2> QED BY <1>5, <2>1, PassedOn
  <1>6. CASE FinishUpload
    <2>1. campaign' = "created" =>
            reader = "done" /\ ResultsClosed /\ results = <<>>
      BY <1>6 DEF FinishUpload, ReadError, ResultsClosed, TypeOK
    <2> QED BY <1>5, <1>6, <2>1 DEF FinishUpload, channels
  <1>7. CASE GenerateExcel \/ GeneratePanics \/ UploadRefused \/ UNCHANGED vars
    BY <1>5, <1>7 DEF GenerateExcel, GeneratePanics, UploadRefused, vars,
                      channels, PlaceInv
  <1> QED BY <1>1, <1>2, <1>3, <1>4, <1>6, <1>7 DEF Next

\* Every row that was read is in one place throughout.
LEMMA PlaceInvariant == Spec => [](TypeOK /\ PlaceInv)
  <1>1. Init => TypeOK /\ PlaceInv
    BY TypeInit, PlaceInit
  <1>2. TypeOK /\ PlaceInv /\ [Next]_vars => (TypeOK /\ PlaceInv)'
    BY TypeStep, PlaceStep
  <1> QED BY <1>1, <1>2, PTL DEF Spec

\* When the pipeline is empty, the targets are those of the rows with a phone,
\* each with the index of its row.
LEMMA Drained ==
  ASSUME TypeOK, PlaceInv, reader = "done", ResultsClosed, results = <<>>
  PROVE  /\ \A t \in targets : /\ t \in Job /\ t.row \in DOMAIN rows /\ HasPhone(t.row)
                               /\ t.index = IndexOf(t.row)
                               /\ t.phone = NormalizePhone(rows[t.row])
         /\ \A r \in DOMAIN rows :
              HasPhone(r) => \E t \in targets : t.row = r
         /\ \A t, u \in targets : t.row = u.row \/ t.index = u.index => t = u
  <1>1. /\ Len(rows) \in Nat /\ DOMAIN rows = 1..Len(rows)
        /\ next = Len(rows) + 1
    BY RowType DEF TypeOK, PlaceInv
  <1>2. Range(jobs) = {} /\ Made = targets
    <2>1. jobs = <<>> /\ results = <<>> /\ \A w \in Worker : holds[w] = Idle
      BY DEF ResultsClosed
    <2> QED BY <2>1 DEF Range, Made, Held
  <1>3. ASSUME NEW t \in targets
        PROVE  /\ t \in Job /\ t.row \in DOMAIN rows /\ HasPhone(t.row)
               /\ t.index = IndexOf(t.row)
               /\ t.phone = NormalizePhone(rows[t.row])
    BY <1>1, <1>2 DEF TypeOK, PlaceInv, MadeOK, Indexed, HasPhone
  <1>4. ASSUME NEW r \in DOMAIN rows, HasPhone(r)
        PROVE  \E t \in targets : t.row = r
    BY <1>1, <1>2, <1>4 DEF PlaceInv
  <1>5. ASSUME NEW t \in targets, NEW u \in targets,
               t.row = u.row \/ t.index = u.index
        PROVE  t = u
    <2>1. /\ t.row \in Nat \ {0} /\ u.row \in Nat \ {0}
          /\ rows[t.row] # Short /\ rows[u.row] # Short
      BY <1>1, <1>3 DEF HasPhone
    <2>2. t.row = u.row
      BY <1>3, <1>5, <2>1, IndexMonotone
    <2>3. t.index = u.index /\ t.phone = u.phone
      BY <1>3, <2>2
    <2> QED BY <1>3, <2>2, <2>3 DEF Job
  <1> QED BY <1>3, <1>4, <1>5

\* The targets of a campaign.
LEMMA CampaignTargets ==
  ASSUME TypeOK, PlaceInv, campaign = "created"
  PROVE  /\ \A t \in targets : /\ t \in Job /\ t.row \in DOMAIN rows /\ HasPhone(t.row)
                               /\ t.index = IndexOf(t.row)
                               /\ t.phone = NormalizePhone(rows[t.row])
         /\ \A r \in DOMAIN rows :
              HasPhone(r) => \E t \in targets : t.row = r
         /\ \A t, u \in targets : t.row = u.row \/ t.index = u.index => t = u
  <1>1. reader = "done" /\ ResultsClosed /\ results = <<>>
    BY DEF PlaceInv
  <1> QED BY <1>1, Drained

\* However the pool interleaves, a campaign has one target for each row with a
\* phone, or the upload was refused; no index is given twice.
THEOREM UploadCompleteHolds == Spec => []UploadComplete
  <1>1. TypeOK /\ PlaceInv => UploadComplete
    <2> SUFFICES ASSUME TypeOK, PlaceInv, campaign = "created"
                 PROVE  UploadComplete
      BY DEF UploadComplete
    <2>1. {t.row : t \in targets} = {r \in DOMAIN rows : HasPhone(r)}
      BY CampaignTargets
    <2>2. ASSUME NEW t \in targets
          PROVE  /\ t.phone.lead = "9" /\ t.phone.digits >= 10
                 /\ t.phone.digits > 10 => rows[t.row].digits > 11
      <3>1. /\ t.row \in DOMAIN rows /\ HasPhone(t.row)
            /\ t.phone = NormalizePhone(rows[t.row])
        BY CampaignTargets
      <3>2. rows[t.row] \in Phone /\ t.phone # NoPhone
        BY <3>1, RowType DEF HasPhone
      <3> QED BY <3>1, <3>2, NormalizedPhone
    <2> QED BY <2>1, <2>2, CampaignTargets DEF UploadComplete
  <1> QED BY <1>1, PlaceInvariant, PTL

-----------------------------------------------------------------------------
(* The rows of the report.                                                 *)

\* The row that is shown is the one whose index is looked up.
LEMMA ShownRow ==
  ASSUME TypeOK, PlaceInv, campaign = "created", NEW r \in DOMAIN rows
  PROVE  /\ \A t \in targets : t.index = r => Shown(targets, r) = t.row
         /\ (\A t \in targets : t.index # r) => Shown(targets, r) = 0
         /\ Shown(targets, r) # 0 =>
              \E t \in targets : t.index = r /\ Shown(targets, r) = t.row
  <1> DEFINE found == {t \in targets : t.index = TargetIndex(r)}
  <1>1. found = {t \in targets : t.index = r}
    BY DEF TargetIndex
  <1>2. Shown(targets, r) = IF found = {} THEN 0 ELSE (CHOOSE t \in found : TRUE).row
    BY DEF Shown
  <1>3. found # {} => (CHOOSE t \in found : TRUE) \in found
    OBVIOUS
  <1>4. \A t, u \in found : t = u
    BY <1>1, CampaignTargets
  <1> QED BY <1>1, <1>2, <1>3, <1>4

\* A row without short rows above it is shown its own target, any other row
\* one that is as many rows further down as there are short rows above that.
LEMMA RowsAlignedHere ==
  ASSUME TypeOK, PlaceInv, campaign = "created"
  PROVE  RowsAligned([r \in DOMAIN rows |-> Shown(targets, r)])
  <1>0. /\ Len(rows) \in Nat /\ DOMAIN rows = 1..Len(rows)
        /\ \A r \in DOMAIN rows : r \in Nat \ {0}
    BY RowType
  <1>1. ASSUME NEW r \in DOMAIN rows, ShortRows(r) = {}
        PROVE  Shown(targets, r) = IF HasPhone(r) THEN r ELSE 0
    <2>1. r \in Nat \ {0} /\ IndexOf(r) = r
      BY <1>0, <1>1, FS_EmptySet DEF IndexOf
    <2>2. CASE HasPhone(r)
      <3>1. PICK t \in targets : t.row = r
        BY <2>2, CampaignTargets
      <3>2. t.index = r
        BY <2>1, <3>1, CampaignTargets
      <3> QED BY <2>2, <3>1, <3>2, ShownRow
    <2>3. CASE ~HasPhone(r)
      <3>1. ASSUME NEW t \in targets, t.index = r PROVE FALSE
        <4>1. /\ t.row \in Nat \ {0} /\ HasPhone(t.row)
              /\ IndexOf(t.row) = r
          BY <1>0, <3>1, CampaignTargets
        <4>2. Cardinality(ShortRows(t.row)) \in Nat
          BY <4>1, ShortRowsStep
        <4>3. r <= t.row /\ r # t.row
          BY <2>1, <2>3, <4>1, <4>2 DEF IndexOf
        <4>4. IndexOf(r) < IndexOf(t.row)
          BY <2>1, <4>1, <4>3, IndexMonotone DEF HasPhone
        <4> QED BY <2>1, <4>1, <4>4
      <3> QED BY <2>3, <3>1, ShownRow
    <2> QED BY <2>2, <2>3
  <1>2. ASSUME NEW r \in DOMAIN rows, Shown(targets, r) # 0
        PROVE  Shown(targets, r) = r + Cardinality(ShortRows(Shown(targets, r)))
    <2>1. PICK t \in targets : t.index = r /\ Shown(targets, r) = t.row
      BY <1>2, ShownRow
    <2>2. t.row \in Nat \ {0} /\ r = IndexOf(t.row)
      BY <1>0, <2>1, CampaignTargets
    <2>3. Cardinality(ShortRows(t.row)) \in Nat
      BY <2>2, ShortRowsStep
    <2> QED BY <2>1, <2>2, <2>3 DEF IndexOf
  <1> QED BY <1>1, <1>2 DEF RowsAligned

-----------------------------------------------------------------------------
(* Headers: a name is put into a sequence.                                 *)

\* What SubSeq makes of a sequence.
LEMMA Part ==
  ASSUME NEW S, NEW h \in Seq(S), NEW l, l = Len(h), NEW n \in Nat, NEW k \in Nat, n <= l, k <= n
  PROVE  LET a == SubSeq(h, k + 1, n) IN
        /\ a \in Seq(S) /\ Len(a) = n - k
        /\ \A i \in 1..n-k : a[i] = h[k + i]
  <1>0. l \in Nat /\ DOMAIN h = 1..l /\ \A i \in 1..l : h[i] \in S
    OBVIOUS
  <1>1. k + 1 \in Int /\ n \in Int /\ \A i \in k + 1..n : h[i] \in S
    BY <1>0
  <1> DEFINE a == SubSeq(h, k + 1, n)
  <1>2. /\ a \in Seq(S)
        /\ Len(a) = IF k + 1 <= n THEN n - (k + 1) + 1 ELSE 0
        /\ \A i \in 1..n - (k + 1) + 1 : a[i] = h[(k + 1) + i - 1]
    BY <1>1, SubSeqProperties
  <1> HIDE DEF a
  <1>3. n - (k + 1) + 1 = n - k
    OBVIOUS
  <1>4. Len(a) = n - k
    <2>1. CASE k + 1 <= n
      BY <1>2, <1>3, <2>1
    <2>2. CASE ~(k + 1 <= n)
      <3>1. n - k = 0
        BY <2>2
      <3> QED BY <1>2, <2>2, <3>1
    <2> QED BY <2>1, <2>2
  <1>5. ASSUME NEW i \in 1..n-k PROVE a[i] = h[k + i]
    <2>1. i \in 1..n - (k + 1) + 1 /\ (k + 1) + i - 1 = k + i
      BY <1>3
    <2> QED BY <1>2, <2>1
  <1> QED BY <1>2, <1>4, <1>5 DEF a

\* Two sequences joined.
LEMMA Joined ==
  ASSUME NEW S, NEW a \in Seq(S), NEW b \in Seq(S),
         NEW p, p = Len(a), NEW q, q = Len(b), NEW c, c = a \o b
  PROVE  /\ c \in Seq(S) /\ Len(c) = p + q
         /\ \A i \in 1..p : c[i] = a[i]
         /\ \A i \in 1..q : c[p + i] = b[i]
  <1>1. p \in Nat /\ q \in Nat
    OBVIOUS
  <1>2. /\ c \in Seq(S) /\ Len(c) = p + q
        /\ \A i \in 1..p + q : c[i] = IF i <= p THEN a[i] ELSE b[i - p]
    BY ConcatProperties
  <1>3. ASSUME NEW i \in 1..p PROVE c[i] = a[i]
    <2>1. i \in 1..p + q /\ i <= p
      BY <1>1
    <2> QED BY <1>2, <2>1
  <1>4. ASSUME NEW i \in 1..q PROVE c[p + i] = b[i]
    <2>1. p + i \in 1..p + q /\ ~(p + i <= p) /\ p + i - p = i
      BY <1>1
    <2> QED BY <1>2, <2>1
  <1> QED BY <1>2, <1>3, <1>4

\* g is h with the name put after its first n elements.
Widened(S, g, h, l, n, name) ==
  /\ g \in Seq(S)
  /\ Len(g) = l + 1
  /\ \A i \in 1..n : g[i] = h[i]
  /\ g[n + 1] = name
  /\ \A i \in n + 1..l : g[i + 1] = h[i]

\* What InsertAt makes of a sequence.
LEMMA InsertAtEffect ==
  ASSUME NEW S, NEW h, NEW l, NEW n, NEW name, NEW g
  PROVE  /\ h \in Seq(S) /\ l = Len(h) /\ n \in Nat /\ n <= l /\ name \in S
         /\ g = InsertAt(h, n + 1, name)
         => Widened(S, g, h, l, n, name)
  <1>0. SUFFICES ASSUME h \in Seq(S), l = Len(h), n \in Nat, n <= l, name \in S,
                        g = InsertAt(h, n + 1, name)
                 PROVE  Widened(S, g, h, l, n, name)
    OBVIOUS
  <1>1. l \in Nat /\ n \in Nat /\ n <= l /\ l - n \in Nat
    BY <1>0
  <1>2. PICK a, m, b : /\ a = SubSeq(h, 0 + 1, n) /\ m = <<name>>
                       /\ b = SubSeq(h, n + 1, l)
    OBVIOUS
  <1>3. g = (a \o m) \o b
    <2>1. g = SubSeq(h, 1, (n + 1) - 1) \o <<name>> \o SubSeq(h, n + 1, Len(h))
      BY Zenon, <1>0 DEF InsertAt
    <2>2. (n + 1) - 1 = n /\ 0 + 1 = 1
      BY <1>1
    <2> QED BY Zenon, <1>0, <1>2, <2>1, <2>2
  <1>4. /\ a \in Seq(S) /\ Len(a) = n
        /\ \A i \in 1..n : a[i] = h[i]
    <2>1. 0 \in Nat /\ 0 <= n /\ n - 0 = n /\ \A i \in 1..n : 0 + i = i
      BY <1>1
    <2>2. /\ SubSeq(h, 0 + 1, n) \in Seq(S) /\ Len(SubSeq(h, 0 + 1, n)) = n - 0
          /\ \A i \in 1..n - 0 : SubSeq(h, 0 + 1, n)[i] = h[0 + i]
      BY <1>0, <2>1, Part
    <2> QED BY <1>2, <2>1, <2>2
  <1>5. /\ b \in Seq(S) /\ Len(b) = l - n
        /\ \A i \in 1..l - n : b[i] = h[n + i]
    <2>1. l \in Nat /\ l <= l
      BY <1>1
    <2>2. /\ SubSeq(h, n + 1, l) \in Seq(S) /\ Len(SubSeq(h, n + 1, l)) = l - n
          /\ \A i \in 1..l - n : SubSeq(h, n + 1, l)[i] = h[n + i]
      BY <1>0, <2>1, Part
    <2> QED BY <1>2, <2>2
  <1>6. m \in Seq(S) /\ Len(m) = 1 /\ m[1] = name
    BY <1>0, <1>2
  <1>7. PICK am : am = a \o m
    OBVIOUS
  <1>8. /\ am \in Seq(S) /\ Len(am) = n + 1
        /\ \A i \in 1..n : am[i] = a[i]
        /\ \A i \in 1..1 : am[n + i] = m[i]
    <2>1. a \in Seq(S) /\ m \in Seq(S) /\ Len(a) = n /\ Len(m) = 1
      BY <1>4, <1>6
    <2>2. PICK p, q : p = n /\ q = 1
      OBVIOUS
    <2>3. /\ am \in Seq(S) /\ Len(am) = p + q
          /\ \A i \in 1..p : am[i] = a[i]
          /\ \A i \in 1..q : am[p + i] = m[i]
      <3>1. a \in Seq(S) /\ m \in Seq(S) /\ Len(a) = p /\ Len(m) = q
        BY <2>1, <2>2
      <3> QED BY <1>7, <3>1, Joined
    <2> QED BY <2>2, <2>3
  <1>9. /\ g \in Seq(S) /\ Len(g) = (n + 1) + (l - n)
        /\ \A i \in 1..n + 1 : g[i] = am[i]
        /\ \A i \in 1..l - n : g[(n + 1) + i] = b[i]
    <2>1. am \in Seq(S) /\ b \in Seq(S) /\ Len(am) = n + 1 /\ Len(b) = l - n
      BY <1>5, <1>8
    <2>2. g = am \o b
      BY <1>3, <1>7
    <2>3. PICK p, q : p = n + 1 /\ q = l - n
      OBVIOUS
    <2>4. /\ g \in Seq(S) /\ Len(g) = p + q
          /\ \A i \in 1..p : g[i] = am[i]
          /\ \A i \in 1..q : g[p + i] = b[i]
      <3>1. am \in Seq(S) /\ b \in Seq(S) /\ Len(am) = p /\ Len(b) = q
        BY <2>1, <2>3
      <3> QED BY <2>2, <3>1, Joined
    <2> QED BY <2>3, <2>4
  <1>10. Len(g) = l + 1
    BY <1>1, <1>9
  <1>11. ASSUME NEW i \in n + 1..l PROVE g[i + 1] = h[i]
    <2>1. i - n \in 1..l - n /\ (n + 1) + (i - n) = i + 1 /\ n + (i - n) = i
      BY <1>1
    <2>2. g[(n + 1) + (i - n)] = b[i - n] /\ b[i - n] = h[n + (i - n)]
      BY <1>5, <1>9, <2>1
    <2> QED BY <2>1, <2>2
  <1>12. g[n + 1] = name /\ \A i \in 1..n : g[i] = h[i]
    <2>1. /\ n + 1 \in 1..n + 1 /\ 1 \in 1..1
          /\ \A i \in 1..n : i \in 1..n + 1
      BY <1>1
    <2>2. g[n + 1] = am[n + 1] /\ am[n + 1] = m[1]
      BY <1>8, <1>9, <2>1
    <2> QED BY <1>4, <1>6, <1>8, <1>9, <2>1, <2>2
  <1> QED BY <1>9, <1>10, <1>11, <1>12 DEF Widened

-----------------------------------------------------------------------------
(* The columns of the report.                                              *)

Name == {"status", "reply", "time", "sender"}

\* The provers do not know that a name between quotes is a string.
Text == STRING \cup Name

HeaderOK(h) == h \in Seq(Text)

\* c is the last column of this name.
LastNamed(h, c, name) ==
  /\ c \in DOMAIN h /\ h[c] = name
  /\ \A i \in DOMAIN h : h[i] = name => i <= c

At(s, name) == LastNamed(s.header, s.col[name], name)

\* A set of numbers that are bounded has a greatest one.
LEMMA Greatest ==
  ASSUME NEW l \in Nat, NEW F, F \subseteq 1..l, F # {}
  PROVE  \E m \in F : \A e \in F : e <= m
  <1> DEFINE R == {ss \in Nat \X Nat : ss[1] < ss[2]}
             T == {l - e : e \in F}
  <1>1. IsWellFoundedOn(R, Nat)
    BY NatLessThanWellFounded DEF OpToRel
  <1>2. T \subseteq Nat /\ T # {}
    <2>1. \A e \in F : e \in 1..l
      OBVIOUS
    <2>2. \A e \in 1..l : l - e \in Nat
      OBVIOUS
    <2> QED BY <2>1, <2>2
  <1>3. PICK x \in T : \A y \in T : <<y, x>> \notin R
    <2> HIDE DEF T, R
    <2> QED BY <1>1, <1>2, WFMin
  <1>4. \A y \in T : ~(y < x)
    BY <1>2, <1>3
  <1>5. PICK m \in F : x = l - m
    OBVIOUS
  <1>6. ASSUME NEW e \in F PROVE e <= m
    <2>1. l - e \in T /\ ~(l - e < l - m)
      BY <1>4, <1>5
    <2> QED BY <2>1
  <1> QED BY <1>6

\* ColumnOf is the last column of the name, and 0 if and only if there is none.
LEMMA Found ==
  ASSUME NEW h, HeaderOK(h), NEW name
  PROVE  LET c == ColumnOf(h, name) IN
         /\ c = 0 => \A i \in DOMAIN h : h[i] # name
         /\ c # 0 => LastNamed(h, c, name)
         /\ \A i : LastNamed(h, i, name) => c = i
         /\ (\A i \in DOMAIN h : h[i] # name) => c = 0
  <1> DEFINE found == {c \in DOMAIN h : h[c] = name}
             c == ColumnOf(h, name)
  <1>1. DOMAIN h = 1..Len(h) /\ Len(h) \in Nat
    BY DEF HeaderOK
  <1>2. c = IF found = {} THEN 0
            ELSE CHOOSE d \in found : \A e \in found : e <= d
    BY DEF ColumnOf
  <1>3. CASE found = {}
    BY <1>2, <1>3 DEF LastNamed
  <1>4. CASE found # {}
    <2>1. PICK m \in found : \A e \in found : e <= m
      <3>1. found \subseteq 1..Len(h)
        BY <1>1
      <3> HIDE DEF found
      <3> QED BY <1>1, <1>4, <3>1, Greatest
    <2>2. c \in found /\ \A e \in found : e <= c
      <3> HIDE DEF found
      <3> QED BY <1>2, <1>4, <2>1
    <2>3. LastNamed(h, c, name) /\ c # 0
      BY <1>1, <2>2 DEF LastNamed
    <2>4. ASSUME NEW i, LastNamed(h, i, name) PROVE c = i
      BY <1>1, <2>2, <2>4 DEF LastNamed
    <2> QED BY <1>4, <2>3, <2>4
  <1> QED BY <1>3, <1>4

\* A name that is put at the end of a header.
LEMMA Appended ==
  ASSUME NEW h, HeaderOK(h), NEW l, l = Len(h), NEW name \in Text,
         NEW g, g = Append(h, name)
  PROVE  Widened(Text, g, h, l, l, name)
  <1>1. l \in Nat /\ DOMAIN h = 1..l
    BY DEF HeaderOK
  <1>2. /\ g \in Seq(Text) /\ Len(g) = l + 1
        /\ \A i \in 1..l : g[i] = h[i]
        /\ g[l + 1] = name
    BY DEF HeaderOK
  <1> QED BY <1>1, <1>2 DEF Widened

\* A sheet of GenerateExcel and the columns found so far.
Filled(s) ==
  /\ s = [header |-> s.header, col |-> s.col]
  /\ HeaderOK(s.header)
  /\ s.col \in [Name -> Nat]

\* What WithColumn makes of a sheet.
Completed(t, s, name) ==
  /\ Filled(t)
  /\ t.col = [s.col EXCEPT ![name] = t.col[name]]
  /\ Len(s.header) <= Len(t.header)
  /\ \A i \in 1..Len(s.header) : t.header[i] = s.header[i]
  /\ \A i \in DOMAIN t.header : i \in DOMAIN s.header \/ t.header[i] = name
  /\ At(t, name)
  /\ \/ t.header = s.header
     \/ /\ \A i \in DOMAIN s.header : s.header[i] # name
        /\ t.col[name] = Len(t.header)

\* The names GenerateExcel looks for are texts, and so are the client's.
LEMMA NameText == Name \subseteq Text
  BY Zenon DEF Text

LEMMA Wider ==
  ASSUME NEW A, NEW B, A \subseteq B, NEW h \in Seq(A)
  PROVE  h \in Seq(B)
  OBVIOUS

\* WithColumn finds the column or adds it at the end.
LEMMA WithColumnEffect ==
  ASSUME NEW s, Filled(s), NEW name \in Name
  PROVE  Completed(WithColumn(s, name), s, name)
  <1> DEFINE h == s.header
             l == Len(h)
             c == ColumnOf(h, name)
             t == WithColumn(s, name)
  <1>1. HeaderOK(h) /\ l \in Nat /\ DOMAIN h = 1..l /\ name \in Text
    BY NameText DEF Filled, HeaderOK
  <1>2. /\ c = 0 => \A i \in DOMAIN h : h[i] # name
        /\ c # 0 => LastNamed(h, c, name)
    BY <1>1, Found
  <1>3. CASE c # 0
    <2>1. t = [s EXCEPT !.col[name] = c]
      BY <1>3 DEF WithColumn
    <2>2. c \in Nat
      BY <1>1, <1>2, <1>3 DEF LastNamed
    <2>3. /\ t = [header |-> t.header, col |-> t.col]
          /\ t.header = h /\ t.col = [s.col EXCEPT ![name] = c]
      BY <2>1 DEF Filled
    <2>4. t.col \in [Name -> Nat] /\ t.col[name] = c
      BY <2>2, <2>3 DEF Filled
    <2> HIDE DEF t, c
    <2>5. Filled(t)
      BY <1>1, <2>3, <2>4 DEF Filled
    <2>6. At(t, name)
      BY <1>2, <1>3, <2>3, <2>4 DEF At
    <2>7. /\ t.col = [s.col EXCEPT ![name] = t.col[name]]
          /\ l <= Len(t.header)
          /\ \A i \in 1..l : t.header[i] = h[i]
          /\ \A i \in DOMAIN t.header : i \in DOMAIN h
      BY <1>1, <2>3, <2>4
    <2> QED BY <2>3, <2>5, <2>6, <2>7 DEF Completed, t
  <1>4. CASE c = 0
    <2>1. t = [s EXCEPT !.header = Append(@, name), !.col[name] = Len(s.header) + 1]
      BY <1>4 DEF WithColumn
    <2>2. PICK g : g = Append(h, name)
      OBVIOUS
    <2>3. /\ t = [header |-> t.header, col |-> t.col]
          /\ t.header = g /\ t.col = [s.col EXCEPT ![name] = l + 1]
      BY <2>1, <2>2 DEF Filled
    <2>4. t.col \in [Name -> Nat] /\ t.col[name] = l + 1
      BY <1>1, <2>3 DEF Filled
    <2> HIDE DEF t, c
    <2>5. /\ HeaderOK(g) /\ Len(g) = l + 1
          /\ \A i \in 1..l : g[i] = h[i]
          /\ g[l + 1] = name
      <3>1. PICK k : k = l
        OBVIOUS
      <3>2. Widened(Text, g, h, k, k, name)
        BY <1>1, <2>2, <3>1, Appended
      <3> QED BY <3>1, <3>2 DEF Widened, HeaderOK
    <2>6. DOMAIN g = 1..l + 1
      BY <2>5 DEF HeaderOK
    <2>7. Filled(t)
      BY <2>3, <2>4, <2>5 DEF Filled
    <2>8. At(t, name)
      BY <1>1, <2>3, <2>4, <2>5, <2>6 DEF At, LastNamed
    <2>9. \A i \in DOMAIN g : i \in DOMAIN h \/ g[i] = name
      BY <1>1, <2>5, <2>6
    <2>10. /\ t.col = [s.col EXCEPT ![name] = t.col[name]]
           /\ l <= Len(t.header) /\ t.col[name] = Len(t.header)
           /\ \A i \in 1..l : t.header[i] = h[i]
           /\ \A i \in DOMAIN t.header : i \in DOMAIN h \/ t.header[i] = name
      BY <1>1, <2>3, <2>4, <2>5, <2>9
    <2> QED BY <1>2, <1>4, <2>7, <2>8, <2>10 DEF Completed, t
  <1> QED BY <1>3, <1>4

\* A column that was found stays the last of its name.
LEMMA Stays ==
  ASSUME NEW s, Filled(s), NEW o, NEW t, Completed(t, s, o),
         NEW c, NEW name, LastNamed(s.header, c, name)
  PROVE  LastNamed(t.header, c, name)
  <1>1. /\ Len(s.header) \in Nat /\ DOMAIN s.header = 1..Len(s.header)
        /\ Len(t.header) \in Nat /\ DOMAIN t.header = 1..Len(t.header)
    BY DEF Completed, Filled, HeaderOK
  <1>2. CASE t.header = s.header
    BY <1>2
  <1>3. CASE \A i \in DOMAIN s.header : s.header[i] # o
    <2>1. name # o
      BY <1>3 DEF LastNamed
    <2>2. c \in DOMAIN t.header /\ t.header[c] = name
      BY <1>1 DEF Completed, LastNamed
    <2>3. ASSUME NEW i \in DOMAIN t.header, t.header[i] = name
          PROVE  i <= c
      <3>1. i \in DOMAIN s.header
        BY <2>1, <2>3 DEF Completed
      <3>2. s.header[i] = name
        BY <1>1, <2>3, <3>1 DEF Completed
      <3> QED BY <3>1, <3>2 DEF LastNamed
    <2> QED BY <2>2, <2>3 DEF LastNamed
  <1> QED BY <1>2, <1>3 DEF Completed

\* What WithSender makes of a sheet.
Signed(t, s) ==
  /\ Filled(t)
  /\ At(t, "sender")
  /\ \A name \in Name \ {"sender"} :
        /\ At(s, name)
        /\ s.col[name] <= s.col["time"] \/ ColumnOf(s.header, "sender") # 0
        => At(t, name)

\* WithSender keeps the columns up to the time in their places.
LEMMA WithSenderEffect ==
  ASSUME NEW s, Filled(s), At(s, "time")
  PROVE  Signed(WithSender(s), s)
  <1> DEFINE h == s.header
             l == Len(h)
             n == s.col["time"]
             c == ColumnOf(h, "sender")
             t == WithSender(s)
  <1>1. /\ HeaderOK(h) /\ l \in Nat /\ DOMAIN h = 1..l
        /\ "sender" \in Name /\ "sender" \in Text
    BY NameText DEF Filled, HeaderOK, Name
  <1>2. /\ c = 0 => \A i \in DOMAIN h : h[i] # "sender"
        /\ c # 0 => LastNamed(h, c, "sender")
    BY <1>1, Found
  <1>3. n \in Nat /\ n <= l /\ n + 1 \in Nat
    BY <1>1 DEF At, LastNamed
  <1>4. CASE c # 0
    <2>1. t = [s EXCEPT !.col.sender = c]
      BY <1>4 DEF WithSender
    <2>2. c \in Nat
      BY <1>1, <1>2, <1>4 DEF LastNamed
    <2>3. /\ t = [header |-> t.header, col |-> t.col]
          /\ t.header = h /\ t.col = [s.col EXCEPT !["sender"] = c]
      BY <2>1 DEF Filled
    <2>4. /\ t.col \in [Name -> Nat] /\ t.col["sender"] = c
          /\ \A name \in Name \ {"sender"} : t.col[name] = s.col[name]
      BY <1>1, <2>2, <2>3 DEF Filled
    <2> HIDE DEF t, c
    <2>5. Filled(t)
      BY <1>1, <2>3, <2>4 DEF Filled
    <2>6. At(t, "sender")
      BY <1>2, <1>4, <2>3, <2>4 DEF At
    <2>7. \A name \in Name \ {"sender"} : At(s, name) => At(t, name)
      BY <2>3, <2>4 DEF At
    <2> QED BY <2>5, <2>6, <2>7 DEF Signed, t
  <1>5. CASE c = 0
    <2>1. t = [s EXCEPT !.header = InsertAt(@, s.col.time + 1, "sender"),
                        !.col.sender = s.col.time + 1]
      BY <1>5 DEF WithSender
    <2>2. PICK g : g = InsertAt(h, n + 1, "sender")
      OBVIOUS
    <2>3. /\ t = [header |-> t.header, col |-> t.col]
          /\ t.header = g /\ t.col = [s.col EXCEPT !["sender"] = n + 1]
      BY <2>1, <2>2 DEF Filled
    <2>4. /\ t.col \in [Name -> Nat] /\ t.col["sender"] = n + 1
          /\ \A name \in Name \ {"sender"} : t.col[name] = s.col[name]
      BY <1>1, <1>3, <2>3 DEF Filled
    <2> HIDE DEF t
    <2>5. /\ HeaderOK(g) /\ Len(g) = l + 1
          /\ \A i \in 1..n : g[i] = h[i]
          /\ g[n + 1] = "sender"
          /\ \A i \in n + 1..l : g[i + 1] = h[i]
      <3>1. PICK k, m : k = l /\ m = n
        OBVIOUS
      <3>2. h \in Seq(Text)
        BY <1>1 DEF HeaderOK
      <3>3. Widened(Text, g, h, k, m, "sender")
        BY <1>1, <1>3, <2>2, <3>1, <3>2, InsertAtEffect
      <3> QED BY <3>1, <3>3 DEF Widened, HeaderOK
    <2>6. DOMAIN g = 1..l + 1
      BY <2>5 DEF HeaderOK
    <2>7. Filled(t)
      BY <2>3, <2>4, <2>5 DEF Filled
    <2>8. ASSUME NEW i \in DOMAIN g
          PROVE  \/ i <= n /\ i \in DOMAIN h /\ g[i] = h[i]
                 \/ i = n + 1 /\ g[i] = "sender"
                 \/ i > n + 1 /\ i - 1 \in DOMAIN h /\ g[i] = h[i - 1]
      <3>1. CASE i <= n
        BY <1>1, <1>3, <2>5, <2>6, <3>1
      <3>2. CASE i = n + 1
        BY <2>5, <3>2
      <3>3. CASE i > n + 1
        <4>1. i - 1 \in n + 1..l /\ (i - 1) + 1 = i
          BY <1>1, <1>3, <2>6, <3>3
        <4> QED BY <1>1, <1>3, <2>5, <3>3, <4>1
      <3> QED BY <1>3, <2>6, <3>1, <3>2, <3>3
    <2>9. At(t, "sender")
      <3>1. n + 1 \in DOMAIN g
        BY <1>1, <1>3, <2>6
      <3>2. \A i \in DOMAIN g : g[i] = "sender" => i <= n + 1
        BY <1>2, <1>3, <1>5, <2>6, <2>8
      <3> QED BY <2>3, <2>4, <2>5, <3>1, <3>2 DEF At, LastNamed
    <2>10. ASSUME NEW name \in Name \ {"sender"}, At(s, name),
                  s.col[name] <= n
           PROVE  At(t, name)
      <3>1. PICK k : k = s.col[name]
        OBVIOUS
      <3>2. /\ k \in DOMAIN h /\ h[k] = name /\ k <= n
            /\ \A i \in DOMAIN h : h[i] = name => i <= k
        BY <2>10, <3>1 DEF At, LastNamed
      <3>3. k \in DOMAIN g /\ g[k] = name
        BY <1>1, <1>3, <2>5, <2>6, <3>2
      <3>4. ASSUME NEW i \in DOMAIN g, g[i] = name PROVE i <= k
        BY <1>1, <1>3, <2>6, <2>8, <3>2, <3>4
      <3> QED BY <2>3, <2>4, <3>1, <3>3, <3>4 DEF At, LastNamed
    <2> QED BY <1>5, <2>7, <2>9, <2>10 DEF Signed, t
  <1> QED BY <1>4, <1>5

\* The columns GenerateExcel has found or added before the sender's.
LEMMA ThreeColumns ==
  ASSUME NEW s0, Filled(s0),
         NEW s1, Completed(s1, s0, "status"),
         NEW s2, Completed(s2, s1, "reply"),
         NEW s3, Completed(s3, s2, "time")
  PROVE  /\ Filled(s3)
         /\ At(s3, "status") /\ At(s3, "reply") /\ At(s3, "time")
         /\ \A name : ColumnOf(s0.header, name) # 0
              => ColumnOf(s3.header, name) = ColumnOf(s0.header, name)
         /\ (\A i \in DOMAIN s0.header : s0.header[i] # "time")
              => s3.col["time"] = Len(s3.header)
  <1>1. \A s \in {s0, s1, s2, s3} :
           Filled(s) /\ Len(s.header) \in Nat /\ DOMAIN s.header = 1..Len(s.header)
    <2>1. Filled(s1) /\ Filled(s2) /\ Filled(s3)
      BY DEF Completed
    <2>2. ASSUME NEW s, Filled(s)
          PROVE  Len(s.header) \in Nat /\ DOMAIN s.header = 1..Len(s.header)
      BY <2>2 DEF Filled, HeaderOK
    <2> QED BY <2>1, <2>2
  <1>2. ASSUME NEW name, ColumnOf(s0.header, name) # 0
        PROVE  ColumnOf(s3.header, name) = ColumnOf(s0.header, name)
    <2>1. PICK c : c = ColumnOf(s0.header, name)
      OBVIOUS
    <2>2. HeaderOK(s0.header) /\ HeaderOK(s3.header)
      BY <1>1 DEF Filled
    <2>3. LastNamed(s0.header, c, name)
      BY <1>2, <2>1, <2>2, Found
    <2>4. LastNamed(s1.header, c, name)
      BY <2>3, Stays
    <2>5. LastNamed(s2.header, c, name)
      BY <1>1, <2>4, Stays
    <2>6. LastNamed(s3.header, c, name)
      BY <1>1, <2>5, Stays
    <2> QED BY <2>1, <2>2, <2>6, Found
  <1>3. At(s3, "time")
    BY DEF Completed
  <1>4. ASSUME NEW s, NEW t, NEW name \in Name, NEW o \in Name,
               Filled(s), Completed(t, s, name), o # name, At(s, o)
        PROVE  At(t, o)
    <2>1. t.col[o] = s.col[o]
      BY <1>4 DEF Completed, Filled
    <2>2. LastNamed(t.header, s.col[o], o)
      BY <1>4, Stays DEF At
    <2> QED BY <2>1, <2>2 DEF At
  <1>5. At(s3, "status") /\ At(s3, "reply")
    <2>1. At(s1, "status") /\ At(s2, "reply")
      BY DEF Completed
    <2>2. "status" \in Name /\ "reply" \in Name /\ "time" \in Name
      BY DEF Name
    <2>3. At(s2, "status")
      BY <1>1, <1>4, <2>1, <2>2
    <2> QED BY <1>1, <1>4, <2>1, <2>2, <2>3
  <1>6. ASSUME \A i \in DOMAIN s0.header : s0.header[i] # "time"
        PROVE  s3.col["time"] = Len(s3.header)
    <2>1. \A i \in DOMAIN s1.header : s1.header[i] # "time"
      BY <1>1, <1>6 DEF Completed
    <2>2. \A i \in DOMAIN s2.header : s2.header[i] # "time"
      BY <1>1, <2>1 DEF Completed
    <2>3. s3.header # s2.header
      BY <1>3, <2>2 DEF At, LastNamed
    <2> QED BY <2>3 DEF Completed
  <1> QED BY <1>1, <1>2, <1>3, <1>5, <1>6

\* The columns of a report are those of their names, whatever the header.
LEMMA ColumnsKeptHere ==
  ASSUME sheet \in Sheet
  PROVE  ColumnsKept(Columns(sheet.header))
  <1> DEFINE h == sheet.header
             s0 == [header |-> h,
                    col |-> [status |-> 0, reply |-> 0, time |-> 0, sender |-> 0]]
             s1 == WithColumn(s0, "status")
             s2 == WithColumn(s1, "reply")
             s3 == WithColumn(s2, "time")
             s4 == WithSender(s3)
  <1>1. Columns(h) = s4
    BY DEF Columns
  <1>2. Filled(s0) /\ s0.header = h
    <2>1. h \in Seq(STRING)
      BY SheetAssumption
    <2>2. STRING \subseteq Text
      BY Zenon DEF Text
    <2>3. HeaderOK(h)
      BY Zenon, <2>1, <2>2, Wider DEF HeaderOK
    <2>4. s0.col \in [Name -> Nat]
      BY DEF Name
    <2> QED BY <2>3, <2>4 DEF Filled
  <1>3. /\ "status" \in Name /\ "reply" \in Name /\ "time" \in Name
        /\ "sender" \in Name
    BY DEF Name
  <1> HIDE DEF s0
  <1>4. Completed(s1, s0, "status")
    BY <1>2, <1>3, WithColumnEffect
  <1> HIDE DEF s1
  <1>5. Completed(s2, s1, "reply")
    <2>1. Filled(s1)
      BY <1>4 DEF Completed
    <2> QED BY <1>3, <2>1, WithColumnEffect
  <1> HIDE DEF s2
  <1>6. Completed(s3, s2, "time")
    <2>1. Filled(s2)
      BY <1>5 DEF Completed
    <2> QED BY <1>3, <2>1, WithColumnEffect
  <1> HIDE DEF s3
  <1>7. /\ Filled(s3)
        /\ At(s3, "status") /\ At(s3, "reply") /\ At(s3, "time")
        /\ \A name : ColumnOf(h, name) # 0
             => ColumnOf(s3.header, name) = ColumnOf(h, name)
        /\ (\A i \in DOMAIN h : h[i] # "time") => s3.col["time"] = Len(s3.header)
    BY <1>2, <1>4, <1>5, <1>6, ThreeColumns
  <1>8. Signed(s4, s3)
    BY <1>7, WithSenderEffect
  <1> HIDE DEF s4
  <1>9. At(s4, "sender") /\ At(s4, "time")
    <2>1. s3.col["time"] \in Nat
      BY <1>3, <1>7 DEF Filled
    <2> QED BY <1>3, <1>7, <1>8, <2>1 DEF Signed
  <1>10. HeaderOK(h) /\ HeaderOK(s3.header)
    BY <1>2, <1>7 DEF Filled
  <1>11. \A name \in {"status", "reply", "time"} :
            At(s3, name) /\ s3.col[name] = ColumnOf(s3.header, name)
    <2> TAKE name \in {"status", "reply", "time"}
    <2>1. At(s3, name)
      BY <1>7
    <2> QED BY <1>10, <2>1, Found DEF At
  <1>12. ASSUME ~Shifted(h), NEW name \in {"status", "reply"}
         PROVE  At(s4, name)
    <2>1. At(s3, name) /\ name \in Name \ {"sender"} /\ s3.col["time"] \in Nat
      BY <1>3, <1>7 DEF Filled
    <2>2. CASE ColumnOf(s3.header, "sender") # 0
      BY <1>8, <2>1, <2>2 DEF Signed
    <2>3. CASE ColumnOf(s3.header, "sender") = 0
      <3>1. ColumnOf(h, "sender") = 0
        BY <1>7, <2>3
      <3>2. CASE ColumnOf(h, "time") = 0
        <4>1. s3.col["time"] = Len(s3.header)
          BY <1>7, <1>10, <3>2, Found
        <4>2. s3.col[name] <= Len(s3.header)
          BY <1>10, <2>1 DEF At, LastNamed, HeaderOK
        <4> QED BY <1>8, <2>1, <4>1, <4>2 DEF Signed
      <3>3. CASE ColumnOf(h, "time") # 0
        <4>1. ColumnOf(h, name) \in 1..ColumnOf(h, "time")
          BY <1>12, <3>1, <3>3 DEF Shifted
        <4>2. s3.col["time"] = ColumnOf(h, "time")
          BY <1>7, <1>11, <3>3
        <4>3. s3.col[name] = ColumnOf(h, name)
          BY <1>7, <1>11, <4>1
        <4>4. s3.col[name] <= s3.col["time"]
          BY <2>1, <4>1, <4>2, <4>3
        <4> QED BY <1>8, <2>1, <4>4 DEF Signed
      <3> QED BY <3>2, <3>3
    <2> QED BY <2>2, <2>3
  <1>13. Filled(s4) /\ DOMAIN s4.col = Name
    BY <1>8 DEF Signed, Filled
  <1>14. ASSUME NEW name, At(s4, name) PROVE FoundAgain(s4, name)
    <2>1. HeaderOK(s4.header) /\ s4.col[name] # 0
      BY <1>13, <1>14 DEF Filled, HeaderOK, At, LastNamed
    <2> QED BY <1>14, <2>1, Found DEF At, FoundAgain
  <1>15. ColumnsKept(s4)
    BY <1>9, <1>12, <1>13, <1>14 DEF ColumnsKept, Name
  <1> QED BY <1>1, <1>15

-----------------------------------------------------------------------------
(* The report.                                                             *)

LEMMA ReportStep ==
  ASSUME TypeOK, PlaceInv, ReportFaithful, [Next]_vars
  PROVE  ReportFaithful'
  <1>1. CASE GenerateExcel
    <2>1. /\ campaign = "created" /\ sheet \in Sheet
          /\ sheet' = sheet /\ rows' = rows
      BY <1>1 DEF GenerateExcel, TypeOK, rows
    <2>2. RowsAligned([r \in DOMAIN rows |-> Shown(targets, r)])
      BY <2>1, RowsAlignedHere
    <2>3. ColumnsKept(Columns(sheet.header))
      BY <2>1, ColumnsKeptHere
    <2>4. /\ report'.shown = [r \in DOMAIN rows |-> Shown(targets, r)]
          /\ report'.columns = Columns(sheet.header)
      BY <1>1 DEF GenerateExcel
    <2>5. RowsAligned(report'.shown) /\ ColumnsKept(report'.columns)
      BY Zenon, <2>2, <2>3, <2>4
    <2> QED BY <2>1, <2>5
          DEF ReportFaithful, RowsAligned, ColumnsKept, FoundAgain, Shifted, HasPhone,
              ShortRows
  <1>2. CASE ~GenerateExcel
    <2>1. report' = report /\ sheet' = sheet /\ rows' = rows
      BY <1>2 DEF Next, vars, channels, SkipShortRow, ReadRow, ReadFails,
         CloseJobs, TakeJob, SendTarget, Collect, FinishUpload, GeneratePanics,
         UploadRefused, rows
    <2> QED BY <2>1
          DEF ReportFaithful, RowsAligned, ColumnsKept, FoundAgain, Shifted, HasPhone,
              ShortRows
  <1> QED BY <1>1, <1>2

\* GenerateExcel agrees with UploadCampaign: a row without a short row above
\* it shows its own target and every other target stands as many rows higher
\* as there are short rows above it; each value is written where a later report
\* will find it, unless the sender's column moves it.
THEOREM ReportFaithfulHolds == Spec => []ReportFaithful
  <1>1. Init => ReportFaithful
    BY DEF Init, ReportFaithful
  <1>2. TypeOK /\ PlaceInv /\ ReportFaithful /\ [Next]_vars => ReportFaithful'
    BY ReportStep
  <1> QED BY <1>1, <1>2, PlaceInvariant, PTL DEF Spec

-----------------------------------------------------------------------------
(* The refinement.                                                         *)

\* What the pool has collected is what the sheet determines.
LEMMA DrainedContents ==
  ASSUME TypeOK, PlaceInv, reader = "done", ResultsClosed, results = <<>>
  PROVE  targets = Contents[sheet]
  <1> DEFINE R == {r \in DOMAIN sheet.rows :
                     sheet.rows[r] # Short /\ NormalizePhone(sheet.rows[r]) # NoPhone}
  <1>1. Contents[sheet] = {TargetAt(sheet, r) : r \in R}
    BY DEF TypeOK, Contents
  <1>2. rows = sheet.rows /\ R = {r \in DOMAIN rows : HasPhone(r)}
    BY DEF rows, HasPhone
  <1> HIDE DEF R
  <1>3. \A r : TargetAt(sheet, r) = [row |-> r, index |-> IndexOf(r),
                                     phone |-> NormalizePhone(rows[r])]
    BY DEF TargetAt, IndexOf, ShortRows, rows
  <1>4. ASSUME NEW t \in targets PROVE t.row \in R /\ t = TargetAt(sheet, t.row)
    <2>1. /\ t \in Job /\ t.row \in DOMAIN rows /\ HasPhone(t.row)
          /\ t.index = IndexOf(t.row) /\ t.phone = NormalizePhone(rows[t.row])
      BY Drained
    <2>2. t = [row |-> t.row, index |-> t.index, phone |-> t.phone]
      BY <2>1 DEF Job
    <2> QED BY <1>2, <1>3, <2>1, <2>2
  <1>5. ASSUME NEW r \in R PROVE TargetAt(sheet, r) \in targets
    <2>1. r \in DOMAIN rows /\ HasPhone(r)
      BY <1>2
    <2>2. PICK t \in targets : t.row = r
      BY <2>1, Drained
    <2> QED BY <1>4, <2>2
  <1> QED BY <1>1, <1>4, <1>5

\* The pipeline is hidden from the abstract upload until it has drained.
LEMMA UploadStep ==
  ASSUME TypeOK, PlaceInv, [Next]_vars
  PROVE  [Upload!Next]_(Upload!vars)
  <1>1. ASSUME UNCHANGED <<sheet, campaign, report>>,
               campaign = "created" => targets' = targets
        PROVE  UNCHANGED Upload!vars
    BY <1>1 DEF Upload!vars
  <1>2. CASE SkipShortRow \/ ReadRow \/ ReadFails \/ CloseJobs
    BY <1>1, <1>2 DEF SkipShortRow, ReadRow, ReadFails, CloseJobs
  <1>3. CASE \E w \in Worker : TakeJob(w) \/ SendTarget(w)
    BY <1>1, <1>3 DEF TakeJob, SendTarget
  <1>4. CASE Collect
    BY <1>1, <1>4 DEF Collect, PlaceInv
  <1>5. CASE FinishUpload
    <2>1. /\ campaign = "none" /\ ResultsClosed /\ results = <<>>
          /\ UNCHANGED <<sheet, targets, report>>
          /\ campaign' \in IF ReadError THEN {"refused"} ELSE {"refused", "created"}
      BY <1>5 DEF FinishUpload
    <2>2. CASE campaign' = "refused"
      BY <2>1, <2>2 DEF Upload!Next, Upload!Refuse
    <2>3. CASE campaign' = "created"
      <3>1. reader = "done"
        BY <2>1, <2>3 DEF ReadError, ResultsClosed, TypeOK
      <3>2. targets = Contents[sheet]
        BY <2>1, <3>1, DrainedContents
      <3> QED BY <2>1, <2>3, <3>2 DEF Upload!Next, Upload!Create
    <2> QED BY <2>1, <2>2, <2>3
  <1>6. CASE GenerateExcel
    <2>1. /\ campaign = "created" /\ sheet \in Sheet
          /\ ~(sheet.header = <<>> /\ rows = <<>>)
          /\ report' = [shown |-> [r \in DOMAIN rows |-> Shown(targets, r)],
                        columns |-> Columns(sheet.header)]
          /\ UNCHANGED <<sheet, campaign, targets>>
      BY <1>6 DEF GenerateExcel, TypeOK
    <2>2. targets = Contents[sheet]
      BY <2>1, DrainedContents DEF PlaceInv
    <2>3. sheet \in DOMAIN Report
      BY <2>1 DEF Report, rows
    <2>4. report' = Report[sheet]
      BY <2>1, <2>2, <2>3 DEF Report, rows
    <2> QED BY <2>1, <2>3, <2>4 DEF Upload!Next, Upload!Generate
  <1>7. CASE GeneratePanics \/ UploadRefused \/ UNCHANGED vars
    BY <1>1, <1>7 DEF GeneratePanics, UploadRefused, vars
  <1> QED BY <1>2, <1>3, <1>4, <1>5, <1>6, <1>7 DEF Next

\* The upload is one step from the sheet to the targets that it determines,
\* or refused, and the report depends on the sheet alone.
THEOREM ImplementsUploadHolds == Spec => ImplementsUpload
  <1>1. Init => Upload!Init
    BY DEF Init, Upload!Init
  <1> QED BY <1>1, UploadStep, PlaceInvariant, PTL
          DEF Spec, ImplementsUpload, Upload!Spec

-----------------------------------------------------------------------------
(* The end of the upload.                                                  *)

Busy == {w \in Worker : holds[w] # Idle}

\* A goroutine can go on, without an error: the reader, a worker, the collector
\* or, when they are through, UploadCampaign. These are the guards of the steps.
CanGoOn ==
  \/ reader = "reading" /\ (next > Len(rows) \/ rows[next] = Short \/ Len(jobs) < Buffer)
  \/ jobs # <<>> /\ Busy # Worker
  \/ Busy # {} /\ Len(results) < Buffer
  \/ results # <<>>
  \/ ResultsClosed /\ results = <<>>

\* What is left to do: a row takes at most four steps to be collected.
ToDo ==
  4 * (Len(rows) + 1 - next) + 3 * Len(jobs) + 2 * Cardinality(Busy)
    + Len(results) + (IF reader = "reading" THEN 1 ELSE 0)

\* However small the channels and the pool are, they never block each other:
\* something can go on until the campaign was created or refused.
NeverBlocks == campaign = "none" => CanGoOn

\* Each step until then leaves less to do, so that the upload ends.
Advances == [][campaign' = "none" => ToDo \in Nat /\ ToDo' \in Nat /\ ToDo' < ToDo]_vars

\* An empty pipeline waits for nobody, a full one has its collector.
THEOREM NeverBlocksHolds == Spec => []NeverBlocks
  <1>1. TypeOK => CanGoOn
    <2> SUFFICES ASSUME TypeOK PROVE CanGoOn
      OBVIOUS
    <2>1. CASE results # <<>>
      BY <2>1 DEF CanGoOn
    <2>2. CASE results = <<>> /\ Busy # {}
      <3>1. Len(results) < Buffer
        BY <2>2, BufferAssumption
      <3> QED BY <2>2, <3>1 DEF CanGoOn
    <2>3. CASE Busy = {} /\ jobs # <<>>
      BY <2>3, WorkerAssumption DEF CanGoOn
    <2>4. CASE results = <<>> /\ Busy = {} /\ jobs = <<>>
      <3>1. Len(jobs) < Buffer
        BY <2>4, BufferAssumption
      <3>2. reader # "reading" => ResultsClosed
        BY <2>4 DEF ResultsClosed, Busy
      <3> QED BY <2>4, <3>1, <3>2 DEF CanGoOn
    <2> QED BY <2>1, <2>2, <2>3, <2>4
  <1>2. TypeOK => NeverBlocks
    BY <1>1 DEF NeverBlocks
  <1> QED BY <1>2, TypeCorrect, PTL

\* The parts of ToDo are numbers.
LEMMA ToDoType ==
  ASSUME TypeOK
  PROVE  /\ Len(rows) + 1 - next \in Nat /\ Len(jobs) \in Nat /\ Len(results) \in Nat
         /\ IsFiniteSet(Busy) /\ Cardinality(Busy) \in Nat
         /\ ToDo \in Nat
  <1>1. Len(rows) + 1 - next \in Nat /\ Len(jobs) \in Nat /\ Len(results) \in Nat
    BY RowType DEF TypeOK
  <1>2. IsFiniteSet(Busy) /\ Cardinality(Busy) \in Nat
    BY WorkerAssumption, FS_Subset, FS_CardinalityType DEF Busy
  <1> QED BY <1>1, <1>2 DEF ToDo

\* A worker that takes up a target is busy, one that has sent it is not.
LEMMA BusyStep ==
  ASSUME TypeOK, NEW w \in Worker, NEW x, holds' = [holds EXCEPT ![w] = x]
  PROVE  /\ holds[w] = Idle /\ x = Idle => Busy' = Busy
         /\ holds[w] = Idle /\ x # Idle =>
              Cardinality(Busy') = Cardinality(Busy) + 1
         /\ holds[w] # Idle /\ x = Idle =>
              Cardinality(Busy') = Cardinality(Busy) - 1
  <1>1. \A v \in Worker : holds'[v] = IF v = w THEN x ELSE holds[v]
    BY DEF TypeOK
  <1>2. IsFiniteSet(Busy)
    BY ToDoType
  <1>3. ASSUME holds[w] = Idle, x = Idle PROVE Busy' = Busy
    BY <1>1, <1>3 DEF Busy
  <1>4. ASSUME holds[w] = Idle, x # Idle
        PROVE  Cardinality(Busy') = Cardinality(Busy) + 1
    <2>1. Busy' = Busy \cup {w} /\ w \notin Busy
      BY <1>1, <1>4 DEF Busy
    <2> QED BY <1>2, <2>1, FS_AddElement
  <1>5. ASSUME holds[w] # Idle, x = Idle
        PROVE  Cardinality(Busy') = Cardinality(Busy) - 1
    <2>1. Busy' = Busy \ {w} /\ w \in Busy
      BY <1>1, <1>5 DEF Busy
    <2> QED BY <1>2, <2>1, FS_RemoveElement
  <1> QED BY <1>3, <1>4, <1>5

\* A step before the end leaves less to do.
LEMMA ToDoStep ==
  ASSUME TypeOK, TypeOK', Next, campaign' = "none"
  PROVE  ToDo' < ToDo
  <1> DEFINE unread == Len(rows) + 1 - next
             busy == Cardinality(Busy)
             open == IF reader = "reading" THEN 1 ELSE 0
  <1>1. /\ unread \in Nat /\ Len(jobs) \in Nat /\ Len(results) \in Nat
        /\ busy \in Nat /\ open \in Nat
        /\ ToDo = 4 * unread + 3 * Len(jobs) + 2 * busy + Len(results) + open
    BY ToDoType DEF ToDo
  <1>2. ToDo' = 4 * unread' + 3 * Len(jobs') + 2 * busy' + Len(results') + open'
    BY DEF ToDo
  <1>3. jobs \in Seq(Job) /\ results \in Seq(Job) /\ next \in Nat /\ Len(rows) \in Nat
    BY RowType DEF TypeOK
  <1>4. CASE SkipShortRow
    <2>1. /\ jobs' = jobs /\ results' = results /\ rows' = rows
          /\ next' = next + 1 /\ holds' = holds /\ reader' = reader
      BY <1>4 DEF SkipShortRow, channels, rows
    <2>2. unread' = unread - 1
      BY <1>3, <2>1
    <2>3. busy' = busy /\ open' = open
      BY <2>1 DEF Busy
    <2> HIDE DEF unread, busy, open
    <2> QED BY <1>1, <1>2, <2>1, <2>2, <2>3
  <1>5. CASE ReadRow
    <2>1. /\ jobs' = Append(jobs, NextJob) /\ results' = results
          /\ rows' = rows /\ next' = next + 1 /\ holds' = holds
          /\ reader' = reader
      BY <1>5 DEF ReadRow, NextJob, rows
    <2>2. Len(jobs') = Len(jobs) + 1
      BY <1>3, <2>1
    <2>3. unread' = unread - 1
      BY <1>3, <2>1
    <2>4. busy' = busy /\ open' = open
      BY <2>1 DEF Busy
    <2> HIDE DEF unread, busy, open
    <2> QED BY <1>1, <1>2, <2>1, <2>2, <2>3, <2>4
  <1>6. CASE ReadFails \/ CloseJobs
    <2>1. /\ unread' = unread /\ jobs' = jobs /\ results' = results
          /\ Busy' = Busy /\ open = 1 /\ open' = 0
      BY <1>6 DEF ReadFails, CloseJobs, channels, rows, Busy
    <2> QED BY <1>1, <1>2, <2>1
  <1>7. ASSUME NEW w \in Worker, TakeJob(w) PROVE ToDo' < ToDo
    <2>1. PICK x : x = IF NormalizePhone(Head(jobs).phone) = NoPhone THEN Idle
                       ELSE Target(Head(jobs))
      OBVIOUS
    <2>2. /\ holds[w] = Idle /\ jobs # <<>> /\ jobs' = Tail(jobs)
          /\ holds' = [holds EXCEPT ![w] = x]
          /\ UNCHANGED <<sheet, reader, next, results>>
      BY <1>7, <2>1, TakeJobEffect
    <2>3. Len(jobs') = Len(jobs) - 1
      BY <1>3, <2>2, Received
    <2>4. busy' = busy \/ busy' = busy + 1
      BY <2>2, BusyStep
    <2>5. unread' = unread /\ open' = open
      BY <2>2 DEF rows
    <2> HIDE DEF unread, busy, open
    <2> QED BY <1>1, <1>2, <2>2, <2>3, <2>4, <2>5
  <1>8. ASSUME NEW w \in Worker, SendTarget(w) PROVE ToDo' < ToDo
    <2>1. /\ holds[w] # Idle /\ holds[w] \in Job
          /\ holds' = [holds EXCEPT ![w] = Idle]
          /\ results' = Append(results, holds[w])
          /\ UNCHANGED <<sheet, reader, next, jobs>>
      BY <1>8 DEF SendTarget, TypeOK
    <2>2. Len(results') = Len(results) + 1
      BY <1>3, <2>1
    <2>3. busy' = busy - 1
      BY <2>1, BusyStep
    <2>4. unread' = unread /\ open' = open
      BY <2>1 DEF rows
    <2> HIDE DEF unread, busy, open
    <2> QED BY <1>1, <1>2, <2>1, <2>2, <2>3, <2>4
  <1>9. CASE Collect
    <2>1. /\ unread' = unread /\ jobs' = jobs /\ open' = open /\ Busy' = Busy
          /\ results # <<>> /\ results' = Tail(results)
      BY <1>9 DEF Collect, rows, Busy
    <2>2. Len(results') = Len(results) - 1
      BY <1>3, <2>1, Received
    <2>3. busy' = busy
      BY <2>1
    <2> HIDE DEF unread, busy, open
    <2> QED BY <1>1, <1>2, <2>1, <2>2, <2>3
  <1>10. ~(FinishUpload \/ GenerateExcel \/ GeneratePanics \/ UploadRefused)
    BY DEF FinishUpload, GenerateExcel, GeneratePanics, UploadRefused, vars
  <1> QED BY <1>4, <1>5, <1>6, <1>7, <1>8, <1>9, <1>10 DEF Next

\* The upload ends after at most ToDo steps.
THEOREM AdvancesHolds == Spec => Advances
  <1>1. TypeOK => TypeOK /\ ToDo \in Nat
    BY ToDoType
  <1>2. (TypeOK /\ ToDo \in Nat) /\ (TypeOK /\ ToDo \in Nat)' /\ [Next]_vars =>
          [campaign' = "none" => ToDo \in Nat /\ ToDo' \in Nat /\ ToDo' < ToDo]_vars
    BY ToDoStep
  <1> QED BY <1>1, <1>2, TypeCorrect, PTL DEF Spec, Advances
=============================================================================
