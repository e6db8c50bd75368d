----------------------------- MODULE ExcelReport -----------------------------
(***************************************************************************)
(* From the client's sheet to the report and back.  UploadCampaign reads   *)
(* the rows in one goroutine, turns them into targets in a pool of others  *)
(* and collects the targets through a channel; a target remembers the      *)
(* index of its row.  GenerateExcel opens the original sheet again, finds  *)
(* or adds the columns it fills and looks every row up by its index.       *)
(*                                                                         *)
(* The sheet is nowhere stored but in the file: the index and the columns  *)
(* are recomputed each time, by two pieces of code that must agree.        *)
(*                                                                         *)
(* A cell with a phone is the number of its digits and what they start     *)
(* with; what is written into a row is the position of the row whose       *)
(* target is shown; the texts, styles and the file itself are left out.    *)
(***************************************************************************)
EXTENDS Naturals, SequencesExt

CONSTANTS
  Sheet,      \* sheets the clients upload: a header and rows
  Worker,     \* goroutines of the pool, runtime.NumCPU() of them
  Short,      \* a row of fewer than two columns, with no phone cell
  Buffer,     \* capacity of the channels jobs and results
  Idle, NoReport

ASSUME BufferAssumption == Buffer \in Nat \ {0}

\* runtime.NumCPU() is at least one.
ASSUME WorkerAssumption == Worker # {} /\ IsFiniteSet(Worker)

VARIABLES
  sheet,
  (* the goroutines of UploadCampaign *)
  reader,     \* "reading", "failed" or "done"
  next,       \* the row the reader is at
  rowIndex,   \* the index it gives to the next row
  jobs, results,
  holds,      \* the target each worker is about to send
  targets,    \* what has been collected
  (* the campaign *)
  campaign,   \* "none", "refused" or "created"
  report

channels == <<jobs, results>>
vars == <<sheet, reader, next, rowIndex, channels, holds, targets, campaign,
          report>>

-----------------------------------------------------------------------------
(* Phones                                                                  *)

Phone == [lead : {"9", "trunk9", "other"}, digits : Nat]

NoPhone == [lead |-> "other", digits |-> 0]

ASSUME SheetAssumption ==
  /\ \A s \in Sheet : s.header \in Seq(STRING) /\ s.rows \in Seq(Phone \cup {Short})
  /\ Short \notin Phone

\* A leading 7 or 8 is dropped, from more than eleven digits as well.
NormalizePhone(p) ==
  CASE p.digits > 10 /\ p.lead = "trunk9" -> [lead |-> "9", digits |-> p.digits - 1]
    [] p.digits = 10 /\ p.lead = "9"      -> p
    [] OTHER                              -> NoPhone

-----------------------------------------------------------------------------
(* UploadCampaign                                                          *)

rows == sheet.rows

Job == [row : Nat, index : Nat, phone : Phone]

ASSUME IdleAssumption == Idle \notin Job

TypeOK ==
  /\ sheet \in Sheet
  /\ reader \in {"reading", "failed", "done"}
  /\ next \in 1..Len(rows) + 1
  /\ rowIndex \in 1..next
  /\ jobs \in Seq(Job) /\ Len(jobs) <= Buffer
  /\ results \in Seq(Job) /\ Len(results) <= Buffer
  /\ holds \in [Worker -> Job \cup {Idle}]
  /\ targets \subseteq Job
  /\ campaign \in {"none", "refused", "created"}
  /\ report # NoReport => campaign = "created"

\* Mutant: the header is not counted.
FirstIndexZero == 0

FirstIndex == 1

Init ==
  /\ sheet \in Sheet
  /\ reader = "reading"
  /\ next = 1 /\ rowIndex = FirstIndex
  /\ jobs = <<>> /\ results = <<>>
  /\ holds = [w \in Worker |-> Idle]
  /\ targets = {}
  /\ campaign = "none"
  /\ report = NoReport

\* A short row is left out and not counted.
SkipShortRow ==
  /\ reader = "reading" /\ next <= Len(rows)
  /\ rows[next] = Short
  /\ next' = next + 1
  /\ UNCHANGED <<sheet, reader, rowIndex, channels, holds, targets, campaign,
                 report>>

ReadRow ==
  /\ reader = "reading" /\ next <= Len(rows)
  /\ rows[next] # Short
  /\ Len(jobs) < Buffer
  /\ jobs' = Append(jobs, [row |-> next, index |-> rowIndex, phone |-> rows[next]])
  /\ next' = next + 1
  /\ rowIndex' = rowIndex + 1
  /\ UNCHANGED <<sheet, reader, results, holds, targets, campaign, report>>

\* The error is put in errChan before jobs is closed.
ReadFails ==
  /\ reader = "reading" /\ next <= Len(rows)
  /\ reader' = "failed"
  /\ UNCHANGED <<sheet, next, rowIndex, channels, holds, targets, campaign,
                 report>>

CloseJobs ==
  /\ reader = "reading" /\ next > Len(rows)
  /\ reader' = "done"
  /\ UNCHANGED <<sheet, next, rowIndex, channels, holds, targets, campaign,
                 report>>

\* A row without a usable phone makes no target.
TakeJob(w) ==
  /\ holds[w] = Idle /\ jobs # <<>>
  /\ LET job   == Head(jobs)
         phone == NormalizePhone(job.phone)
     IN  holds' = [holds EXCEPT ![w] = IF phone = NoPhone THEN Idle
                                       ELSE [job EXCEPT !.phone = phone]]
  /\ jobs' = Tail(jobs)
  /\ UNCHANGED <<sheet, reader, next, rowIndex, results, targets, campaign,
                 report>>

SendTarget(w) ==
  /\ holds[w] # Idle
  /\ Len(results) < Buffer
  /\ results' = Append(results, holds[w])
  /\ holds' = [holds EXCEPT ![w] = Idle]
  /\ UNCHANGED <<sheet, reader, next, rowIndex, jobs, targets, campaign, report>>

Collect ==
  /\ results # <<>>
  /\ targets' = targets \cup {Head(results)}
  /\ results' = Tail(results)
  /\ UNCHANGED <<sheet, reader, next, rowIndex, jobs, holds, campaign, report>>

\* Mutant: results is closed with jobs.
ResultsClosedEarly == reader # "reading" /\ jobs = <<>>

\* jobs is closed and drained and every worker has returned.
ResultsClosed == reader # "reading" /\ jobs = <<>> /\ \A w \in Worker : holds[w] = Idle

\* Mutant: errChan is not looked at.
ReadErrorIgnored == FALSE

ReadError == reader = "failed"

\* The campaign and its targets are one transaction, which may fail.
FinishUpload ==
  /\ campaign = "none"
  /\ ResultsClosed /\ results = <<>>
  /\ campaign' \in IF ReadError THEN {"refused"} ELSE {"refused", "created"}
  /\ UNCHANGED <<sheet, reader, next, rowIndex, channels, holds, targets, report>>

-----------------------------------------------------------------------------
(* GenerateExcel                                                           *)

\* The last column of the header with this name, 0 if there is none.
ColumnOf(header, name) ==
  LET found == {c \in DOMAIN header : header[c] = name}
  IN  IF found = {} THEN 0 ELSE CHOOSE c \in found : \A d \in found : d <= c

\* A column that is missing is added at the end.
WithColumn(s, name) ==
  LET c == ColumnOf(s.header, name) IN
  IF c # 0 THEN [s EXCEPT !.col[name] = c]
  ELSE [s EXCEPT !.header = Append(@, name), !.col[name] = Len(s.header) + 1]

\* The sender's column is inserted after the time; the columns found so far
\* keep their numbers.
WithSender(s) ==
  LET c == ColumnOf(s.header, "sender") IN
  IF c # 0 THEN [s EXCEPT !.col.sender = c]
  ELSE [s EXCEPT !.header = InsertAt(@, s.col.time + 1, "sender"),
                 !.col.sender = s.col.time + 1]

Columns(header) ==
  LET none == [header |-> header,
               col |-> [status |-> 0, reply |-> 0, time |-> 0, sender |-> 0]]
  IN  WithSender(WithColumn(WithColumn(WithColumn(none, "status"), "reply"), "time"))

\* Mutant: rows are counted from one, with the header.
TargetIndexOfSheet(r) == r + 1

\* The index under which row r, the header not counted, is looked up.
TargetIndex(r) == r

\* The row whose target, of these, is written into row r, 0 if it is "not
\* processed".
Shown(ts, r) ==
  LET found == {t \in ts : t.index = TargetIndex(r)}
  IN  IF found = {} THEN 0 ELSE (CHOOSE t \in found : TRUE).row

GenerateExcel ==
  /\ campaign = "created"
  /\ ~(sheet.header = <<>> /\ rows = <<>>)
  /\ report' = [shown |-> [r \in DOMAIN rows |-> Shown(targets, r)],
                columns |-> Columns(sheet.header)]
  /\ UNCHANGED <<sheet, reader, next, rowIndex, channels, holds, targets, campaign>>

\* A sheet without rows is uploaded, but rows[0] of its report is out of
\* range; the HTTP server recovers the panic and goes on.
GeneratePanics ==
  /\ campaign = "created"
  /\ sheet.header = <<>> /\ rows = <<>>
  /\ UNCHANGED vars

UploadRefused == campaign = "refused" /\ UNCHANGED vars

-----------------------------------------------------------------------------
Next ==
  \/ SkipShortRow \/ ReadRow \/ ReadFails \/ CloseJobs
  \/ \E w \in Worker : TakeJob(w) \/ SendTarget(w)
  \/ Collect
  \/ FinishUpload
  \/ GenerateExcel \/ GeneratePanics
  \/ UploadRefused

Spec == Init /\ [][Next]_vars

-----------------------------------------------------------------------------
(* Properties.  The upload does not block: Next is checked for deadlock.   *)

HasPhone(r) == rows[r] # Short /\ NormalizePhone(rows[r]) # NoPhone

\* Whatever the order in which the pool works, and although the error of the
\* reader is looked at only at the end: a campaign is made of one target for
\* each row with a phone, or not at all, and no two targets have one index.
\* The phone of a target has ten digits unless the cell had more than eleven.
UploadComplete ==
  campaign = "created" =>
    /\ {t.row : t \in targets} = {r \in DOMAIN rows : HasPhone(r)}
    /\ \A t, u \in targets : t.row = u.row \/ t.index = u.index => t = u
    /\ \A t \in targets : /\ t.phone.lead = "9" /\ t.phone.digits >= 10
                          /\ t.phone.digits > 10 => rows[t.row].digits > 11

ShortRows(r) == {s \in 1..r : rows[s] = Short}

\* The report shows a row its own target unless there is a short row above
\* it (or it is one); then the targets stand as many rows higher as there are
\* short rows above them.
RowsAligned(shown) ==
  \A r \in DOMAIN shown :
    /\ ShortRows(r) = {} => shown[r] = IF HasPhone(r) THEN r ELSE 0
    /\ shown[r] # 0 =>
         shown[r] = r + Cardinality(ShortRows(shown[r]))

\* Inserting the sender's column moves the columns to its right, of which the
\* status or the reply may be one.
Shifted(header) ==
  /\ ColumnOf(header, "sender") = 0
  /\ ColumnOf(header, "time") # 0
  /\ \E name \in {"status", "reply"} :
       ColumnOf(header, name) \notin 1..ColumnOf(header, "time")

\* The column a value is written to is the one a later report will find.
FoundAgain(columns, name) ==
  columns.col[name] # 0 /\ columns.col[name] = ColumnOf(columns.header, name)

\* Values are written under their own header, of several with one name under
\* the last, and a report of the report finds the same columns: unless the
\* sheet has a time column with the status or the reply to its right, or
\* without them, and has no sender's column. The time and the sender are right
\* even then.
ColumnsKept(columns) ==
  \A name \in DOMAIN columns.col :
    name \in {"time", "sender"} \/ ~Shifted(sheet.header)
      => FoundAgain(columns, name)

\* The report agrees with the upload on rows and columns.
ReportFaithful ==
  report # NoReport => RowsAligned(report.shown) /\ ColumnsKept(report.columns)

-----------------------------------------------------------------------------
(* What the upload and the report come to, as functions of the sheet.      *)

\* The target of a row, and its index: the rows that are not short, down to it.
TargetAt(s, r) ==
  [row |-> r, index |-> r - Cardinality({q \in 1..r : s.rows[q] = Short}),
   phone |-> NormalizePhone(s.rows[r])]

Contents ==
  [s \in Sheet |-> {TargetAt(s, r) : r \in
     {r \in DOMAIN s.rows : s.rows[r] # Short /\ NormalizePhone(s.rows[r]) # NoPhone}}]

Report ==
  [s \in {s \in Sheet : s.header # <<>> \/ s.rows # <<>>} |->
     [shown |-> [r \in DOMAIN s.rows |-> Shown(Contents[s], r)],
      columns |-> Columns(s.header)]]

\* The targets are written with the campaign.
Upload ==
  INSTANCE CampaignUpload
    WITH contents <- IF campaign = "created" THEN targets ELSE {}

\* However the pool interleaves and wherever the reader fails, the upload is
\* one step from the sheet to the targets that the sheet determines, or
\* refused, and the report depends on the sheet alone.
ImplementsUpload == Upload!Spec
=============================================================================
