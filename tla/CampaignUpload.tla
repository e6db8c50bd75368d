--------------------------- MODULE CampaignUpload ---------------------------
(***************************************************************************)
(* What uploading a sheet promises, whatever the goroutines of the pool do  *)
(* side by side and wherever reading the file fails: the upload is refused  *)
(* or makes one campaign, whose targets depend on the sheet and on nothing  *)
(* else, in one step; and every report of that campaign is the same.       *)
(*                                                                         *)
(* ExcelReport refines this module.                                        *)
(***************************************************************************)
CONSTANTS
  Sheet,
  Contents,   \* the targets of the campaign of a sheet, a function on Sheet
  Report,     \* its report, a function on the sheets that can have one
  NoReport

VARIABLES sheet, campaign, contents, report

vars == <<sheet, campaign, contents, report>>

Init ==
  /\ sheet \in Sheet
  /\ campaign = "none"
  /\ contents = {}
  /\ report = NoReport

\* The file cannot be read or the transaction fails: nothing is stored.
Refuse ==
  /\ campaign = "none"
  /\ campaign' = "refused"
  /\ UNCHANGED <<sheet, contents, report>>

Create ==
  /\ campaign = "none"
  /\ campaign' = "created"
  /\ contents' = Contents[sheet]
  /\ UNCHANGED <<sheet, report>>

Generate ==
  /\ campaign = "created"
  /\ sheet \in DOMAIN Report
  /\ report' = Report[sheet]
  /\ UNCHANGED <<sheet, campaign, contents>>

Next == Refuse \/ Create \/ Generate

Spec == Init /\ [][Next]_vars
=============================================================================
