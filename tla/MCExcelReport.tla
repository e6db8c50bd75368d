---------------------------- MODULE MCExcelReport ----------------------------
(* Small instance of ExcelReport for TLC.                                  *)
EXTENDS ExcelReport, TLC

\* Ten digits, eleven with the trunk prefix, one digit too many, a landline.
MCPhone ==
  {[lead |-> "9", digits |-> 10], [lead |-> "trunk9", digits |-> 11],
   [lead |-> "trunk9", digits |-> 12], [lead |-> "other", digits |-> 10]}

MCRows == UNION {[1..n -> MCPhone \cup {Short}] : n \in 0..4}

Plain == <<"name", "phone">>

MCHeaders(n) == UNION {[1..m -> {"note", "status", "reply", "time", "sender"}] : m \in 0..n}

\* Sheets that may have been reports before, the names in any order: five of
\* them when no name stands twice, four when one may.
MCHeader == {s \in MCHeaders(5) : IsInjective(s)} \cup MCHeaders(4)

\* Every sequence of rows under a plain header, every header over one row, and
\* an empty sheet.
MCSheet ==
  [header : {Plain}, rows : MCRows]
    \cup [header : MCHeader, rows : {<<CHOOSE p \in MCPhone : p.digits = 11>>}]
    \cup {[header |-> <<>>, rows |-> <<>>]}

Symmetry == Permutations(Worker)
=============================================================================
