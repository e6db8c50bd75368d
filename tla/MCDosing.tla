------------------------------ MODULE MCDosing ------------------------------
(* Small instances of Dosing for TLC.                                      *)
EXTENDS Dosing, TLC

CONSTANTS a1, a2

\* Limits small enough to be met; the account with three messages a day can
\* be picked again after its cooldown.
MCDailyLimit == [a \in Account |-> IF a = a1 THEN 3 ELSE 1]

\* A success and a failure that sends the account into cooldown.
MCWorkerOutcome ==
  {[status |-> "sent", code |-> ""],
   [status |-> "failed", code |-> "SESSION_EXPIRED"]}

\* Targets are interchangeable.
Symmetry == Permutations(Target)
=============================================================================
