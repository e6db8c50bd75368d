---------------------------- MODULE MCChatRouting ----------------------------
(* Small instance of ChatRouting for TLC.                                  *)
EXTENDS ChatRouting, TLC

CONSTANTS p1

\* Two campaigns write to the same client.
MCPhoneOf == [t \in Target |-> p1]

\* Nothing tells the accounts, or the targets of the one client, apart.
Symmetry == Permutations(Account) \cup Permutations(Target)
=============================================================================
