-------------------------- MODULE MCReplyHandling --------------------------
(* Small instances of ReplyHandling for TLC.                               *)
EXTENDS ReplyHandling

CONSTANTS r1, r2, t1, t2

\* Two replies of one client.
OneTarget == [r \in Reply |-> t1]

\* A reply of each of two clients.
TwoTargets == [r \in Reply |-> IF r = r1 THEN t1 ELSE t2]
=============================================================================
