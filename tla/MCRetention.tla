----------------------------- MODULE MCRetention -----------------------------
(* Instances of Retention for TLC.  Batches of one make a drain of two        *)
(* artifacts take several, and make two enforcers select the same.            *)
EXTENDS Retention

CONSTANTS e1, e2

MCArtifact == 1 .. 2
==============================================================================
