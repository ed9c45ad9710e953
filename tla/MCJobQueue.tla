------------------------------ MODULE MCJobQueue ------------------------------
(* The instance of JobQueue that TLC checks.                                 *)
EXTENDS JobQueue

CONSTANTS b1, b2, g1, check, ingest

\* Two browser workers compete for a checkpoint row of three attempts; a row of
\* another type belongs to the general worker.  Both rows may ask for the one
\* key: the unique index does not look at the job type.
MCJob == {check, ingest}
MCWorker == {b1, b2, g1}
MCBrowserJob == {check}
MCBrowserWorker == {b1, b2}
MCMaxAttempts == [j \in MCJob |-> IF j = check THEN 3 ELSE 2]
==============================================================================
