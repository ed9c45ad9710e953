---------------------------- MODULE MCCheckpoint ----------------------------
(* The instances of Checkpoint that TLC checks.                              *)
EXTENDS Checkpoint, TLC

CONSTANTS s1, s2, d1, i1, b1, b2

\* The runs of a configuration are named in it; scheduled runs share the one
\* six-hour window, a diagnostic run has a window of its own.
Routine == {s1, s2}
MCScheduled == Run \cap Routine
MCIncident == Run \cap {i1}
MCWindowOf == [r \in Run |-> IF r \in Routine THEN 1 ELSE IF r = d1 THEN 2 ELSE 3]

\* Workers are alike, and so are the runs of one window.
Workers == Permutations(Worker)
Alike == Permutations(Worker) \cup Permutations(MCScheduled)

\* A token stands for its row and the row's attempt number, and which bytes lie
\* in the store, who has paid and which derivations are queued decides no step
\* (RunCap is out of reach): a state without them has the same future.
ControlView ==
    <<status, expires, due, attempt, run, att, window, rows,
      [w \in Worker |-> IF lease[w] = Null THEN Null ELSE <<Mine(w), Number(w)>>],
      monitoring, watermark, current, pass, todo, calls, pc, found>>

\* Within the window the watermark tells whether monitoring is on, which leaves
\* out the passes that find the window barred.
WatermarkTells == current > 0 => (watermark = current <=> monitoring = "OFF")

\* One of two runs is tried again.
FewAttempts == \A r, q \in Run : r # q => attempt[r] + attempt[q] <= 3

\* Windows share nothing but the workers: one is looked at in each behaviour.
OneWorkload ==
    LET begun == {r \in Run : run[r] # "ABSENT" \/ r \in calls \/ status[r] # "ABSENT"}
    IN /\ Cardinality({WindowOf[r] : r \in begun}) <= 1
       /\ begun \subseteq Routine \/ current = 0
=============================================================================
