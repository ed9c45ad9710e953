-------------------------- MODULE MCEventConditions --------------------------
(* The instances of EventConditions that TLC checks.                         *)
EXTENDS EventConditions, TLC, Sequences

CONSTANTS p1, p2, p3, g1, g2

\* Window by window, the affected pages.
Windowed(sets) == [n \in 0 .. Len(sets) - 1 |-> sets[n + 1]]
Js(sets) == <<"JS_ERROR_STARTED", Windowed(sets)>>
Gpt(sets) == <<"GPT_EXPECTED_SLOT_MISSING", Windowed(sets)>>

\* The page with the error does or does not have it.
Off == {}
On == {p3}

\* An error that comes and stays, comes and goes, or goes and comes back after one
\* or two windows; a slot that two of three pages lose and find again, that two
\* lose when the third has lost it already, and that two find and lose again while
\* the condition is active.
MCHistories == {
    Js(<<Off, On, On, On>>),
    Js(<<Off, On, On, Off>>),
    Js(<<On, Off, Off, On, On>>),
    Js(<<Off, On, On, Off, On, On>>),
    Gpt(<<{}, {p1, p2}, {}>>),
    Gpt(<<{p3}, {p1, p2, p3}>>),
    Gpt(<<{p1, p2}, {p1, p2, p3}>>),
    Gpt(<<{}, {p1, p2}, {p3}, {p1, p2, p3}, {}>>)}

\* The runs of p3 in the second and the third window may be derived twice, the
\* others once.
MCMaxAttempts == [r \in Run |-> IF r[1] \in 2 .. 3 /\ r[2] = p3 THEN 2 ELSE 1]

\* One job is given up and four wait or run at a time; in the longest history of
\* the slot none and two.
Jobs(S) == {r \in Run : phase[r] \in S}
Long == rule = "GPT_EXPECTED_SLOT_MISSING" /\ Last > 2
Bounded ==
    /\ Cardinality(Jobs({"dead"})) <= IF Long THEN 0 ELSE 1
    /\ Cardinality(Jobs({"waiting", "running"})) <= IF Long THEN 2 ELSE 4

Alike == Permutations(Worker) \cup Permutations({p1, p2})
=============================================================================
