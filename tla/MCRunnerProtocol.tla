-------------------------- MODULE MCRunnerProtocol --------------------------
EXTENDS RunnerProtocol

CONSTANTS c1, c2, r1, r2

\* A write and a read with one runner, or the write with two runners.
OnePair == /\ kind[c1] = "write" /\ kind[c2] = "read"
           /\ waiter[c2] = "idle" \/ enrolment[r2] = "unknown"
=============================================================================
