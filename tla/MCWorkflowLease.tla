-------------------------- MODULE MCWorkflowLease --------------------------
(* Small instances of WorkflowLease for TLC: w1 and w2 are worker threads, *)
(* k1 is the sweep, p1 and p2 are the processes.                           *)
EXTENDS WorkflowLease

CONSTANTS w1, w2, k1, p1, p2

\* Two processes; the first has a worker, the second the rest.
TwoProcesses == [a \in Actors |-> IF a = w1 THEN p1 ELSE p2]
OneProcess == [a \in Actors |-> p1]
OwnNames == [a \in Actors |-> a]
\* An executor that was rebuilt numbers its threads from 0 again.
SameThreadNames == [a \in Actors |-> IF a = w2 THEN w1 ELSE a]
=============================================================================
