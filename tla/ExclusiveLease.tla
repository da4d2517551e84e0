--------------------------- MODULE ExclusiveLease ---------------------------
(***************************************************************************)
(* What the two leases of the scheduler processes promise, scheduler_      *)
(* leaders for the periodic jobs (SchedulerLease) and locked_by for the    *)
(* workflows (WorkflowLease): a lease has one owner at a time, it passes   *)
(* to another only after it was given back or has run out, and nobody but  *)
(* its owner does the guarded work within the time he was granted.         *)
(*                                                                         *)
(* How the rows are written, when a heartbeat renews them, who crashes and *)
(* what happens to a worker that outlives its lease is left to the modules *)
(* that implement this one.                                                *)
(***************************************************************************)
CONSTANTS Clients, None

VARIABLES
  owner,   \* whom the lease belongs to now, or None
  inside   \* who does the guarded work within the time he was granted

Init == owner = None /\ inside = {}

\* A lease that is nobody's is granted; the work may begin at once.
Grant(c) ==
  /\ owner = None /\ inside = {}
  /\ owner' = c /\ inside' \subseteq {c}

\* The owner begins the work, or ends it and keeps the lease.
Work(c) ==
  /\ owner = c
  /\ inside' \subseteq {c}
  /\ UNCHANGED owner

\* The lease is given back, or runs out: with it goes the right to work.
End == owner' = None /\ inside' = {}

Next == End \/ \E c \in Clients : Grant(c) \/ Work(c)

Spec == Init /\ [][Next]_<<owner, inside>>
=============================================================================
