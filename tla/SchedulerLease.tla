--------------------------- MODULE SchedulerLease ---------------------------
(***************************************************************************)
(* The scheduler_leaders lease of app/services/leader_election.py, used    *)
(* through the cycle "acquire, run the job, record, release" of its        *)
(* callers (app/services/distributed_scheduler.py and the periodic         *)
(* schedulers).  One job_name, so one row of the table.                    *)
(*                                                                         *)
(* A client is one LeaderElectionClient object: the thread that runs the   *)
(* job and the daemon heartbeat thread it starts.  Every database call is  *)
(* one step, may fail, and is interleaved with those of the other clients. *)
(*                                                                         *)
(* Time is the remaining life of the row: expires_at is "now, with the     *)
(* seconds cut off, plus lock_timeout", so a fresh lease lives for some    *)
(* number of ticks in LockTimeout - Minute + 1 .. LockTimeout, and it has  *)
(* expired when expires_at < now, that is when nothing (Expired) is left.  *)
(* The clocks of the hosts are taken to agree.                             *)
(***************************************************************************)
EXTENDS Integers

CONSTANTS
  Clients,           \* LeaderElectionClient objects competing for the job
  EarlyReturners,    \* those whose caller may leave the job without releasing
  None,              \* "no row" / "no leader"
  LockTimeout,       \* lock_timeout, in ticks
  Minute,            \* ticks in a minute: what replace(second=0) may cut off
  HeartbeatTimeout   \* heartbeat_timeout, in ticks

ASSUME ConstantsAssumption ==
  /\ EarlyReturners \subseteq Clients
  /\ None \notin Clients
  /\ Minute \in Nat \ {0}
  /\ LockTimeout \in Nat
  /\ Minute <= LockTimeout
  /\ HeartbeatTimeout \in Nat

VARIABLES
  row,        \* the scheduler_leaders row of the job, leader = None when absent
  isLeader,   \* LeaderElectionClient._is_leader
  pc,         \* where the thread that runs the job is
  heartbeat,  \* where the heartbeat thread is
  stopping,   \* LeaderElectionClient._stop_heartbeat is set
  term        \* what is left of the lease the client saw itself granted

vars == <<row, isLeader, pc, heartbeat, stopping, term>>

Expired == -1
TermValues == Expired .. LockTimeout
NoRow == [leader |-> None, left |-> Expired, beat |-> 0]

\* Fresh leases: the cut-off seconds shorten a lease by less than a minute.
FreshTerms == (LockTimeout - Minute + 1) .. LockTimeout

Init ==
  /\ row = NoRow
  /\ isLeader = [c \in Clients |-> FALSE]
  /\ pc = [c \in Clients |-> "idle"]
  /\ heartbeat = [c \in Clients |-> "off"]
  /\ stopping = [c \in Clients |-> FALSE]
  /\ term = [c \in Clients |-> Expired]

Goto(c, label) == pc' = [pc EXCEPT ![c] = label]
Beat(c, label) == heartbeat' = [heartbeat EXCEPT ![c] = label]

-----------------------------------------------------------------------------
(* try_acquire_leadership *)

\* Mutations: a row that may be taken over one tick early, or never.
TakeOverEarly(c) ==
  /\ pc[c] = "idle"
  /\ heartbeat[c] = "off"
  /\ IF row.leader = None \/ row.left <= 0
       THEN \E t \in FreshTerms : row' = [leader |-> c, left |-> t, beat |-> 0]
       ELSE UNCHANGED row
  /\ Goto(c, "verify")
  /\ UNCHANGED <<isLeader, heartbeat, stopping, term>>

InsertOnly(c) ==
  /\ pc[c] = "idle"
  /\ heartbeat[c] = "off"
  /\ IF row.leader = None
       THEN \E t \in FreshTerms : row' = [leader |-> c, left |-> t, beat |-> 0]
       ELSE UNCHANGED row
  /\ Goto(c, "verify")
  /\ UNCHANGED <<isLeader, heartbeat, stopping, term>>

\* INSERT ... ON CONFLICT DO UPDATE ... WHERE expires_at < now, one statement.
\* A client that is used again (DistributedScheduler keeps its client) starts
\* over once its previous heartbeat thread is gone.
InsertOrTakeOver(c) ==
  /\ pc[c] = "idle"
  /\ heartbeat[c] = "off"
  /\ IF row.leader = None \/ row.left = Expired
       THEN \E t \in FreshTerms : row' = [leader |-> c, left |-> t, beat |-> 0]
       ELSE UNCHANGED row
  /\ Goto(c, "verify")
  /\ UNCHANGED <<isLeader, heartbeat, stopping, term>>

\* SELECT leader_id: the row names this client, or another one.
BecomeLeader(c) ==
  /\ pc[c] = "verify"
  /\ row.leader = c
  /\ isLeader' = [isLeader EXCEPT ![c] = TRUE]
  /\ term' = [term EXCEPT ![c] = row.left]
  /\ stopping' = [stopping EXCEPT ![c] = FALSE]
  /\ Beat(c, "renew")
  /\ Goto(c, "running")
  /\ UNCHANGED row

SkipRun(c) ==
  /\ pc[c] = "verify"
  /\ row.leader # c
  /\ Goto(c, "idle")
  /\ UNCHANGED <<row, isLeader, heartbeat, stopping, term>>

\* The SELECT raises: False is returned, whatever the INSERT did.
AcquireFails(c) ==
  /\ pc[c] = "verify"
  /\ Goto(c, "idle")
  /\ UNCHANGED <<row, isLeader, heartbeat, stopping, term>>

-----------------------------------------------------------------------------
(* _heartbeat_loop and renew_heartbeat: UPDATE, then SELECT *)

\* The loop tests the stop event, then renew_heartbeat tests _is_leader.
HeartbeatUpdate(c) ==
  /\ heartbeat[c] = "renew"
  /\ ~stopping[c] /\ isLeader[c]
  /\ row' = IF row.leader = c THEN [row EXCEPT !.beat = 0] ELSE row
  /\ Beat(c, "check")
  /\ UNCHANGED <<isLeader, pc, stopping, term>>

HeartbeatEnds(c) ==
  /\ heartbeat[c] = "renew"
  /\ stopping[c] \/ ~isLeader[c]
  /\ Beat(c, "off")
  /\ UNCHANGED <<row, isLeader, pc, stopping, term>>

HeartbeatConfirms(c) ==
  /\ heartbeat[c] = "check"
  /\ row.leader = c
  /\ Beat(c, "renew")
  /\ UNCHANGED <<row, isLeader, pc, stopping, term>>

\* Mutation: the thread stops, and _is_leader keeps its value.
HeartbeatLostQuietly(c) ==
  /\ heartbeat[c] = "check"
  /\ row.leader # c
  /\ Beat(c, "off")
  /\ UNCHANGED <<row, isLeader, pc, stopping, term>>

HeartbeatLost(c) ==
  /\ heartbeat[c] = "check"
  /\ row.leader # c
  /\ isLeader' = [isLeader EXCEPT ![c] = FALSE]
  /\ Beat(c, "off")
  /\ UNCHANGED <<row, pc, stopping, term>>

\* Any exception of the two statements: leadership is given up locally.
HeartbeatFails(c) ==
  /\ heartbeat[c] = "check" \/ (heartbeat[c] = "renew" /\ ~stopping[c] /\ isLeader[c])
  /\ isLeader' = [isLeader EXCEPT ![c] = FALSE]
  /\ Beat(c, "off")
  /\ UNCHANGED <<row, pc, stopping, term>>

-----------------------------------------------------------------------------
(* The end of the job: record_run, then release_leadership *)

\* The job ends, normally or by an exception the caller catches.
FinishJob(c) ==
  /\ pc[c] = "running"
  /\ Goto(c, "release")
  /\ UNCHANGED <<row, isLeader, heartbeat, stopping, term>>

\* alert_compensation_worker returns from inside its try when there is nothing
\* to retry, past record_run and release_leadership.
ReturnEarly(c) ==
  /\ c \in EarlyReturners
  /\ pc[c] = "running"
  /\ Goto(c, "returned")
  /\ UNCHANGED <<row, isLeader, heartbeat, stopping, term>>

\* release_leadership of a client that is no longer leader: nothing is done.
ReleaseNothing(c) ==
  /\ pc[c] = "release"
  /\ ~isLeader[c]
  /\ Goto(c, "idle")
  /\ UNCHANGED <<row, isLeader, heartbeat, stopping, term>>

\* The stop event is set and the heartbeat thread joined, for 5 seconds.
StopHeartbeat(c) ==
  /\ pc[c] = "release"
  /\ isLeader[c]
  /\ stopping' = [stopping EXCEPT ![c] = TRUE]
  /\ Goto(c, "delete")
  /\ UNCHANGED <<row, isLeader, heartbeat, term>>

\* Mutation: the DELETE without its leader_id condition.
DeleteAnyRow(c) ==
  /\ pc[c] = "delete"
  /\ row' = NoRow
  /\ isLeader' = [isLeader EXCEPT ![c] = FALSE]
  /\ Goto(c, "idle")
  /\ UNCHANGED <<heartbeat, stopping, term>>

\* DELETE ... WHERE leader_id = self; the join above may have timed out.
DeleteOwnRow(c) ==
  /\ pc[c] = "delete"
  /\ row' = IF row.leader = c THEN NoRow ELSE row
  /\ isLeader' = [isLeader EXCEPT ![c] = FALSE]
  /\ Goto(c, "idle")
  /\ UNCHANGED <<heartbeat, stopping, term>>

\* The DELETE raises: logged, and the client forgets its leadership anyway.
DeleteFails(c) ==
  /\ pc[c] = "delete"
  /\ isLeader' = [isLeader EXCEPT ![c] = FALSE]
  /\ Goto(c, "idle")
  /\ UNCHANGED <<row, heartbeat, stopping, term>>

-----------------------------------------------------------------------------
(* The environment *)

\* The process dies, heartbeat thread included; its row stays behind.
Crash(c) ==
  /\ pc[c] \notin {"dead", "idle"}
  /\ Goto(c, "dead")
  /\ isLeader' = [isLeader EXCEPT ![c] = FALSE]
  /\ Beat(c, "off")
  /\ UNCHANGED <<row, stopping, term>>

\* Mutation: time goes on counting after the expiry.
ElapseUnbounded(t) == t - 1

Elapse(t) == IF t = Expired THEN Expired ELSE t - 1

Tick ==
  /\ row' = IF row.leader = None THEN row
            ELSE [row EXCEPT !.left = Elapse(row.left),
                             !.beat = IF @ > HeartbeatTimeout THEN @ ELSE @ + 1]
  /\ term' = [c \in Clients |-> Elapse(term[c])]
  /\ UNCHANGED <<isLeader, pc, heartbeat, stopping>>

LeaseStep(c) ==
  \/ InsertOrTakeOver(c) \/ BecomeLeader(c) \/ SkipRun(c) \/ ReleaseNothing(c)
  \/ StopHeartbeat(c) \/ DeleteOwnRow(c)

HeartbeatStep(c) ==
  HeartbeatUpdate(c) \/ HeartbeatEnds(c) \/ HeartbeatConfirms(c) \/ HeartbeatLost(c)

Failure(c) == AcquireFails(c) \/ HeartbeatFails(c) \/ DeleteFails(c) \/ Crash(c)

Next ==
  \/ \E c \in Clients : LeaseStep(c) \/ FinishJob(c) \/ ReturnEarly(c) \/ HeartbeatStep(c) \/ Failure(c)
  \/ Tick

Spec == Init /\ [][Next]_vars

\* Time passes, schedulers call in periodically and threads are scheduled; a job
\* may hang, failures need not happen, a caller need not return early.
Fairness ==
  /\ WF_vars(Tick)
  /\ \A c \in Clients : WF_vars(LeaseStep(c)) /\ WF_vars(HeartbeatStep(c))

FairSpec == Spec /\ Fairness

-----------------------------------------------------------------------------
(* Properties *)

\* Types: the row, the flags and the program counters of the clients.
TypeOK ==
  /\ row \in [leader : Clients \union {None}, left : TermValues, beat : 0 .. HeartbeatTimeout + 1]
  /\ isLeader \in [Clients -> BOOLEAN]
  /\ pc \in [Clients -> {"idle", "verify", "running", "release", "delete", "returned", "dead"}]
  /\ heartbeat \in [Clients -> {"off", "renew", "check"}]
  /\ stopping \in [Clients -> BOOLEAN]
  /\ term \in [Clients -> TermValues]

InJob(c) == pc[c] \in {"running", "release", "delete", "returned"}
Entitled(c) == InJob(c) /\ term[c] # Expired

\* Mutual exclusion of the guarded jobs, as far as a lease can give it: two
\* clients are never both in the job within the terms they were granted,
\* whatever crashed, failed or was taken over before.
ExclusiveWithinTerm == \A c, d \in Clients : Entitled(c) /\ Entitled(d) => c = d

\* What the database knows and what the client was told agree: inside its term
\* a client in the job owns the row, and the row lives exactly as long.
EntitledOwnsRow == \A c \in Clients : Entitled(c) => row.leader = c /\ row.left = term[c]

\* A row that has not expired changes hands or goes away only when its own
\* leader executes the DELETE of release_leadership: neither a takeover nor the
\* release of a client that was deposed meanwhile touches it.
LiveRowEndsByRelease ==
  [][\A c \in Clients :
       row.leader = c /\ row.left # Expired /\ row'.leader # c
         => pc[c] = "delete" /\ pc'[c] = "idle"]_vars

\* The job runs under an exclusive lease: the row that has not expired is the
\* owner's, and the clients inside are those within their terms.
LiveOwner == IF row.left = Expired THEN None ELSE row.leader
Within == {c \in Clients : Entitled(c)}

Lease == INSTANCE ExclusiveLease WITH owner <- LiveOwner, inside <- Within

\* leader_election.py implements the abstract lease, whatever fails: acquiring,
\* renewing, releasing, dying and the passing of time are its steps or none.
ImplementsLease == Lease!Spec

\* A deposed leader finds out: its heartbeat, or its own release, clears
\* _is_leader, so is_leader() does not stay wrong.
DeposedLearns ==
  \A c \in Clients : (isLeader[c] /\ row.leader # c) ~> ~isLeader[c]

\* Failover: the row a dead leader left behind is taken over, unless nobody is
\* left that calls in (the others died, or never came back from their job).
NobodyCallsIn == \A d \in Clients : pc[d] \in {"dead", "returned", "running"}

Failover ==
  \A c \in Clients : (row.leader = c /\ pc[c] = "dead") ~> (row.leader # c \/ NobodyCallsIn)

-----------------------------------------------------------------------------
(* What the module's documentation says and the code does not do *)

\* "periodic heartbeat updates [...] mutual exclusion spanning a caller's
\* critical section": a leader still in its job, whose heartbeat is fresh, is
\* not deposed.  The heartbeat never moves expires_at.
SpansCriticalSection ==
  [][\A c \in Clients :
       row.leader = c /\ row.beat <= HeartbeatTimeout /\ pc[c] = "running" /\ pc'[c] = "running"
         => row'.leader = c]_vars

\* "Record execution and release lock": a job that has returned has given its
\* leadership up.  The early return of alert_compensation_worker does not.
ReturnReleases == \A c \in Clients : pc[c] = "returned" => ~isLeader[c]
=============================================================================
