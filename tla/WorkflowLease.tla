--------------------------- MODULE WorkflowLease ---------------------------
(***************************************************************************)
(* The database lease of one autonomous workflow: locked_at, locked_by and *)
(* agent_pid of its autonomous_workflows row (app/repositories/            *)
(* autonomous_repo.py), the worker threads that advance it under the lease *)
(* (_advance_single and _heartbeat_workflow_lock in app/services/          *)
(* autonomous_scheduler.py), the fences of the orchestrator they run, the  *)
(* routes of the operators and the Git cleanup sweep.                      *)
(*                                                                         *)
(* A worker is a thread of a scheduler process, running one advance at a   *)
(* time; several processes serve the workflow.  Each SQL statement is one  *)
(* step.  locked_by holds Owner[holder]: holder says which worker acquired *)
(* the lease, and the SQL compares owner strings only, see Owns.           *)
(***************************************************************************)
EXTENDS Integers

CONSTANTS
  Workers,     \* threads that run _advance_single
  Cleaners,    \* scheduler threads that run _retry_pending_git_cleanups
  Processes,
  ProcessOf,   \* the process of each of them
  Owner,       \* the locked_by string of each of them: host/pid/thread name
  None,
  Timeout,     \* LOCK_TIMEOUT_SECONDS, in ticks
  MayStop,     \* the processes that are stopped ...
  MayCrash,    \* ... or killed in a behaviour, and ...
  Moves        \* ... the routes the operators use: bounds

Actors == Workers \union Cleaners

ASSUME ConstantsAssumption ==
  /\ Workers \intersect Cleaners = {}
  /\ None \notin Actors
  /\ ProcessOf \in [Actors -> Processes]
  /\ Timeout \in Nat
  /\ MayStop \subseteq Processes /\ MayCrash \subseteq Processes

VARIABLES
  holder,    \* who acquired the lease the row holds; None when locked_by is NULL
  age,       \* time since locked_at
  pid,       \* whose agent process agent_pid names
  status,    \* the row's status, as far as the lease goes
  busy,      \* the workflow is in the process's _in_progress_ids
  orch,      \* the process's _running_orchestrators entry: whose orchestrator
  stop,      \* the process's graceful stop: "no", "begun" or "told" (the workers)
  pc,        \* where each actor is
  hb,        \* where each worker's heartbeat thread is
  lost,      \* the worker's lock_lost event is set
  shutdown,  \* its orchestrator's _shutdown_requested event is set
  retry,     \* where the retry route is
  override,  \* where the verification override is
  since,     \* time since the actor was last told that it holds the lease
  leaked,    \* the process's entry is one that an acquire_lock left by raising
  overtaken  \* the workers whose workflow was completed, and not by them

row == <<holder, age, pid, status>>
memory == <<busy, leaked, orch, stop>>
events == <<lost, shutdown>>
routes == <<retry, override, overtaken>>
vars == <<row, memory, pc, hb, events, routes, since>>

Old == Timeout + 1
Ages == 0 .. Old
StaleEarly == age >= Timeout            \* mutation: a lease ends one tick early
Stale == age > Timeout

\* WHERE locked_by = owner: the strings are compared, not the workers.
Owns(a) == holder # None /\ Owner[holder] = Owner[a]

Goto(a, label) == pc' = [pc EXCEPT ![a] = label]
Hears(w, label) == hb' = [hb EXCEPT ![w] = label]

Advancing == {"active", "verifying"}    \* get_active_workflows
Statuses == Advancing \union {"paused", "failed", "cancelled", "completed"}

Init ==
  /\ holder = None /\ age = 0 /\ pid = None /\ status = "active"
  /\ busy = [p \in Processes |-> FALSE]
  /\ orch = [p \in Processes |-> None]
  /\ stop = [p \in Processes |-> "no"]
  /\ pc = [a \in Actors |-> "idle"]
  /\ hb = [w \in Workers |-> "off"]
  /\ lost = [w \in Workers |-> FALSE]
  /\ shutdown = [w \in Workers |-> FALSE]
  /\ retry = "none" /\ override = "none"
  /\ since = [a \in Actors |-> Old]
  /\ leaked = [p \in Processes |-> FALSE]
  /\ overtaken = {}

-----------------------------------------------------------------------------
(* The lease statements of the repository *)

Take(a) == holder' = a /\ age' = 0 /\ since' = [since EXCEPT ![a] = 0]

\* refresh_lock: the owner's lease starts anew, however old it was.
Refresh(a) == age' = 0 /\ since' = [since EXCEPT ![a] = 0] /\ UNCHANGED <<holder, pid, status>>

\* _mark_scheduler_lock_lost, after a fenced statement that changed no row.
MarkLost(w) ==
  /\ lost' = [lost EXCEPT ![w] = TRUE]
  /\ shutdown' = [shutdown EXCEPT ![w] = TRUE]

\* prepare_for_shutdown; the agent it stops ends by AgentEnds.
Interrupt(w) == shutdown' = [shutdown EXCEPT ![w] = TRUE]

-----------------------------------------------------------------------------
(* _advance_single *)

\* _discard_in_progress_entry.
Drop(p) == busy' = [busy EXCEPT ![p] = FALSE] /\ leaked' = [leaked EXCEPT ![p] = FALSE]

\* The scheduler selects the workflow and submits the advance to a thread.
Select(w) ==
  LET p == ProcessOf[w] IN
  /\ pc[w] = "idle" /\ hb[w] = "off"
  /\ status \in Advancing /\ ~busy[p] /\ stop[p] = "no"
  /\ busy' = [busy EXCEPT ![p] = TRUE] /\ leaked' = [leaked EXCEPT ![p] = FALSE]
  /\ Goto(w, "selected")
  /\ UNCHANGED <<row, orch, stop, hb, events, routes, since>>

\* Mutation: only a released lease is acquired.
AcquireReleased(w) ==
  /\ pc[w] = "selected"
  /\ holder = None
  /\ Take(w)
  /\ lost' = [lost EXCEPT ![w] = FALSE]
  /\ shutdown' = [shutdown EXCEPT ![w] = FALSE]
  /\ Hears(w, "wait")
  /\ Goto(w, "locked")
  /\ UNCHANGED <<pid, status, memory, routes>>

\* acquire_lock: WHERE locked_at IS NULL OR locked_at < cutoff.
Acquire(w) ==
  /\ pc[w] = "selected"
  /\ holder = None \/ Stale
  /\ Take(w)
  /\ lost' = [lost EXCEPT ![w] = FALSE]
  /\ shutdown' = [shutdown EXCEPT ![w] = FALSE]
  /\ Hears(w, "wait")
  /\ Goto(w, "locked")
  /\ UNCHANGED <<pid, status, memory, routes>>

\* acquire_lock raises, before its UPDATE or after the COMMIT.  It is called
\* between the two try blocks, so the thread ends and its entry stays.
AcquireRaises(w) ==
  /\ pc[w] = "selected"
  /\ \/ UNCHANGED <<holder, age>>
     \/ (holder = None \/ Stale) /\ holder' = w /\ age' = 0
  /\ leaked' = [leaked EXCEPT ![ProcessOf[w]] = TRUE]
  /\ Goto(w, "idle")
  /\ UNCHANGED <<pid, status, busy, orch, stop, hb, events, routes, since>>

\* Mutation: the pre-try section leaves the entry behind.
SkipLeaking(w) ==
  /\ pc[w] = "selected"
  /\ Goto(w, "idle")
  /\ UNCHANGED <<row, memory, hb, events, routes, since>>

\* acquire_lock is refused, or the reads before it raise: the entry is dropped.
Skip(w) ==
  /\ pc[w] = "selected"
  /\ Drop(ProcessOf[w])
  /\ Goto(w, "idle")
  /\ UNCHANGED <<row, orch, stop, hb, events, routes, since>>

\* The quota gate pauses the workflow, with an update that is not fenced.
PauseForQuota(w) ==
  /\ pc[w] = "locked"
  /\ status' = "paused"
  /\ Goto(w, "final")
  /\ UNCHANGED <<holder, age, pid, memory, hb, events, routes, since>>

Register(w) ==
  /\ pc[w] = "locked"
  /\ orch' = [orch EXCEPT ![ProcessOf[w]] = w]
  /\ Goto(w, "registered")
  /\ UNCHANGED <<row, busy, leaked, stop, hb, events, routes, since>>

\* Registered first, then lock_lost and _stop_event are looked at, then
\* advance() looks at the status, which for all it cares may be completed.
EnterAdvance(w) ==
  /\ pc[w] = "registered"
  /\ IF lost[w] \/ stop[ProcessOf[w]] # "no"
       THEN Interrupt(w) /\ Goto(w, "final") /\ UNCHANGED overtaken
       ELSE /\ Goto(w, IF status \in {"paused", "failed", "cancelled"} THEN "final" ELSE "advance")
            /\ overtaken' = IF status = "completed" THEN overtaken \union {w} ELSE overtaken
            /\ UNCHANGED shutdown
  /\ UNCHANGED <<row, memory, hb, lost, retry, override, since>>

-----------------------------------------------------------------------------
(* advance(): agent runs, fenced row updates, external actions *)

\* _run_agent names the session and makes its last check.
PrepareAgent(w) ==
  /\ pc[w] = "advance"
  /\ ~shutdown[w] /\ ~lost[w]
  /\ Goto(w, "launch")
  /\ UNCHANGED <<row, memory, hb, events, routes, since>>

\* The runner starts the process and registers the session.
LaunchAgent(w) ==
  /\ pc[w] = "launch"
  /\ Goto(w, "spawned")
  /\ UNCHANGED <<row, memory, hb, events, routes, since>>

\* _on_pid_registered: a fenced update, whose failure does not stop the run.
RegisterPid(w) ==
  /\ pc[w] = "spawned"
  /\ IF Owns(w) THEN pid' = w /\ UNCHANGED events ELSE MarkLost(w) /\ UNCHANGED pid
  /\ Goto(w, "agent")
  /\ UNCHANGED <<holder, age, status, memory, hb, routes, since>>

\* The agent ends, by itself or stopped; _on_pid_cleared is fenced too.
AgentEnds(w) ==
  /\ pc[w] = "agent"
  /\ IF Owns(w) THEN pid' = None /\ UNCHANGED events ELSE MarkLost(w) /\ UNCHANGED pid
  /\ Goto(w, "advance")
  /\ UNCHANGED <<holder, age, status, memory, hb, routes, since>>

\* ensure_scheduler_lock before a push, a merge, an issue write: the lease is
\* refreshed, and the action is not done when that fails.
EnsureLock(w) ==
  /\ pc[w] = "advance"
  /\ ~lost[w]
  /\ IF Owns(w) THEN Refresh(w) /\ Goto(w, "commit") /\ UNCHANGED events
                ELSE MarkLost(w) /\ Goto(w, "final") /\ UNCHANGED <<row, since>>
  /\ UNCHANGED <<memory, hb, routes>>

CommitDone(w) ==
  /\ pc[w] = "commit"
  /\ Goto(w, "advance")
  /\ UNCHANGED <<row, memory, hb, events, routes, since>>

\* _persist_workflow_update: a phase writes its outcome.  A failed workflow's
\* worktree is removed before advance() returns.
Persist(w) ==
  /\ pc[w] = "advance"
  /\ IF Owns(w)
       THEN \E s \in Statuses :
              /\ status' = s
              /\ Goto(w, IF s = "failed" THEN "reaping" ELSE "final")
              /\ UNCHANGED events
       ELSE MarkLost(w) /\ Goto(w, "final") /\ UNCHANGED status
  /\ UNCHANGED <<holder, age, pid, memory, hb, routes, since>>

ReapWorktree(w) ==
  /\ pc[w] = "reaping"
  /\ Goto(w, "final")
  /\ UNCHANGED <<row, memory, hb, events, routes, since>>

\* advance() returns without a last write, or unwinds at a shutdown check.
Unwind(w) ==
  /\ pc[w] = "advance"
  /\ Goto(w, "final")
  /\ UNCHANGED <<row, memory, hb, events, routes, since>>

-----------------------------------------------------------------------------
(* The finally of _advance_single *)

\* The orchestrator is popped, the heartbeat stopped and joined; the join of a
\* thread that is in its database call gives up after one second.
StopHeartbeat(w) ==
  /\ pc[w] = "final"
  /\ orch' = [orch EXCEPT ![ProcessOf[w]] = None]
  /\ hb' = IF hb[w] = "wait" THEN [hb EXCEPT ![w] = "off"] ELSE hb
  /\ Goto(w, "clear")
  /\ UNCHANGED <<row, busy, leaked, stop, events, routes, since>>

\* Mutation: agent_pid is cleared without the locked_by condition.
ClearAnyPid(w) ==
  /\ pc[w] = "clear"
  /\ pid' = None
  /\ Goto(w, "release")
  /\ UNCHANGED <<holder, age, status, memory, hb, events, routes, since>>

\* clear_agent_pid_if_lock_owner; its exceptions are swallowed.
ClearPid(w) ==
  /\ pc[w] = "clear"
  /\ pid' \in {pid, IF Owns(w) THEN None ELSE pid}
  /\ Goto(w, "release")
  /\ UNCHANGED <<holder, age, status, memory, hb, events, routes, since>>

\* Mutation: the lock is released whoever holds it.
ReleaseAny(a) ==
  /\ pc[a] = "release"
  /\ holder' = None /\ age' = 0
  /\ since' = [since EXCEPT ![a] = Old]
  /\ Goto(a, "discard")
  /\ UNCHANGED <<pid, status, memory, hb, events, routes>>

\* release_lock, by its owner only; a failure leaves the lease to its timeout.
ReleaseLock(a) ==
  /\ pc[a] = "release"
  /\ \/ Owns(a) /\ holder' = None /\ age' = 0
     \/ UNCHANGED <<holder, age>>
  /\ since' = [since EXCEPT ![a] = Old]
  /\ Goto(a, "discard")
  /\ UNCHANGED <<pid, status, memory, hb, events, routes>>

\* The end of the finally; a cleanup sweep has no entry to discard.  The events
\* go with the advance they belong to.
Discard(a) ==
  /\ pc[a] = "discard"
  /\ IF a \in Workers
       THEN /\ Drop(ProcessOf[a])
            /\ overtaken' = overtaken \ {a}
            /\ lost' = [lost EXCEPT ![a] = FALSE]
            /\ shutdown' = [shutdown EXCEPT ![a] = FALSE]
       ELSE UNCHANGED <<busy, leaked, overtaken, events>>
  /\ Goto(a, "idle")
  /\ UNCHANGED <<row, orch, stop, hb, retry, override, since>>

-----------------------------------------------------------------------------
(* _heartbeat_workflow_lock *)

Advance == {"locked", "registered", "advance", "launch", "spawned", "agent", "commit", "reaping", "final"}

\* The loop goes on unless heartbeat_stop was set.
WaitAgain(w) == Hears(w, IF pc[w] \in Advance THEN "wait" ELSE "off")

HeartbeatWakes(w) ==
  /\ hb[w] = "wait"
  /\ Hears(w, "refresh")
  /\ UNCHANGED <<row, memory, pc, events, routes, since>>

\* refresh_lock returned True ...
HeartbeatRenews(w) ==
  /\ hb[w] = "refresh"
  /\ Owns(w)
  /\ Refresh(w)
  /\ WaitAgain(w)
  /\ UNCHANGED <<memory, pc, events, routes>>

\* ... or raised, which proves nothing ...
HeartbeatFails(w) ==
  /\ hb[w] = "refresh"
  /\ WaitAgain(w)
  /\ UNCHANGED <<row, memory, pc, events, routes, since>>

\* ... or returned False: lock_lost first, then the registered orchestrator.
HeartbeatLoses(w) ==
  /\ hb[w] = "refresh"
  /\ ~Owns(w)
  /\ lost' = [lost EXCEPT ![w] = TRUE]
  /\ Hears(w, "lost")
  /\ UNCHANGED <<row, memory, pc, shutdown, routes, since>>

\* prepare_for_shutdown of whatever _running_orchestrators has for the workflow.
StopAdvance(w) ==
  LET o == orch[ProcessOf[w]] IN
  /\ hb[w] = "lost"
  /\ IF o = None THEN UNCHANGED shutdown ELSE Interrupt(o)
  /\ Hears(w, "off")
  /\ UNCHANGED <<row, memory, pc, lost, routes, since>>

-----------------------------------------------------------------------------
(* Other writers *)

\* Mutation: only an entry whose lease was released is dropped.
ReclaimReleased(p) ==
  /\ busy[p] /\ stop[p] = "no"
  /\ holder = None
  /\ status # "paused"
  /\ Drop(p)
  /\ UNCHANGED <<row, orch, stop, pc, hb, events, routes, since>>

\* _reclaim_stale_in_progress: an entry without a live lease is dropped.
Reclaim(p) ==
  /\ busy[p] /\ stop[p] = "no"
  /\ holder = None \/ Stale
  /\ status # "paused"
  /\ Drop(p)
  /\ UNCHANGED <<row, orch, stop, pc, hb, events, routes, since>>

\* The retry route of a failed workflow: clear_in_progress drops the entry of
\* the process that serves the request and releases the lock of anybody ...
RetryRelease(p) ==
  /\ "retry" \in Moves
  /\ status = "failed" /\ retry = "none"
  /\ retry' = "released"
  /\ orch' = [orch EXCEPT ![p] = None]
  /\ Drop(p)
  /\ holder' = None /\ age' = 0
  /\ since' = [a \in Actors |-> Old]
  /\ UNCHANGED <<pid, status, stop, pc, hb, events, override, overtaken>>

\* ... then the status becomes that of the phase again.
RetryReset ==
  /\ retry = "released"
  /\ retry' = "none"
  /\ status' \in Advancing
  /\ UNCHANGED <<holder, age, pid, memory, pc, hb, events, override, overtaken, since>>

\* The pause, resume, stop and done routes write the status, fenced by no lease.
Pause ==
  /\ "pause" \in Moves
  /\ status # "paused"
  /\ status' = "paused"
  /\ UNCHANGED <<holder, age, pid, memory, pc, hb, events, routes, since>>

Resume ==
  /\ "resume" \in Moves
  /\ status = "paused"
  /\ status' \in Advancing
  /\ UNCHANGED <<holder, age, pid, memory, pc, hb, events, routes, since>>

Cancel ==
  /\ "stop" \in Moves
  /\ status' = "cancelled"
  /\ UNCHANGED <<holder, age, pid, memory, pc, hb, events, routes, since>>

Done ==
  /\ "done" \in Moves
  /\ status' = "active"
  /\ UNCHANGED <<holder, age, pid, memory, pc, hb, events, routes, since>>

\* In the part of advance() that works on worktree, branch and pull request.
InPhase(w) == pc[w] \in {"advance", "launch", "spawned", "agent", "commit", "reaping"}

\* The verification override finds the workflow paused, comments and closes the
\* issue ...
OverrideDecides ==
  /\ "override" \in Moves
  /\ status = "paused" /\ override = "none"
  /\ override' = "decided"
  /\ UNCHANGED <<row, memory, pc, hb, events, retry, overtaken, since>>

\* ... and completes the workflow, whoever may have resumed it since.
OverrideWrites ==
  /\ override = "decided"
  /\ override' = "none"
  /\ status' = "completed"
  /\ overtaken' = overtaken \union {w \in Workers : InPhase(w)}
  /\ UNCHANGED <<holder, age, pid, memory, pc, hb, events, retry, since>>

-----------------------------------------------------------------------------
(* _retry_pending_git_cleanups *)

\* Mutation: a sweep breaks any stale lock, as acquire_lock does.
AcquireStale(k) ==
  /\ pc[k] = "idle" /\ stop[ProcessOf[k]] = "no"
  /\ status \in {"verifying", "completed"} /\ ~busy[ProcessOf[k]]
  /\ holder = None \/ Stale
  /\ Take(k)
  /\ Goto(k, "cleaning")
  /\ UNCHANGED <<pid, status, memory, hb, events, routes>>

\* acquire_cleanup_lock, for a delivered workflow that is not in flight here.
AcquireCleanup(k) ==
  /\ pc[k] = "idle" /\ stop[ProcessOf[k]] = "no"
  /\ status \in {"verifying", "completed"} /\ ~busy[ProcessOf[k]]
  /\ \/ holder = None
     \/ Stale /\ status = "completed" /\ pid = None
  /\ Take(k)
  /\ Goto(k, "cleaning")
  /\ UNCHANGED <<pid, status, memory, hb, events, routes>>

CleanupDone(k) ==
  /\ pc[k] = "cleaning"
  /\ Goto(k, "release")
  /\ UNCHANGED <<row, memory, hb, events, routes, since>>

-----------------------------------------------------------------------------
(* Processes and time *)

\* stop(): the event first, ...
Stop(p) ==
  /\ p \in MayStop /\ stop[p] = "no"
  /\ stop' = [stop EXCEPT ![p] = "begun"]
  /\ UNCHANGED <<row, busy, leaked, orch, pc, hb, events, routes, since>>

\* ... then the orchestrators registered by now.
StopOrchestrators(p) ==
  /\ stop[p] = "begun"
  /\ stop' = [stop EXCEPT ![p] = "told"]
  /\ IF orch[p] = None THEN UNCHANGED shutdown ELSE Interrupt(orch[p])
  /\ UNCHANGED <<row, busy, leaked, orch, pc, hb, lost, routes, since>>

\* A process dies with its threads; its row stays.
Crash(p) ==
  /\ p \in MayCrash
  /\ \E a \in Actors : ProcessOf[a] = p /\ pc[a] # "dead"
  /\ pc' = [a \in Actors |-> IF ProcessOf[a] = p THEN "dead" ELSE pc[a]]
  /\ hb' = [w \in Workers |-> IF ProcessOf[w] = p THEN "off" ELSE hb[w]]
  /\ Drop(p)
  /\ orch' = [orch EXCEPT ![p] = None]
  /\ overtaken' = {w \in overtaken : ProcessOf[w] # p}
  /\ lost' = [w \in Workers |-> ProcessOf[w] # p /\ lost[w]]
  /\ shutdown' = [w \in Workers |-> ProcessOf[w] # p /\ shutdown[w]]
  /\ since' = [a \in Actors |-> IF ProcessOf[a] = p THEN Old ELSE since[a]]
  /\ UNCHANGED <<row, stop, retry, override>>

OneOlderUnbounded(n) == n + 1             \* mutation: the bound on the ages is lost
OneOlder(n) == IF n < Old THEN n + 1 ELSE Old

Tick ==
  /\ \/ holder # None /\ age < Old
     \/ \E a \in Actors : since[a] < Old
  /\ age' = IF holder = None THEN age ELSE OneOlder(age)
  /\ since' = [a \in Actors |-> OneOlder(since[a])]
  /\ UNCHANGED <<holder, pid, status, memory, pc, hb, events, routes>>

-----------------------------------------------------------------------------
AgentStep(w) == PrepareAgent(w) \/ LaunchAgent(w) \/ RegisterPid(w) \/ AgentEnds(w)

LeaveAdvance(w) == Persist(w) \/ Unwind(w)

Finalize(a) == ReleaseLock(a) \/ Discard(a)

WorkerStep(w) ==
  \/ Select(w) \/ Acquire(w) \/ AcquireRaises(w) \/ Skip(w) \/ PauseForQuota(w) \/ Register(w) \/ EnterAdvance(w)
  \/ AgentStep(w) \/ EnsureLock(w) \/ CommitDone(w) \/ LeaveAdvance(w) \/ ReapWorktree(w)
  \/ StopHeartbeat(w) \/ ClearPid(w) \/ Finalize(w)

HeartbeatStep(w) ==
  \/ HeartbeatWakes(w) \/ HeartbeatRenews(w) \/ HeartbeatFails(w) \/ HeartbeatLoses(w) \/ StopAdvance(w)

CleanerStep(k) == AcquireCleanup(k) \/ CleanupDone(k) \/ Finalize(k)

ProcessStep(p) == Reclaim(p) \/ RetryRelease(p) \/ Stop(p) \/ StopOrchestrators(p) \/ Crash(p)

RouteStep == RetryReset \/ Pause \/ Resume \/ Cancel \/ Done \/ OverrideDecides \/ OverrideWrites

Next ==
  \/ \E w \in Workers : WorkerStep(w) \/ HeartbeatStep(w)
  \/ \E k \in Cleaners : CleanerStep(k)
  \/ \E p \in Processes : ProcessStep(p)
  \/ RouteStep \/ Tick

Spec == Init /\ [][Next]_vars

\* Threads run and agents end (each run has a timeout); a phase runs finitely
\* many agents; the database does not fail every acquire_lock; the poll looks
\* at the leases every 10 s.  No operator and no crash has to do anything.
Fairness ==
  /\ WF_vars(Tick)
  /\ \A w \in Workers :
       /\ WF_vars(WorkerStep(w)) /\ WF_vars(HeartbeatStep(w))
       /\ SF_vars(Acquire(w)) /\ SF_vars(LeaveAdvance(w))
  /\ \A p \in Processes : SF_vars(Reclaim(p))
  /\ \A k \in Cleaners : WF_vars(CleanupDone(k) \/ Finalize(k))

FairSpec == Spec /\ Fairness

-----------------------------------------------------------------------------
(* Properties *)

Labels == Advance \union {"idle", "selected", "clear", "release", "discard", "cleaning", "dead"}

\* The row, the threads and the events keep their types.
TypeOK ==
  /\ holder \in Actors \union {None} /\ age \in Ages
  /\ pid \in Workers \union {None} /\ status \in Statuses
  /\ busy \in [Processes -> BOOLEAN] /\ orch \in [Processes -> Workers \union {None}]
  /\ stop \in [Processes -> {"no", "begun", "told"}]
  /\ pc \in [Actors -> Labels]
  /\ hb \in [Workers -> {"off", "wait", "refresh", "lost"}]
  /\ lost \in [Workers -> BOOLEAN] /\ shutdown \in [Workers -> BOOLEAN]
  /\ leaked \in [Processes -> BOOLEAN] /\ overtaken \subseteq Workers
  /\ retry \in {"none", "released"} /\ override \in {"none", "decided"}
  /\ since \in [Actors -> Ages]

\* Between acquire_lock and release_lock, for as long as the lease it was last
\* granted lasts.
InTerm(a) == pc[a] \in (Advance \union {"clear", "release", "cleaning"}) /\ since[a] <= Timeout

\* Working on the worktree, the branch or the pull request.
Working(a) == pc[a] \in (Advance \union {"cleaning"}) \ {"locked", "final"}

\* An advance or a sweep that has not outlived its lease owns the row, which
\* has not outlived it either.
TermOwnsLock == \A a \in Actors : InTerm(a) => holder = a /\ age = since[a]

\* "the workflow DB lock serializes cleanup with advances in every scheduler
\* process": no two threads work on a workflow within their leases.
ExclusiveWork ==
  \A a, b \in Actors : a # b => ~(Working(a) /\ InTerm(a) /\ Working(b) /\ InTerm(b))

\* The lease of the row is an exclusive lease, too.
LiveOwner == IF Stale THEN None ELSE holder
Within == {a \in Actors : InTerm(a)}

Lease == INSTANCE ExclusiveLease WITH Clients <- Actors, owner <- LiveOwner, inside <- Within

\* Workers, heartbeats, the cleanup sweep, the retry route and crashes together
\* implement the abstract lease: every statement on locked_by and locked_at, and
\* every way into and out of an advance, is a step of it or none.
ImplementsLease == Lease!Spec

\* While a lease lasts, no step but its holder's, and the retry route, takes
\* the lease away or touches the pid of the holder's agent: a superseded worker's
\* finally, its late heartbeat and the sweep leave the replacement alone.
HolderUndisturbed ==
  [][\A a \in Actors :
       InTerm(a) /\ (holder' # a \/ pid' # pid)
         => pc'[a] # pc[a] \/ retry' # retry]_vars

\* acquire_cleanup_lock, "PID alone is not a sufficient lease": the sweep never
\* takes the lease away from an advance that is in a phase, however long the
\* lease is overdue and whether or not an agent_pid is registered.  Only an
\* advance whose workflow somebody else completed is not safe from it.
SweepBreaksNoAdvance ==
  [][\A k \in Cleaners :
       holder' = k /\ holder \in Workers => ~InPhase(holder) \/ holder \in overtaken]_vars

\* _advance_single drops the _in_progress_ids entry on every way out but one: an
\* entry without a thread, which freezes the workflow, is left only by an
\* acquire_lock that raised after the entry was made.
Running(p) == \E w \in Workers : ProcessOf[w] = p /\ pc[w] # "idle"
EntryHasWorker == \A p \in Processes : busy[p] => Running(p) \/ leaked[p]

\* _reclaim_stale_in_progress, "Self-heal leaked _in_progress entries": an entry
\* without a thread goes, although its lease may have been taken, unless the
\* process stops or the workflow is paused.
LeakReaped ==
  \A p \in Processes :
    busy[p] /\ ~Running(p) ~> ~busy[p] \/ stop[p] # "no" \/ status = "paused"

\* A lease left by a process that died is taken over by a process that still
\* schedules, unless the workflow no longer wants an advance.
Recovered ==
  LET Orphaned == holder # None /\ pc[holder] = "dead" /\ status \in Advancing
  IN (Orphaned /\ \E w \in Workers : pc[w] # "dead")
       ~> (~Orphaned \/ \A w \in Workers : pc[w] = "dead" \/ stop[ProcessOf[w]] # "no")

\* autonomous_scheduler.py:812, "an exception here bypasses the main try/finally
\* entirely, so the in-progress entry [...] would leak [...] Discard the entry on
\* any raise": no entry without a thread, whatever raises.
NoEntryLeaks == \A p \in Processes : busy[p] => Running(p)

\* autonomous_repo.py on acquire_cleanup_lock, "PID alone is not a sufficient
\* lease": no sweep breaks the lock of any advance in a phase.
SweepSparesAdvance ==
  [][\A k \in Cleaners : holder' = k /\ holder \in Workers => ~InPhase(holder)]_vars

\* autonomous_scheduler.py, "an in-progress entry with no live lease behind it is
\* fiction: reap it": the self-healing pass drops no entry of a running worker.
ReapsOnlyFiction ==
  [][\A p \in Processes : busy[p] /\ ~busy'[p] /\ pc' = pc /\ retry' = retry
       => \A w \in Workers : ProcessOf[w] = p => pc[w] = "idle"]_vars

\* autonomous_scheduler.py, "Register first, then re-check the event so no new
\* agent task can start after graceful shutdown has begun".
NoAgentAfterShutdown ==
  [][\A w \in Workers : pc[w] = "launch" /\ pc'[w] = "spawned" => ~shutdown[w]]_vars

\* autonomous_repo.py, "A superseded worker must not clear the PID just
\* registered by the replacement owner".
SupersededLeavesPid ==
  [][\A w \in Workers : pc[w] = "clear" /\ pid' # pid => holder = w]_vars

\* autonomous_repo.py on refresh_lock, "False means ownership was lost and the
\* caller must stop the old advance": the old one, not its replacement.
HeartbeatStopsOwnAdvance ==
  [][\A w, o \in Workers :
       hb[w] = "lost" /\ hb'[w] = "off" /\ shutdown'[o] # shutdown[o] => o = w]_vars

\* autonomous_scheduler.py on clear_in_progress, "a failed workflow has no live
\* orchestrator": the lock the retry releases by force is nobody's.
RetryFindsNobody ==
  [][retry' = "released" /\ retry = "none" => \A w \in Workers : ~Working(w)]_vars

\* autonomous_scheduler.py on the cleanup sweep, "The workflow DB lock serializes
\* cleanup with advances in every scheduler process": nor is any other advance
\* in a phase, superseded or not, while worktree and branch are removed.
SweepSparesOverdueAdvance ==
  \A k \in Cleaners : pc[k] = "cleaning" /\ InTerm(k) => \A w \in Workers : ~InPhase(w)
=============================================================================
