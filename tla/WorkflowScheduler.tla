-------------------------- MODULE WorkflowScheduler --------------------------
(***************************************************************************)
(* The poll loop of AutonomousScheduler and what it schedules.             *)
(*                                                                         *)
(* One scheduler process polls the table autonomous_workflows every ten    *)
(* seconds.  A poll promotes the head of each batch queue, resumes quota   *)
(* pauses, drops the conflict keys of paused workflows, reads the active   *)
(* rows, reaps entries without a lease, filters and selects under the      *)
(* concurrency caps, and hands the selection to a thread pool.  Worker     *)
(* threads advance one phase of one workflow each and write its row back;  *)
(* operators pause, resume, stop, finish and retry workflows by writing to *)
(* the same rows.  Nothing but the lease of the row, which WorkflowLease   *)
(* models, orders these writes: the scheduler decides on rows it read      *)
(* earlier, and routes write blindly.                                      *)
(*                                                                         *)
(* Here a lease is only present (a worker between acquire and release) or  *)
(* absent, a workflow has one worker at a time, and the statuses of        *)
(* RUNNING_BATCH_STATUSES are one status, "running".                       *)
(***************************************************************************)
EXTENDS Integers, FiniteSets

CONSTANTS
  Workflows,  \* rows of autonomous_workflows
  Users,      \* owners
  Batches,    \* batch ids
  NoBatch,    \* a workflow that is not part of a batch
  GitKeys,    \* workspaces and branches, the git part of a conflict key
  OwnerOf,    \* workflow -> user
  BatchOf,    \* workflow -> batch or NoBatch
  KeysOf,     \* workflow -> set of git keys
  Rank,       \* workflow -> its place by created_at and batch_order
  Cap,        \* get_max_concurrent_workflows()
  UserCap,    \* max_sessions_per_user
  Moves       \* what may happen: a subset of AllMoves

\* The routes, the quota gate, "suspend" (a git phase pauses its workflow) and
\* "raise" (acquire_lock raises).
AllMoves ==
  {"pause", "resume", "stop", "done", "retry", "quota", "suspend", "raise"}

ASSUME DataAssumption ==
  /\ IsFiniteSet(Workflows)
  /\ OwnerOf \in [Workflows -> Users]
  /\ NoBatch \notin Batches
  /\ BatchOf \in [Workflows -> Batches \cup {NoBatch}]
  /\ KeysOf \in [Workflows -> SUBSET GitKeys]
  /\ Rank \in [Workflows -> Nat]
  /\ \A v, w \in Workflows : Rank[v] = Rank[w] => v = w
  /\ Cap \in Nat /\ UserCap \in Nat
  /\ Moves \subseteq AllMoves
  /\ GitKeys \cap Workflows = {} /\ Batches \cap Workflows = {}
  /\ GitKeys \cap Batches = {}

VARIABLES
  row,        \* the table: status, phase, verdict, mark of each workflow
  worker,     \* program counter of the worker thread of a workflow
  work,       \* the phase that worker's advance() read
  frozen,     \* the workflow's agent process is stopped by SIGSTOP
  manual,     \* ghost: the pause is an operator's, not undone or taken over since
  abandoned,  \* ghost: what ended the pause does not continue the agent
  pausing,    \* a pause route in progress: what it does next
  resuming,   \* a resume route past its SIGCONT: what it read of the row
  inProgress, \* _in_progress_ids (and, by owner, _in_progress_by_user)
  keyMap,     \* _in_progress_key_map: what the entry reserved
  held,       \* _in_progress_batch_ids, _workspaces and _branches together
  poll        \* the scheduler thread: step, and what it read

vars == <<row, worker, work, frozen, manual, abandoned, pausing, resuming,
          inProgress, keyMap, held, poll>>

routes == <<abandoned, pausing, resuming>>
table == <<row, manual, routes>>
entries == <<inProgress, keyMap, held>>
threads == <<worker, work, frozen>>

-----------------------------------------------------------------------------
(* Rows.  phase "work" stands for preparation to merge, which run git and   *)
(* agents in the workflow's workspace.  mark is the prefix of error_message *)
(* that the scheduler and the routes look for.                              *)

Phases == {"work", "wait", "accept"}

StatusOf(phase) ==
  CASE phase = "work"   -> "running"
    [] phase = "wait"   -> "waiting"
    [] phase = "accept" -> "verifying"

ActiveStatuses == {"running", "waiting", "verifying"}
QueueAdvance == {"waiting", "completed", "failed", "timeout"}
Statuses == ActiveStatuses \cup QueueAdvance \cup {"queued", "paused", "cancelled"}

Marks == {"none", "quota", "window"}
Rows == [status : Statuses, phase : Phases, verdict : BOOLEAN, mark : Marks]

Siblings(w) == {v \in Workflows : BatchOf[v] = BatchOf[w] /\ BatchOf[w] # NoBatch}
Earlier(w) == {v \in Siblings(w) : Rank[v] < Rank[w]}

\* The sibling one place before w in its batch, if there is one.
IsPrevious(v, w) == v \in Earlier(w) /\ \A u \in Earlier(w) : Rank[u] <= Rank[v]

\* Mutant: every phase gets the exemption of an acceptance run.
ExemptKeys(w, phase) == ({BatchOf[w]} \ {NoBatch}) \cup {w}

\* An acceptance run verifies in a checkout of its own; its batch id is
\* reserved like that of any other phase.
ConflictKeys(w, phase) ==
  ({BatchOf[w]} \ {NoBatch}) \cup (IF phase = "accept" THEN {w} ELSE KeysOf[w])

Keys == GitKeys \cup Batches \cup Workflows

Leased(w) == worker[w] \in {"gate", "phase", "agent", "leave"}
AgentPid(w) == worker[w] = "agent"

\* Mutant: a pause in acceptance keeps the queue, whatever the verdict.
SlotKeptByPause(w) == row[w].phase = "accept" /\ row[w].status # "paused"

SlotReleased(w) ==
  /\ row[w].phase = "accept"
  /\ row[w].status = "paused" => ~AgentPid(w) /\ row[w].verdict

-----------------------------------------------------------------------------
PollSteps == {"promote", "promoting", "resume", "resuming", "paused", "drop",
              "read", "filter", "select"}

NotRead == [w \in Workflows |-> [status |-> "queued", phase |-> "work"]]

\* What a step leaves behind for the next: the workflows it still has to
\* handle and the statuses and phases it read.
At(step, todo, seen) == [step |-> step, todo |-> todo, pick |-> {}, seen |-> seen]
Read == [w \in Workflows |-> [status |-> row[w].status, phase |-> row[w].phase]]

\* The batch form creates its first workflow pending, the others queued.
Init ==
  /\ row = [w \in Workflows |->
              [status |-> IF Earlier(w) = {} THEN "running" ELSE "queued",
               phase |-> "work", verdict |-> FALSE, mark |-> "none"]]
  /\ worker = [w \in Workflows |-> "idle"]
  /\ work = [w \in Workflows |-> "work"]
  /\ frozen = [w \in Workflows |-> FALSE]
  /\ manual = [w \in Workflows |-> FALSE]
  /\ abandoned = [w \in Workflows |-> FALSE]
  /\ pausing = [w \in Workflows |-> "no"]
  /\ resuming = [w \in Workflows |-> {}]
  /\ inProgress = {} /\ held = {}
  /\ keyMap = [w \in Workflows |-> {}]
  /\ poll = At("promote", {}, NotRead)

-----------------------------------------------------------------------------
(* The poll: batch promotion.                                               *)

Heads == {w \in Workflows : /\ row[w].status = "queued"
                            /\ BatchOf[w] # NoBatch
                            /\ \A v \in Earlier(w) : row[v].status # "queued"}

\* The loop over what was read: once it is done, or if there is nothing to
\* do, the poll goes on with the next pass.
Looping(step, todo, seen, next) ==
  IF todo = {} THEN At(next, {}, NotRead) ELSE At(step, todo, seen)

ReadQueued ==
  /\ poll.step = "promote"
  /\ poll' = Looping("promoting", Heads, NotRead, "resume")
  /\ UNCHANGED <<table, entries, threads>>

Releases(v) ==
  /\ row[v].status \notin {"cancelled", "queued"}
  /\ SlotReleased(v) \/ row[v].status \in QueueAdvance

Promotable(w) ==
  /\ \A v \in Siblings(w) : row[v].status # "running"
  /\ \A v \in Workflows : IsPrevious(v, w) => Releases(v)

\* The batch is read again for each head; the write comes after.
CheckBatch(w) ==
  /\ poll.step = "promoting" /\ poll.pick = {} /\ w \in poll.todo
  /\ poll' = IF Promotable(w)
             THEN [poll EXCEPT !.todo = @ \ {w}, !.pick = {w}]
             ELSE Looping("promoting", poll.todo \ {w}, NotRead, "resume")
  /\ UNCHANGED <<table, entries, threads>>

Promote(w) ==
  /\ poll.step = "promoting" /\ w \in poll.pick
  /\ poll' = Looping("promoting", poll.todo, NotRead, "resume")
  /\ row' = [row EXCEPT ![w].status = "running"]
  /\ UNCHANGED <<manual, routes, entries, threads>>

-----------------------------------------------------------------------------
(* The poll: automatic resumption.  The pass over the pauses of the quota    *)
(* gate and the pass over those for a provider's usage window are one here.  *)

ReadMarked ==
  /\ poll.step = "resume"
  /\ poll' = Looping("resuming",
                     {w \in Workflows : row[w].status = "paused" /\ row[w].mark # "none"},
                     Read, "paused")
  /\ UNCHANGED <<table, entries, threads>>

\* The quota has recovered, or the window has reset: a blind write.  It
\* continues no process.
AutoResume(w) ==
  /\ poll.step = "resuming" /\ w \in poll.todo
  /\ poll' = Looping("resuming", poll.todo \ {w}, poll.seen, "paused")
  /\ row' = [row EXCEPT ![w].status = StatusOf(poll.seen[w].phase), ![w].mark = "none"]
  /\ abandoned' = [abandoned EXCEPT ![w] = frozen[w]]
  /\ UNCHANGED <<manual, pausing, resuming, entries, threads>>

\* It has not, or cannot be told: w stays paused until a later poll.
StayPaused(w) ==
  /\ poll.step = "resuming" /\ w \in poll.todo
  /\ poll' = Looping("resuming", poll.todo \ {w}, poll.seen, "paused")
  /\ UNCHANGED <<table, entries, threads>>

-----------------------------------------------------------------------------
(* The poll: conflict keys of paused workflows.                             *)

ReadPausedEntries ==
  /\ poll.step = "paused"
  /\ poll' = Looping("drop", {w \in inProgress : /\ row[w].status = "paused"
                                                 /\ row[w].phase # "accept"},
                     Read, "read")
  /\ UNCHANGED <<table, entries, threads>>

\* The workflow stays in inProgress, and keyMap still names its keys.
DropPausedKeys ==
  /\ poll.step = "drop"
  /\ held' = held \ UNION {ConflictKeys(w, poll.seen[w].phase) : w \in poll.todo}
  /\ poll' = At("read", {}, NotRead)
  /\ UNCHANGED <<table, inProgress, keyMap, threads>>

-----------------------------------------------------------------------------
(* The poll: what runs next.                                                *)

\* A worker acquires its lease within the ten seconds between two polls: no
\* poll reads the rows between its submission and that.  WorkflowLease has
\* what happens otherwise.
Prompt == \A w \in Workflows : worker[w] # "selected"

ReadActive ==
  /\ poll.step = "read"
  /\ Prompt
  /\ poll' = At("filter", {w \in Workflows : Leased(w)}, Read)
  /\ UNCHANGED <<table, entries, threads>>

\* Mutant: the lease of a row that was not active is not looked at.
ReapedUnlessPaused ==
  {w \in inProgress : IF poll.seen[w].status \in ActiveStatuses
                      THEN w \notin poll.todo ELSE row[w].status # "paused"}

\* _reclaim_stale_in_progress: entries with no lease behind them, by the row
\* read in this poll, or by the row now if it was not active then.
Reaped == {w \in inProgress :
             IF poll.seen[w].status \in ActiveStatuses
             THEN w \notin poll.todo
             ELSE row[w].status # "paused" /\ ~Leased(w)}

Blocked(w, seen, keys) ==
  seen.status # "waiting" /\ ConflictKeys(w, seen.phase) \cap keys # {}

FilterActive ==
  /\ poll.step = "filter"
  /\ inProgress' = inProgress \ Reaped
  /\ held' = held \ UNION {keyMap[w] : w \in Reaped}
  /\ keyMap' = [w \in Workflows |-> IF w \in Reaped THEN {} ELSE keyMap[w]]
  /\ poll' = [poll EXCEPT
        !.step = "select",
        !.todo = {w \in Workflows : /\ poll.seen[w].status \in ActiveStatuses
                                    /\ w \notin inProgress'
                                    /\ ~Blocked(w, poll.seen[w], held')}]
  /\ UNCHANGED <<table, threads>>

\* Waiting workflows come last, then the order of creation decides.
Before(v, w) ==
  LET waits(u) == poll.seen[u].status = "waiting"
  IN  (~waits(v) /\ waits(w)) \/ (waits(v) = waits(w) /\ Rank[v] < Rank[w])

OwnedBy(user, set) == {w \in set : OwnerOf[w] = user}

\* Mutant: slots taken in this selection are not counted.
FitsUncounted(w, first) ==
  /\ Cardinality(inProgress) < Cap
  /\ Cardinality(OwnedBy(OwnerOf[w], inProgress)) < UserCap
  /\ ~Blocked(w, poll.seen[w], UNION {ConflictKeys(v, poll.seen[v].phase) : v \in first})

\* w gets a slot when the workflows in first have got theirs.
Fits(w, first) ==
  /\ Cardinality(inProgress) + Cardinality(first) < Cap
  /\ Cardinality(OwnedBy(OwnerOf[w], inProgress))
       + Cardinality(OwnedBy(OwnerOf[w], first)) < UserCap
  /\ ~Blocked(w, poll.seen[w], UNION {ConflictKeys(v, poll.seen[v].phase) : v \in first})

\* The one selection in which every candidate was judged after those before it.
IsSelection(chosen) ==
  \A w \in poll.todo : w \in chosen <=> Fits(w, {v \in chosen : Before(v, w)})

\* What the entry of a selected workflow reserves.
Reserved(w) ==
  IF poll.seen[w].status = "waiting" THEN {} ELSE ConflictKeys(w, poll.seen[w].phase)

Select ==
  /\ poll.step = "select"
  /\ \E chosen \in SUBSET poll.todo :
       /\ IsSelection(chosen)
       /\ inProgress' = inProgress \cup chosen
       /\ keyMap' = [w \in Workflows |-> IF w \in chosen THEN Reserved(w) ELSE keyMap[w]]
       /\ held' = held \cup UNION {Reserved(w) : w \in chosen}
       /\ worker' = [w \in Workflows |-> IF w \in chosen THEN "selected" ELSE worker[w]]
  /\ poll' = At("promote", {}, NotRead)
  /\ UNCHANGED <<table, work, frozen>>

Poll ==
  \/ ReadQueued \/ \E w \in Workflows : CheckBatch(w) \/ Promote(w)
  \/ ReadMarked \/ \E w \in Workflows : AutoResume(w) \/ StayPaused(w)
  \/ ReadPausedEntries \/ DropPausedKeys
  \/ ReadActive \/ FilterActive \/ Select

-----------------------------------------------------------------------------
(* Worker threads: _advance_single and one phase of the orchestrator.        *)

Goes(w, from, to) == worker[w] = from /\ worker' = [worker EXCEPT ![w] = to]

AcquireLease(w) ==
  /\ Goes(w, "selected", "gate")
  /\ UNCHANGED <<table, work, frozen, entries, poll>>

\* acquire_lock raises outside of both try blocks: the thread is gone, its
\* entry stays for the reaper.
AcquireRaises(w) ==
  /\ "raise" \in Moves
  /\ Goes(w, "selected", "idle")
  /\ UNCHANGED <<table, work, frozen, entries, poll>>

PauseForQuota(w) ==
  /\ "quota" \in Moves
  /\ Goes(w, "gate", "leave")
  /\ row' = [row EXCEPT ![w].status = "paused", ![w].mark = "quota"]
  /\ manual' = [manual EXCEPT ![w] = FALSE]
  /\ UNCHANGED <<work, frozen, routes, entries, poll>>

\* Within quota: advance() reads the row again, and returns at once if it is
\* not to be advanced; a completed or timed-out row is not turned back.
TurnedBack(w) == row[w].status \in {"paused", "failed", "cancelled"}

Enter(w) ==
  /\ ~TurnedBack(w)
  /\ Goes(w, "gate", "phase")
  /\ work' = [work EXCEPT ![w] = row[w].phase]
  /\ UNCHANGED <<table, frozen, entries, poll>>

Return(w) ==
  /\ TurnedBack(w)
  /\ Goes(w, "gate", "leave")
  /\ UNCHANGED <<table, work, frozen, entries, poll>>

StartAgent(w) ==
  /\ work[w] # "wait"
  /\ Goes(w, "phase", "agent")
  /\ UNCHANGED <<table, work, frozen, entries, poll>>

\* After each agent run the retry loop of _run_agent looks at the status and
\* leaves the phase of a paused workflow without writing to it.
AgentEnds(w) ==
  /\ ~frozen[w]
  /\ Goes(w, "agent", IF row[w].status = "paused" THEN "leave" ELSE "phase")
  /\ UNCHANGED <<table, work, frozen, entries, poll>>

\* Mutant: the phase is written where the status belongs.
RestAsPhase(r, phase) == [r EXCEPT !.status = phase, !.phase = phase]

Rest(r, phase) == [r EXCEPT !.status = StatusOf(phase), !.phase = phase]
Settle(r, status) == [r EXCEPT !.status = status, !.mark = "none"]

\* What the phase handler may write.  A transient error leaves the status, a
\* review that finds nothing to do completes the workflow, and a git phase may
\* suspend it: until a usage window resets, or for an operator to look at.
Results(w) ==
  LET r == row[w] IN
  {r, Settle(r, r.status), Settle(r, "failed")} \cup
  CASE work[w] = "work" ->
         {Rest(r, "work"), Rest(r, "wait"), Rest(r, "accept"), Settle(r, "timeout"),
          Settle(r, "completed")}
           \cup (IF "suspend" \in Moves
                 THEN {Settle(r, "paused"), [r EXCEPT !.status = "paused", !.mark = "window"]}
                 ELSE {})
    [] work[w] = "wait" -> {Rest(r, "wait"), Rest(r, "work")}
    [] work[w] = "accept" ->
         {[Settle(r, "completed") EXCEPT !.verdict = TRUE],
          [Settle(r, "paused") EXCEPT !.verdict = TRUE]}

\* The write is conditional on the lease only, which this worker has.
Finish(w, result) ==
  /\ result \in Results(w)
  /\ Goes(w, "phase", "leave")
  /\ row' = [row EXCEPT ![w] = result]
  /\ UNCHANGED <<manual, routes, work, frozen, entries, poll>>

\* Mutant: the batch id is not released.
DropGitKeys(w) ==
  /\ inProgress' = inProgress \ {w}
  /\ held' = held \ (keyMap[w] \ Batches)
  /\ keyMap' = [keyMap EXCEPT ![w] = {}]

Drop(w) ==
  /\ inProgress' = inProgress \ {w}
  /\ held' = held \ keyMap[w]
  /\ keyMap' = [keyMap EXCEPT ![w] = {}]

\* The finally block: release of the lease, then discard of the entry.
Discard(w) ==
  /\ Goes(w, "leave", "idle")
  /\ Drop(w)
  /\ UNCHANGED <<table, work, frozen, poll>>

Worker(w) ==
  \/ AcquireLease(w) \/ AcquireRaises(w) \/ PauseForQuota(w)
  \/ Enter(w) \/ Return(w) \/ StartAgent(w) \/ AgentEnds(w)
  \/ \E result \in Results(w) : Finish(w, result)
  \/ Discard(w)

-----------------------------------------------------------------------------
(* Operators: the routes.  The pause and the resume route act on the agent    *)
(* and write the row in steps of their own, one request of each kind for a    *)
(* workflow at a time; the other routes write once.                           *)

\* The scheduler's orchestrator, if it runs a phase, saves its retry counters
\* before the signal and writes the status along with them.
PauseReads(w) ==
  /\ "pause" \in Moves
  /\ row[w].status # "paused" /\ pausing[w] = "no"
  /\ pausing' = [pausing EXCEPT ![w] = "signal"]
  /\ \/ UNCHANGED row
     \/ /\ worker[w] \in {"phase", "agent"} /\ row[w].status = "running"
        /\ row' = [row EXCEPT ![w].status = "paused"]
  /\ UNCHANGED <<manual, abandoned, resuming, threads, entries, poll>>

\* SIGSTOP for the agent that runs now.
PauseSignals(w) ==
  /\ pausing[w] = "signal"
  /\ pausing' = [pausing EXCEPT ![w] = "write"]
  /\ frozen' = [frozen EXCEPT ![w] = AgentPid(w)]
  /\ UNCHANGED <<row, manual, abandoned, resuming, worker, work, entries, poll>>

\* A resume that is past its SIGCONT will undo the pause without another one.
PauseWrites(w) ==
  /\ pausing[w] = "write"
  /\ pausing' = [pausing EXCEPT ![w] = "no"]
  /\ row' = [row EXCEPT ![w].status = "paused"]
  /\ manual' = [manual EXCEPT ![w] = TRUE]
  /\ abandoned' = [abandoned EXCEPT ![w] = frozen[w] /\ resuming[w] # {}]
  /\ UNCHANGED <<resuming, threads, entries, poll>>

\* Mutant: the agent gets no SIGCONT.
ResumeSignalsNothing(w) ==
  /\ "resume" \in Moves
  /\ row[w].status = "paused" /\ resuming[w] = {}
  /\ resuming' = [resuming EXCEPT ![w] = {[phase |-> row[w].phase, mark |-> row[w].mark]}]
  /\ UNCHANGED <<row, manual, abandoned, pausing, threads, entries, poll>>

\* SIGCONT, for the row that was read.
ResumeSignals(w) ==
  /\ "resume" \in Moves
  /\ row[w].status = "paused" /\ resuming[w] = {}
  /\ resuming' = [resuming EXCEPT ![w] = {[phase |-> row[w].phase, mark |-> row[w].mark]}]
  /\ frozen' = [frozen EXCEPT ![w] = FALSE]
  /\ abandoned' = [abandoned EXCEPT ![w] = FALSE]
  /\ UNCHANGED <<row, manual, pausing, worker, work, entries, poll>>

\* The reason of a provider's pause is cleared, that of the quota gate stays.
ResumeWrites(w) ==
  /\ \E read \in resuming[w] :
       row' = [row EXCEPT ![w].status = StatusOf(read.phase),
                          ![w].mark = IF read.mark = "window" THEN "none" ELSE @]
  /\ resuming' = [resuming EXCEPT ![w] = {}]
  /\ manual' = [manual EXCEPT ![w] = FALSE]
  /\ UNCHANGED <<abandoned, pausing, threads, entries, poll>>

\* Kills the agent, cancels the workflow and what is queued in its batch.
Stop(w) ==
  /\ "stop" \in Moves
  /\ row' = [v \in Workflows |->
               IF v = w \/ (v \in Siblings(w) /\ row[v].status = "queued")
               THEN [row[v] EXCEPT !.status = "cancelled"] ELSE row[v]]
  /\ worker' = [worker EXCEPT ![w] = IF AgentPid(w) THEN "phase" ELSE @]
  /\ frozen' = [frozen EXCEPT ![w] = FALSE]
  /\ manual' = [manual EXCEPT ![w] = FALSE]
  /\ abandoned' = [abandoned EXCEPT ![w] = FALSE]
  /\ UNCHANGED <<pausing, resuming, work, entries, poll>>

\* mark_done: on to the merge phase, whatever the status, and no signal.
Done(w) ==
  /\ "done" \in Moves
  /\ row' = [row EXCEPT ![w] = Rest(@, "work")]
  /\ manual' = [manual EXCEPT ![w] = FALSE]
  /\ abandoned' = [abandoned EXCEPT ![w] = frozen[w]]
  /\ UNCHANGED <<pausing, resuming, threads, entries, poll>>

\* The keys clear_in_progress releases: those of the entry or, for want of
\* any, those of the row, for entries older than the key map.
Cleared(w) == IF keyMap[w] # {} THEN keyMap[w] ELSE ConflictKeys(w, row[w].phase)

\* clear_in_progress and a blind write.  A retry that finds the worker of
\* the failed advance still unwinding is in WorkflowLease.
Retry(w) ==
  /\ "retry" \in Moves
  /\ row[w].status \in {"failed", "timeout"}
  /\ worker[w] = "idle"
  /\ inProgress' = inProgress \ {w}
  /\ held' = held \ Cleared(w)
  /\ keyMap' = [keyMap EXCEPT ![w] = {}]
  /\ row' = [row EXCEPT ![w].status = StatusOf(row[w].phase), ![w].mark = "none"]
  /\ UNCHANGED <<manual, routes, threads, poll>>

Pause(w) == PauseReads(w) \/ PauseSignals(w) \/ PauseWrites(w)
Resume(w) == ResumeSignals(w) \/ ResumeWrites(w)
Operator(w) == Pause(w) \/ Resume(w) \/ Stop(w) \/ Done(w) \/ Retry(w)

Next == Poll \/ \E w \in Workflows : Worker(w) \/ Operator(w)

Spec == Init /\ [][Next]_vars
-----------------------------------------------------------------------------
(* Fairness.  The poll thread and the worker threads run on; an agent that   *)
(* is not frozen ends.  Settling: rounds, repairs and retries are bounded, so *)
(* phases with an agent are not run for ever, one that would be fails; a      *)
(* waiting workflow may be polled for ever.                                   *)

Settling(w) ==
  /\ work[w] # "wait"
  /\ \E result \in Results(w) : result.status = "failed" /\ Finish(w, result)

Fairness ==
  /\ WF_vars(Poll)
  /\ \A w \in Workflows : WF_vars(Worker(w)) /\ SF_vars(Settling(w))

FairSpec == Spec /\ Fairness

\* The same where acquire_lock may raise, though not at every try.
FairSpecOfRaises == FairSpec /\ \A w \in Workflows : SF_vars(AcquireLease(w))

-----------------------------------------------------------------------------
(* Properties                                                               *)

\* Each variable keeps to its type: the columns of the table, the sets of
\* the scheduler and the steps of its threads.
TypeOK ==
  /\ row \in [Workflows -> Rows]
  /\ worker \in [Workflows -> {"idle", "selected", "gate", "phase", "agent", "leave"}]
  /\ work \in [Workflows -> Phases]
  /\ frozen \in [Workflows -> BOOLEAN]
  /\ manual \in [Workflows -> BOOLEAN] /\ abandoned \in [Workflows -> BOOLEAN]
  /\ pausing \in [Workflows -> {"no", "signal", "write"}]
  /\ resuming \in [Workflows -> SUBSET [phase : Phases, mark : Marks]]
  /\ inProgress \subseteq Workflows
  /\ keyMap \in [Workflows -> SUBSET Keys] /\ held \subseteq Keys
  /\ poll \in [step : PollSteps, todo : SUBSET Workflows, pick : SUBSET Workflows,
               seen : [Workflows -> [status : Statuses, phase : Phases]]]

\* The sets that block a selection hold what the entries reserved, no more
\* and no less, and no key is reserved twice: nobody starves on a leaked key
\* and no teardown frees the key of another entry.
ReservationsBalance ==
  /\ held = UNION {keyMap[w] : w \in inProgress}
  /\ \A v, w \in inProgress : v # w => keyMap[v] \cap keyMap[w] = {}

Busy == {w \in Workflows : worker[w] # "idle"}

\* A thread that still runs for a workflow, frozen or in its last write, has
\* its entry: no poll hands a second thread the same workflow.
EveryThreadHasEntry == Busy \subseteq inProgress

\* A stopped process belongs to a workflow that is paused, or about to be
\* written so, whose resumption continues it; there is no other way back for
\* its worker, its entry and its lease.  Only mark_done, the pass over quota
\* pauses and a resume that sent its SIGCONT before leave one behind.
FrozenOnlyWhilePaused ==
  \A w \in Workflows :
    frozen[w] => row[w].status = "paused" \/ pausing[w] = "write" \/ abandoned[w]

\* The threads of the pool that work for somebody, not only the entries,
\* stay within the global cap and within the cap of each owner.
WithinCaps ==
  /\ Cardinality(Busy) <= Cap
  /\ \A user \in Users : Cardinality(OwnedBy(user, Busy)) <= UserCap

InGit(w) == worker[w] \in {"phase", "agent"} /\ work[w] = "work"
ShareTree(v, w) == v # w /\ KeysOf[v] \cap KeysOf[w] # {}

\* Two workers run git phases in one workspace, on one branch or for one batch
\* only if one of them was selected from a row that read "waiting", which
\* reserves nothing: the filter and the reservations of one selection leave
\* no other way.
OnlyWaitersBypass ==
  \A v, w \in Workflows :
    (ShareTree(v, w) \/ w \in Siblings(v) \ {v}) /\ InGit(v) /\ InGit(w)
      => keyMap[v] = {} \/ keyMap[w] = {}

\* A workflow that is queued or to be advanced gets out of that state: the
\* promotion of a batch, the conflict keys, the slots and the order of the
\* selection never leave it behind for ever.
Due(w) == row[w].status \in {"queued", "running"}
EveryoneGetsATurn == \A w \in Workflows : Due(w) ~> ~Due(w)

-----------------------------------------------------------------------------
(* What the repository says of the program and the program does not do.      *)

\* _process_workflows "ensures only one workflow per project_path is processed
\* at a time": no two workers are in a git phase of one workspace or branch.
OneGitWorkerPerTree == \A v, w \in Workflows : ShareTree(v, w) => ~(InGit(v) /\ InGit(w))

\* _discard_in_progress_entry releases "never a key a different workflow
\* holds": keys that another entry has reserved stay reserved.
ReleasesOwnKeys ==
  [][\A v, w \in Workflows :
       Discard(v) /\ v # w /\ w \in inProgress => keyMap[w] \cap held \subseteq held']_vars

\* clear_in_progress tears the entry of the retried workflow down the same way:
\* "never a key a different workflow holds".
RetryReleasesOwnKeys ==
  [][\A v, w \in Workflows :
       Retry(v) /\ v # w /\ w \in inProgress => keyMap[w] \cap held \subseteq held']_vars

\* _auto_resume_quota_paused considers only workflows "paused by the quota
\* gate", "a user's manual pause is never auto-resumed".
ManualPauseNotAutoResumed ==
  [][ReadMarked => \A w \in poll'.todo : ~manual[w]]_vars

\* "Pause freezes" the agent and "Resume continues the frozen process": no
\* agent stays frozen under a row that is not paused, where resume_workflow
\* answers "Workflow is not paused".
FrozenAgentsCanResume ==
  \A w \in Workflows : frozen[w] => row[w].status = "paused" \/ pausing[w] = "write"

\* A pause must not disappear while a workflow is active: the write of the
\* phase that was in flight leaves a paused row paused.
PauseSurvivesAdvance ==
  [][\A w \in Workflows : Worker(w) /\ manual[w] => row'[w].status = "paused"]_vars

\* A stop "marks the workflow cancelled": neither the quota gate nor the write
\* of the phase that was in flight makes it anything else.
StopSurvivesAdvance ==
  [][\A w \in Workflows :
       Worker(w) /\ row[w].status = "cancelled" => row'[w].status = "cancelled"]_vars

\* "A stopped batch must not resurrect itself": _promote_queued_workflows makes
\* no cancelled workflow pending.
StoppedNotPromoted ==
  [][\A w \in Workflows : Promote(w) => row[w].status # "cancelled"]_vars

\* A workflow whose planning timed out "awaits extension or retry": no worker
\* runs its phase again before that.
TimeoutAwaitsOperator ==
  [][\A w \in Workflows : Enter(w) => row[w].status # "timeout"]_vars

\* "An entry with no live lease behind it is fiction: reap it": an entry
\* without a thread does not stay.
LeakedEntriesGo ==
  \A w \in Workflows : w \in inProgress /\ worker[w] = "idle" ~> w \notin inProgress

\* A batch is run in its order: no agent of a batch runs while an earlier
\* workflow of the batch is queued.
QueuedStaysBehind ==
  \A w \in Workflows :
    worker[w] = "agent" => \A v \in Earlier(w) : row[v].status # "queued"

\* Past the merge "the next sibling is free to start" (_slot_released): a
\* verifying workflow holds no key that its promoted sibling needs.
SiblingFree ==
  \A v, w \in Workflows :
    /\ w \in Siblings(v) /\ v # w
    /\ v \in inProgress /\ worker[v] = "agent" /\ work[v] = "accept" /\ SlotReleased(v)
    /\ row[w].status = "running"
    => ConflictKeys(w, row[w].phase) \cap held \cap keyMap[v] = {}
=============================================================================
