# Open ACE in TLA+

Open ACE is a multi-tenant server that runs AI coding agents, meters them and
develops software with them on its own ("autonomous workflows"). This directory
holds TLA+ models of the parts of it that several threads, processes and hosts
share, the TLC runs that check them on small instances, and TLAPS proofs of the
results that hold for every instance.

Contents: [Inventory](#inventory) · [Modules](#modules) · [Runs](#runs) ·
[Disagreements](#where-the-code-and-its-documentation-disagree) ·
[Proofs](#proofs) · [Limits](#what-is-not-modelled) · [Plan](#plan)

Paths are relative to the repository; `src/` stands for its root.

## Inventory

The server is a Flask application in layers (routes, services, repositories,
one SQL database: SQLite or PostgreSQL). Several gunicorn workers and a
scheduler process run it at the same time and share nothing but the database.

| Part | State it keeps | Operations | What is hard, and what makes it correct |
|---|---|---|---|
| Scheduler leases (`services/leader_election.py`, `distributed_scheduler.py`) | a row of `scheduler_leaders` per job; `_is_leader`, a heartbeat thread | acquire, renew, release, run a job | takeover races with renewal and release; a crash leaves the row. At most one leader within its lease; a dead leader is replaced |
| Workflow lease (`repositories/autonomous_repo.py`, `services/autonomous_scheduler.py`) | `locked_at`, `locked_by`, `agent_pid` of a workflow; events of the worker and its heartbeat | acquire, refresh, release, cleanup lock, retry | superseded workers that go on, late heartbeats, crashes, shutdown. One advance at a time; a superseded one disturbs nobody |
| Poll loop (`services/autonomous_scheduler.py`) | in-progress ids by user, conflict keys, key map, thread pool | promote, auto-resume, reclaim, filter, select, submit, discard | decides on rows read earlier, while workers and routes write. Caps, one worker per workflow, disjoint keys, no starvation |
| Workflow routes (`routes/autonomous.py`) | none: they write rows and signal agents | create, pause, resume, stop, retry, mark done, delete, feedback, extend timeout, fork | blind writes between a read and a write of the others. An operator's decision is not undone |
| Orchestrator (`modules/workspace/autonomous/orchestrator.py`, `phases/`) | phase, rounds, milestones, verification columns | advance one phase, commit a result, clean up | a row read at the start and written at the end. A result is committed by the lease's owner only |
| Merge-conflict worktree transitions (`git_workspace.py`) | a journal in the row, `worktree_path`, Git's registry of worktrees, directories | remove the own worktree, attach a temporary one, resolve, restore; reconcile | a kill between any two Git commands or writes; a failing command in the undo itself. Nobody works in the wrong checkout, and what was interrupted is undone or fails |
| Agent token rotation (`remote_agent_manager.py`, `pending_revoke_cleanup.py`, `remote-agent/agent.py`, `config.py`) | `agent_tokens`, `remote_commands`, a queue in memory; the agent's file and memory | rotate, push, poll, take, confirm, revoke | lost requests and replies, commands delivered twice or late, crashes on either side, two timeouts. The agent is never locked out by a rotation and never returns to an old token |
| Agent runner, sandboxes, GitHub operations | subprocesses, session ids, pids | run, pause (SIGSTOP), resume, kill, git and API calls | processes that outlive their thread |
| Execution guard (`services/scheduler_guard.py`) | guard rows, heartbeat thread | guarded execution of a job | a second lease protocol, with its own renewal rule |
| Background jobs (data fetch, quota enforcement, revocation and SSO cleanup, health monitor) | their tables | periodic runs under a scheduler lease | a job that outlives its lease runs twice |
| Alert transactions, notifier, compensation worker | alerts, failures to repeat | change state and notify, compensate | one of two writes fails; compensation repeats what succeeded |
| Deregistration compensation | outbox with retry counters | retry, give up | backoff, restart in between |
| Quota manager, usage sink and deduplication | counters, usage records, request keys | record, check, enforce | duplicates and late records; a check on a stale sum |
| Remote agent manager, session managers, agent daemon | machines, command queues, sessions | register, poll, deliver, acknowledge, sync | lost and repeated polls, offline agents, restarts on either side |
| Terminal and relay stores, WebSocket bridges | ring buffers, relay rows | append, read from a position, expire | a reader and a writer in different processes |
| LLM proxy, API key router, model gateway | keys, tenant configuration caches | forward, choose a key, fail over | stale caches |
| Web UI manager and sandboxes | instances, ports, processes | start, stop, reconcile | processes that do not match the table |
| Run timeline, policy engine | events, approvals; rules and a cache | record, approve; evaluate | approvals decided twice; stale rules |
| SSO, authentication, tenants, organisation sync, encryption keys | users, sessions, keys | login, import, rotate | rotation interrupted half-way |
| Analytics, reports, frontend, scripts, deployment | none of their own | queries, presentation, tooling | - |

Interactions. The poll loop hands workflows to worker threads; a worker takes
the workflow lease, starts a heartbeat thread for it, and runs the orchestrator,
which starts agents through the runner, records usage and commits to the row.
Routes write to the same rows and signal the same agents, from other processes.
The quota manager's answer decides whether a worker goes on. Scheduler leases
decide which process runs a periodic job. Remote agents talk to the routes over
polling HTTP and WebSockets.

`PROJECT.json` lists every part with what is modelled of it, and every hazard
with its line.

## Modules

| Module | Models | Composition |
|---|---|---|
| `ExclusiveLease` | what a lease promises, abstractly | implemented by the next two |
| `SchedulerLease` | one `scheduler_leaders` row and the clients that compete for it | `INSTANCE ExclusiveLease` |
| `WorkflowLease` | one workflow's lease, its workers, heartbeats, sweeps, routes and processes | `INSTANCE ExclusiveLease`; the row's lease of the next module in full detail |
| `WorkflowScheduler` | the poll loop, its worker threads and the routes over many workflows | takes from `WorkflowLease` that a lease is held from acquire to release |
| `WorkflowPhases` | the phase handlers of one workflow, its counters, pull requests and verdicts | what `WorkflowScheduler` calls the phase `"work"`; takes from it that one worker advances a workflow |
| `WorktreeTransition` | the worktree of one workflow while merge conflicts are resolved | the merge phase's conflict path, and what precedes every phase in `advance()` |
| `AgentToken` | the rotation of a remote agent's token, server and agent | |
| `MC…` | the instances for TLC | |
| `…_proofs` | the theorems about the six modules from `SchedulerLease` to `AgentToken` | extends the module it is about |
| `AgentAccess_proofs` | the theorems about time in a rotation | extends `AgentToken_proofs` |

Each definition that translates code is in the `map` of `PROJECT.json` with its
lines. Operators named after a mutation ("Mutant: …", "Mutation: …") are
deliberately wrong variants of a definition, next to it; nothing uses them but
the mutation runs listed in `PROJECT.json`.

### ExclusiveLease

Two variables: `owner`, whom the lease belongs to now, and `inside`, who does
the guarded work within the time he was granted. A lease is granted only when it
is nobody's and nobody is inside, and ends for its owner and his work at once.
`SchedulerLease` maps the leader of a live row to `owner` and the clients in the
job within their term to `inside`; `WorkflowLease` maps the holder of a live
lock and the actors that work within their term. A worker that outlives
its lease is outside `inside` and is the subject of those modules.

### SchedulerLease

One client is one `LeaderElectionClient`: the thread that runs the job (`pc`)
and its daemon heartbeat thread (`heartbeat`). Every SQL statement is one step
and may fail. `row` is the table row; `isLeader` and `stopping` are the object's
fields; `term` is a ghost: what is left of the lease the client was granted.

Time is the remaining life of the row, counted down by `Tick`. `expires_at` is
the current time *with the seconds cut off* plus `lock_timeout`, so a fresh
lease lives for any of `FreshTerms` ticks. The heartbeat writes `heartbeat_at`
only, and a takeover looks at `expires_at` only, exactly as the SQL does.
`ReturnEarly` is the path through the alert compensation worker that leaves the
job without releasing. Jobs may hang (`FinishJob` has no fairness), and a
client may crash at any step; a restarted process is another client.

Abstractions: hosts agree on the time; a client object is used again only once
its previous heartbeat thread has ended (the join gives up after 5 s, see the
hazard at `leader_election.py:437`); `record_run` counters and the health
queries are left out.

### WorkflowLease

One workflow, several processes. An actor is a worker thread in
`_advance_single` or a scheduler thread in the Git cleanup sweep. `holder` is
the ghost identity of whoever acquired the lease; the SQL sees `Owner[holder]`,
the `locked_by` string, and `Owns` compares strings, as the fences do. `age` is
the time since `locked_at`, `since[a]` the time since actor `a` was last told
that it holds the lease; an actor is `InTerm` until that reaches the timeout.

Actions follow the lines of `_advance_single`: select, acquire or skip, quota
pause, register the orchestrator, enter `advance()`, prepare, launch and
register the agent, `EnsureLock` before a commit, `Persist`, removal of the
worktree of a failed workflow, stop of the heartbeat, conditional clear of the
pid, release and discard. `AcquireRaises` is an `acquire_lock` that raises, before its
UPDATE or after the COMMIT: it is called between the two `try` blocks
(`autonomous_scheduler.py:824`), so the thread is gone, its entry stays and the lease may
be taken; the ghost `leaked` marks such an entry until something drops it. The heartbeat
thread waits, refreshes, and on a lost lease marks it and stops the orchestrator it
finds under the workflow's id. The self-healing pass, graceful shutdown, crash of a
process and the sweep are actions of their own.

Routes write the status without a look at the lease: pause, resume, stop and done
in one step each, retry in two (release of the lock, then the status), and the
verification override in two, `OverrideDecides` on a paused row and
`OverrideWrites`, which completes the workflow whoever has resumed it in between. The
ghost `overtaken` has the workers whose workflow was completed by somebody else
while, or before, they entered a phase; `advance()` turns back paused, failed and
cancelled rows only.

Abstractions: a pool thread takes its next advance only after the heartbeat of
its previous one has ended; conflict keys are left to `WorkflowScheduler`; the
backoff of the cleanup is nondeterministic. `MayStop` and `MayCrash` bound which
processes stop or die, `Moves` which routes are used.

### WorkflowScheduler

`row` is the table (status, phase, whether a verdict exists, and the part of
`error_message` that the code looks for); `inProgress`, `keyMap` and `held` are
`_in_progress_ids`, `_in_progress_key_map` and the three sets of reserved keys;
`worker` and `work` are the thread of each workflow and the phase its
`advance()` read; `frozen` says that its agent is stopped by SIGSTOP; `pausing` and
`resuming` are where a pause and a resume request are; `poll` is
the scheduler thread with what it has read so far; `manual` and `abandoned` are
ghosts.

A poll is a sequence of steps, each a separate action, and between any two of
them workers and routes may write: read the batch heads, check and promote each
(`ReadQueued`, `CheckBatch`, `Promote`), read and resume pauses (`ReadMarked`,
`AutoResume`, `StayPaused`), read the paused entries and drop their keys
(`ReadPausedEntries`, `DropPausedKeys`), read the active rows (`ReadActive`),
reap and filter (`FilterActive`), select, reserve and submit (`Select`).
`IsSelection` says declaratively what the selection loop computes: the one set
in which every candidate, in the order of the sort, was judged against the slots
and keys taken before it.

`Results` is the set of rows a phase may commit, by outcome of
`_commit_phase_result` and of the legacy writes. `Finish` writes one of them
over the row as it is then, conditional on nothing but the lease.

The pause route is three steps: it reads the row (and, in the scheduler's own process, has
the orchestrator save its counters), stops the agent, and writes the row
(`PauseReads`, `PauseSignals`, `PauseWrites`). Resume is two, SIGCONT and the write of
what it read (`ResumeSignals`, `ResumeWrites`). Workers, the poll and the other
routes come in between. `Done` writes the merge phase and signals nobody.
`AcquireRaises` leaves an entry without a thread, as in `WorkflowLease`.

Abstractions:

- The statuses of `RUNNING_BATCH_STATUSES` are one, `"running"`, and the phases
  from preparation to merge are one, `"work"`: the scheduler treats them alike.
  `WorkflowPhases` is the orchestrator's own machine.
- A workflow's workspace and branch do not change, and its owner is known.
- One worker per workflow at a time, which `EveryThreadHasEntry` justifies, and
  a submitted worker acquires its lease before the next poll reads the rows
  (`Prompt`); `WorkflowLease` has the case in which it does not.
- Release of the lease and discard of the entry are one step, as are the quota
  check and the read of the row behind it, and reaping and filtering.
- The passes over quota pauses and over usage-window pauses are one.
- Stop, done and retry are one step each, one pause and one resume request are under
  way for a workflow at a time, and retry is taken with the worker idle only
  (`WorkflowLease` has the other case). The retry counters are not kept.
- `Moves` says which routes are used; `"suspend"` lets a git phase pause its own
  workflow (usage window, hard quota, merge policy), `"quota"` the gate before it,
  and `"raise"` lets `acquire_lock` raise.

### WorkflowPhases

`row` is the workflow's row: status, phase, the rounds, a dozen retry counters,
the pull request, the recorded merge commit (`sha`), the verdict with the
report it was written with, and `note`, the prefix of `error_message` by which the
CI repair tells a new round from one it deferred. `wf` is the row as the running
`advance()` read it; a handler counts with `wf` and writes to `row`, and routes
write to `row` in between. `last`, `done` and `asked` are what `_do_wait` finds
among the milestones; `prs`, `open`, `merged` and `ahead` are GitHub's side. A
merge commit carries the number of its request.

Actions follow the handlers: each has a step that reads and decides, and one per
way of ending. Inside a handler there is a separate step (`"agent"`) wherever an
agent runs, since that is where hours pass. `Slot`, `Counted` and `Exhausted`
are the counters of `_start_ci_repair_round`; `RepairOutcomes` are the ways in
which the repair ends. `NetError`, `Error` and `QuotaPause` are the exceptions
that `advance()` handles for every phase. Each route is one atomic action;
`"kill"` ends the process inside a handler.

With acceptance verification switched off (`app/utils/config.py:79`), a switch that is
read at each run, acceptance completes without a verdict: `AcceptUnverified`, which the
event `"unverified"` allows.

Ghosts: `agreed` (merges asked for by auto_merge, a comment or `done`), `jumped`
(requests that a repair or feedback took to the merge phase), `accepted` (merge
commits confirmed), `waived` (merge commits there were when acceptance completed
with the verification off), `reopened` and `renewed` (see the disagreements).

Abstractions: what agents answer, what GitHub's checks say and whether the
branch moved are nondeterministic; plan and review texts, attachments, forks and
comments on issues are left out; one worker at a time (`WorkflowLease`). Rounds,
pull requests and interventions are capped by `MaxRound`, `MaxPr`, `MaxEvents`.

### WorktreeTransition

Three worktrees: the primary checkout (`"main"`), the workflow's own (`"home"`) and
the resolver's (`"temp"`). `tree` is what Git's registry has checked out in each,
`gone` the registered ones whose directory is missing, `row.state` the journal.
Every Git command and every write of the row is a step; each command may fail
(`MayFail`), and the process may be killed before and after each, and inside `git
worktree remove`, which deletes the directory before the registration. `"worker"` is
`advance()`: reconcile, `ensure_worktree`, then an agent or the resolver. It reads
the row twice: `phase`, by which it dispatches, is `current_phase` at its start, and
`wf`, by which `ensure_worktree` decides, is the row as it was last read: at the
start or, if a transition was reconciled, after that. The phases are planning, whose
agents run in the project's checkout when there is no worktree and which
`ensure_worktree` leaves alone, development (with `pr_review`) and merge.
`"starter"` is `_reconcile_pending_transitions` of a process that starts; with
`Overlap` it may run beside a living worker, as nothing in the code excludes. The
reconciliation works from what Git reports and not from the journal alone, as the
code does.

### AgentToken

One machine. `tok` is `agent_tokens`, `cmd` the `rotate_token` command of each token
in `remote_commands`, `memq` the queue in memory for a command that could not be
persisted, `agent`, `disk` and `bak` the agent's memory, its file `config.json` and
the backup of it. A rotation is three steps of the server (`Rotate`, `Issue`,
`Push`), because the new token is inserted after the first transaction has ended.
The agent polls with the token it has, and takes a command in three writes (token,
version, confirmation with three attempts). `Claim` is `_claim_persisted_commands`:
expiry, redelivery after `ClaimTimeout`, older commands superseded by the newest.

A start of the agent reads the file, or the token that `OPENACE_AGENT_TOKEN` gives
(`Pinned`: that of the registration), which overrides the file at every start
(`remote-agent/config.py:144`). An edit that leaves the file's checksum line as it was is
dropped for the backup (`"mismatch"`), which is the file before the latest write.

Time is in ticks. Polls take seconds and timeouts minutes, so a tick passes only
when no request of an operator is under way and the agent, if it runs, has polled
since the last tick and has nothing left to do. `Faults` are what may be lost: a
request, its reply, the agent's process, a write to its disk, the server's
process between two steps, a write to the command table, and a report whose
answer carries commands the agent does not read; and an operator's edit of the agent's
file, without the checksum line or with the old one.

Ghosts: `cut` (access ended by an operator's revocation, by a second rotation
before the first was taken, by a crash inside a rotation, or while the agent was
down for the whole grace period) and `gone` (tokens revoked by a confirmation).
`Degraded` marks a command that had to be queued in memory: such a command is
delivered without the filter for superseded ones, and may bring back a token
that was replaced.

Abstractions: a token is its index; other commands, sessions and heartbeats are
left out; deregistration is not part of this module. An operator's edit of the
agent's file takes a token that a rotation returned and that is live; it counts
as a fault, so that `MaxFaults` bounds what happens to an agent beyond the
protocol. A backup that is itself unreadable, from which the code starts
with its defaults, is left out.

## Runs

TLC explores all reachable states of each run that passes. Deadlock is checked
in all but the runs of `WorkflowLease`, where all processes may have stopped or
died, and of `WorkflowPhases` and `WorktreeTransition`, where a completed or
failed workflow has nothing left to do once the interventions are used up.

| Run | Instance | States | Shows |
|---|---|---|---|
| `lease` | 2 clients, one may return early; lease 3 ticks, minute 2; fairness | 20,558 | `ExclusiveWithinTerm`: no two clients are in the job within their terms. `EntitledOwnsRow`: the row is theirs and lives exactly as long. `LiveRowEndsByRelease`: a live row goes only by its leader's own DELETE. `ImplementsLease`; `DeposedLearns`, `Failover` |
| `wf_lease` | 2 processes with a worker each, one may be killed; retry and resume | 3,349,301 | `TermOwnsLock`, `ExclusiveWork`, `HolderUndisturbed`, `ImplementsLease`. `EntryHasWorker`: only an `acquire_lock` that raised leaves an entry without a thread |
| `wf_recovery` | a worker and a sweep in 2 processes, both may die and one stop; every route but retry; fairness | 187,206 | `SweepBreaksNoAdvance`: the sweep takes the lease away from no advance that is in a phase, overdue or not, unless somebody else completed its workflow. `Recovered`. `LeakReaped`: an entry without a thread goes, although its `acquire_lock` took the lease, unless its process stops or its workflow is paused |
| `sched_keys` | 3 workflows, 2 slots; two are a batch, two share a branch; `acquire_lock` may raise | 2,525,948 | `ReservationsBalance`, `WithinCaps`, `OnlyWaitersBypass` |
| `sched_turns` | the same on 1 slot, nothing raises, with fairness | 276,994 | `EveryoneGetsATurn` |
| `sched_operators` | 1 workflow, all 8 moves | 2,271,787 | `TypeOK`, `EveryThreadHasEntry`. `FrozenOnlyWhilePaused`: a stopped agent's workflow is paused, or about to be, unless `done`, the pass over quota pauses or a late resume abandoned it |
| `sched_frozen` | 1 workflow; pause, resume and done | some 500 | violated, see the next section |
| `phases_operators` | 2 pull requests, any 2 of ten interventions, small counters, one escalation, no repair agent | 5,440,078 | `MergeWasDecided`: each request needs a decision of its own. `VerifiesNewestMerge`: the verifier never runs on a superseded merge. `CompletedIsVerified`: acceptance completes on a confirmed newest merge, or with verification switched off |
| `phases_retries` | every counter at 1 or more, 1 intervention or fault, fairness | 702,422 | `AgentRunsStop`: no cycle of the counters passes through an agent. `RejectionReworked`: a rejected delivery sent back with feedback gets a development agent |
| `worktree` | own worktree, 3 kills, 3 requests, every command may fail; fairness | 83,279 | `CodingKeepsOffPrimary`: no agent but a planning one works in the primary checkout, or in a worktree that is not there. `ClosedJournalFreesBranch`, `ClosedWhenRestored`, `InterruptedSettles` |
| `tokens` | 1 operator, 2 rotations, 1 fault of 9 kinds; fairness | 193,708 | `AgentKeepsAccess`: a rotation never locks a running agent out. `ConfirmedIsFinal`: it never returns to a token it confirmed away. `OneLastingToken`. `PushTakenInTime`: a queued command is taken before it is older than a claim timeout for each fault, and one more. `PushReachesAgent`: a pushed token is taken |
| `tokens_probe` | the agent's default settings, 1 rotation, no fault | 200 | violated, see the next section |

Why the bounds are enough. Two clients are a leader and the one that takes over, in
an order that repeats without bound, and the theorems are for any number; leases of
1 to 3 ticks have every order of expiry, renewal and release, since time only
matters by comparison. Two workers are a superseded and a superseding one, and in
`wf_lease` their order repeats without bound; of the routes it has
retry, which releases a lock, and resume, which puts a workflow back to work;
`wf_recovery`, where the status decides, has the others. In the scheduler, a batch of two has a head and a successor,
the third workflow competes for a key and a slot from outside, and with two slots
for three workflows the caps are reached with candidates left over. Routes act on
one workflow and on what is queued behind it, so that one workflow has every
interleaving of its routes, worker and poll; `sched_keys` has
one move, raise: resume and stop are added by the theorems, and each of the others
refutes one of its properties (`Proofs`). These three modules
count nothing without bound, so their runs are complete for their instances; the
theorems below lift the safety results to all.

In `WorkflowPhases` two pull requests are a merge and the one that supersedes it,
and two interventions are, for instance, a feedback on a verdict and a `done` on
what follows. Counters have the smallest value at which both the retry and the
exhausted branch are taken; `phases_retries` has them all at work with one
intervention, because a cycle needs a path that resets one counter while it uses
another. `phases_operators` has the escalation of a CI repair, which sends a
workflow back to development, and leaves the repair agents themselves (`CiAttempts =
0`) to the other run; the theorems have both together, with any number of each. In
`WorktreeTransition` three kills are one in the resolver, one in the reconciliation
that follows and one in the next. In `AgentToken` two rotations are an old and a new
command, with versions that must be told apart; one fault is the failure the
protocol is built for. The redelivery delay is 2 ticks, so that two commands can be
due at different times, and the grace period and the life of a command are 5, the
least that `AccessIsKept` allows: with 4 in place of either TLC refutes
`AgentKeepsAccess`. What two faults or an equal grace period do is in the next
section.

Fairness. `SchedulerLease`: time passes and the lease and heartbeat threads run on
(weak), but a job may hang. `WorkflowLease`: weak fairness of time, worker and
heartbeat steps and of the end of a sweep; strong for `Acquire` (each poll tries
again, at times that others may interleave, and the database does not fail every
try), for the self-healing pass (it looks at the leases every 10 s) and for leaving
`advance()` (agents have timeouts). `WorkflowScheduler`: weak for the poll thread
and for each worker, and `Settling`, strong: a phase with an agent is not repeated
for ever, because its rounds, repairs and transient retries are counted, so that one
that would be run for ever fails at some time. A *waiting* workflow may be polled
for ever. Operators are never required to act. `FairSpecOfRaises`, for one of the
disagreements, adds that `acquire_lock` does not raise at every try. One path does
not meet `Settling`: acceptance verification without a merge commit retries
uncounted (`phases/acceptance_verification.py:853`), listed as a hazard.
`WorkflowPhases`: weak fairness of the worker as a whole, since the poll loop keeps
starting `advance()` and every agent and request has a timeout; no outcome is
required to be favourable. `WorktreeTransition`: weak for the worker, for the
start-up reconciliation and for the restart of a dead process. `AgentToken`: weak
for the agent's loop, for the requests that are being served and for time.

Every property of a passing run has a mutation of a mapped definition, a
plausible slip in that code, under which the same run finds it violated.

## Where the code and its documentation disagree

Each of these is a property, stated from a line of the repository, that TLC
refutes; the counterexample is a sequence of steps of the code.

Kept as a run:

- `sched_frozen` (`FrozenAgentsCanResume`). `done` writes the merge phase over a
  paused row and sends no signal (`routes/autonomous.py:1340`): the agent stays
  stopped under a row that is not paused, where the resume route answers "Workflow
  is not paused", and with it its worker, entry and lease.
  `docs/dev/AUTONOMOUS_DEVELOPMENT.md:58` says "**Resume** continues the frozen
  process", line 62 that "New states and error paths must not make either action
  disappear while a workflow is active." A resume whose write comes after a later
  pause has stopped the agent again does the same, and so does the pass over quota
  pauses (`ManualPauseNotAutoResumed` below). `FrozenOnlyWhilePaused`, which the
  other runs have, says that these three are the only ways: the ghost `abandoned`
  marks them.
- `tokens_probe` (`PushReachesAgent`). Before it takes a pushed token the agent
  probes it at `/api/remote/heartbeat`, a route the server does not have
  (`remote-agent/agent.py:980`). The probe fails, the token is refused, and the agent
  is locked out when the old one's time is up. `routes/remote.py:1533` tells the
  operator that "The agent will automatically update its configuration."
  `OPENACE_SKIP_TOKEN_PROBE` avoids it, and the other run assumes it.

Stated in the modules, and refuted with the instance named when its properties
are replaced by the one in the first column and the constants given are changed
(`Lease` is `SchedulerLease.cfg`, `WfLease` `WorkflowLeaseSafety.cfg`, `Keys`
`WorkflowSchedulerSafety.cfg`, `Frozen` `WorkflowSchedulerFrozen.cfg`, `Recovery`
`WorkflowLeaseRecovery.cfg`, `Turns` `WorkflowSchedulerTurns.cfg`):

| Property | Instance | Constants | What happens |
|---|---|---|---|
| `SpansCriticalSection` | `Lease` | as is | the heartbeat does not extend `expires_at`: a leader with a fresh heartbeat whose job outlasts `lock_timeout` is deposed and the job runs twice. The docstring promises exclusion "spanning a caller's critical section" |
| `ReturnReleases` | `Lease` | as is | the alert compensation worker returns past its release when there is nothing to do (`alert_compensation_worker.py:171`): the lease stays until it expires |
| `RetryFindsNobody` | `WfLease` | as is | `failed` is written before the worktree is removed and the worker unwinds; a retry in between releases the live worker's lock. The comment says "a failed workflow has no live orchestrator" |
| `ReapsOnlyFiction` | `WfLease` | as is | the self-healing pass drops the entry of a worker that is submitted and has not acquired its lease |
| `SweepSparesOverdueAdvance` | `WfLease` | `Cleaners = {k1}` | an advance whose lock a retry released while it removes the worktree of the failed workflow, or one that was superseded by an advance that has left, is still at work when the sweep finds the lock free: worktree and branch are removed under it. The docstring (`autonomous_scheduler.py:1616`) says "The workflow DB lock serializes cleanup with advances in every scheduler process" |
| `NoAgentAfterShutdown` | `WfLease` | `MayStop = {p1}` | an agent starts after `stop()`, between the last check and the registration of its session |
| `SupersededLeavesPid` | `WfLease` | `ProcessOf <- OneProcess`, `Owner <- SameThreadNames` | a rebuilt executor numbers its threads from 0 again: two workers share an owner string and pass each other's fences |
| `HeartbeatStopsOwnAdvance` | `WfLease` | `ProcessOf <- OneProcess` | a heartbeat that lost its lease looks the orchestrator up by workflow id (`autonomous_scheduler.py:944`) and shuts down its replacement |
| `NoEntryLeaks` | `Recovery` | `Spec` | `acquire_lock` raises: it stands between the two `try` blocks, and neither drops the entry. The comment on the first of them (`autonomous_scheduler.py:812`) says "the in-progress entry [...] would leak [...] Discard the entry on any raise" |
| `SweepSparesAdvance` | `Recovery` | `Spec` | the verification override finds the workflow paused, an operator resumes it while the override closes the issue, and the override completes it (`routes/autonomous.py:1483`) under the worker that advances it again. When that worker's lock is stale and its agent has not registered a pid, the sweep takes the lock and removes the worktree. "PID alone is not a sufficient lease" |
| `OneGitWorkerPerTree` | `Keys` | `Moves = {}` | a row read as `waiting` reserves nothing. If its worker commits the move to a git phase and leaves between that read and the filter, the stale row is selected again and its git phase runs beside another workflow on the same branch |
| `ReleasesOwnKeys` | `Keys` | `Moves = {"quota"}` | keys of a quota-paused entry are dropped, reserved by another workflow, and freed by the first worker's discard |
| `RetryReleasesOwnKeys` | `Keys` | `Moves = {"retry"}` | retry of a workflow without an entry falls back to the keys of its row, which another entry holds |
| `SiblingFree` | `Keys` | `Moves = {}` | a verifying workflow reserves the batch id its promoted sibling needs |
| `QueuedStaysBehind` | `Keys` | `BatchOf <- BatchOfThree`, `KeysOf <- OwnKeys`, `Moves = {"pause", "resume"}` | a queued workflow that is paused and resumed (`routes/autonomous.py:1127`) overtakes its batch |
| `LeakedEntriesGo` | `Turns` | `Workflows <- OneWorkflow`, `Moves = {"raise"}`, `FairSpecOfRaises` | a worker pauses its workflow by a verdict and leaves between the poll's read and its filter; the stale row is selected again, `acquire_lock` raises, and the self-healing pass keeps the entry for as long as the workflow is paused. The docstring calls an entry without a lease "fiction: reap it"; its rules keep that of a paused workflow, on the ground that a worker owns it |
| `TimeoutAwaitsOperator` | `Frozen` | `Moves = {}` | a stale row is selected after `planning_timeout` was written, `advance()` turns back other statuses only (`orchestrator.py:9720`), and planning runs again |
| `PauseSurvivesAdvance` | `Frozen` | `Moves = {"pause"}` | the phase in flight commits over a pause |
| `StopSurvivesAdvance` | `Frozen` | `Moves = {"stop"}` | the phase in flight commits over a cancellation, typically `failed`, because stop killed its agent |
| `StoppedNotPromoted` | `Frozen` | `Workflows <- TwoWorkflows`, `Moves = {"stop"}` | a batch stopped between the promotion check and write starts its next workflow |
| `ManualPauseNotAutoResumed` | `Frozen` | `Moves = {"pause", "resume", "quota"}` | resuming by hand keeps the quota reason in `error_message` (`routes/autonomous.py:1134`); a manual pause later is taken for a quota pause and resumed by the scheduler |
| `FrozenAgentsCanResume` | `Frozen` | `Moves = {"pause", "resume"}` | two requests race: a resume sends SIGCONT, the pause that was under way stops the agent and writes, and the resume writes last |
| `MergeNeedsConsent` | `WorkflowPhasesOperators.cfg` | `CiAttempts = 1`, `Escalations = 0` | a CI repair started by `pr_review` writes `current_phase = merge`: the request is merged without report and wait, where consent is looked at |
| `FeedbackLeavesWait` | `WorkflowPhasesRetries.cfg` | `Events <- FeedbackEvents` | feedback on a workflow that is simply waiting resumes at the phase of the latest milestone, report's own, which returns to wait: an endless loop that the comment at `orchestrator.py:13146` means to exclude, and no agent sees the feedback |
| `ResolvedFallbackGoesOn` | `WorktreeTransition.cfg` | `Dedicated = FALSE`, `Spec` | a workflow in the shared checkout has its conflicts resolved and pushed; the journal stays at `temp_attached`, and the next `advance()` fails the workflow because there is no original worktree to restore. The comment says it "stays in primary-fallback until it completes the merge" |
| `CodingKeepsOffPrimary` | `WorktreeTransition.cfg` | `Overlap = TRUE`, `Spec` | the reconciliation at start-up takes no lease (`autonomous_scheduler.py:1552`): a second process undoes the transition of a living worker, whose agent loses its worktree |
| `PlanningKeepsOffPrimary` | `WorktreeTransition.cfg` | `Spec` | after a merge the worktree is gone; a new comment sends the workflow to planning (`orchestrator.py:13316`), which is none of `_WORKSPACE_CONSUMING_PHASES` (`git_workspace.py:45`): its agent runs in the project's own checkout |
| `AgentsKeepOffPrimary` | `WorktreeTransition.cfg` | `Spec` | `advance()` dispatches by the phase that it read at its start (`orchestrator.py:9723`), `ensure_worktree` decides by the row it read after the reconciliation (`git_workspace.py:133`). A `done` request in between makes the phase merge in the second reading: no worktree is made, and development runs in the primary checkout. The comment says "a SIGKILLed transition never lets a later phase fall back to the main checkout" |
| `AgentKeepsAccess` | `AgentToken.cfg` | `ClaimTimeout = 5`, `CommandTtl = 10`, `Faults = {}` | with the redelivery delay equal to the grace period, as by default (both 300 s), a rotation locks the agent out without any fault: the command is in the answer to the confirmation of the rotation before, which the agent does not read (`routes/remote.py:2691`), and is due again when the old token ends |
| `AgentKeepsAccess` | `AgentToken.cfg` | `MaxRotations = 3`, `RevokeTimeout = 7`, `CommandTtl = 7`, `MaxFaults = 2`, `Faults = {"kill"}`, `{"edit"}` or `{"mismatch"}` | a kill between token and version, an operator's edit, or one that makes the agent start from its backup, leaves a file with a token newer than its version (the start asks the server only for a version that is missing, `remote-agent/agent.py:1101`). An older command that is due alone passes the version check and brings back a token which the next rotation revokes |
| `AgentKeepsAccess` | `AgentToken.cfg` | `Pinned = TRUE`, `Faults = {"kill"}` | `OPENACE_AGENT_TOKEN` is set: a restart brings back the token of the registration, which a rotation has replaced. The write of a new token warns of it (`remote-agent/config.py:427`) and the rotation goes on to confirm |
| `AgentKeepsAccess` | `AgentToken.cfg` | `MaxRotations = 1`, `RevokeTimeout = 9`, `CommandTtl = 9`, `Faults = {"disk", "kill"}`, `MaxFaults = 3` | both writes of the file fail, the agent confirms, and starts again with the token it confirmed away |
| `OneLastingToken` | `AgentToken.cfg` | `Admins = {1, 2}`, `Faults = {}` | two rotations at once compute the same version and leave two tokens that nothing revokes |
| `ConfirmedIsFinal` | `AgentToken.cfg` | `Pinned = TRUE`, `Faults = {"kill"}` | the same: the agent is back at a token that it confirmed away |
| `ConfirmedIsFinal` | `AgentToken.cfg` | `Faults = {"disk", "kill"}` or `{"disk", "mismatch"}`, `MaxFaults = 2` | writing the file fails, which is only logged; the agent confirms all the same and comes back after a restart, from the file or its backup, with the revoked token |

Met while modelling, and visible in the modules as a ghost, an exception or a
comment rather than as a property:

- A confirmed verdict is inherited by a later merge: acceptance returns at once
  when the row says `confirmed` (`acceptance_verification.py:844`), and cancelling
  a milestone or `done` does not clear it (`reopened`). A new requirement by
  comment keeps `verification_merge_sha` (`orchestrator.py:13321`, `renewed`).
  So does the escalation of an exhausted CI repair (`orchestrator.py:5963`): after
  an indeterminate verdict `done` sends the workflow to the merge phase again, a
  failing check on the merged request starts a repair, the exhausted repair
  goes back to development, and the merge that comes of it is not verified; the
  recorded one is, again. `pr_review.py:274` and the routes clear the column.
- With acceptance verification switched off, acceptance completes without a verdict
  (`acceptance_verification.py:834`, ghost `waived`). The switch is read at each run: a
  workflow that waits for its verification completes unverified.
- The verification override completes a workflow that was paused when it looked,
  though it may have been resumed since (ghost `overtaken` of `WorkflowLease`).
- A Git error while `pr_review` compares the branches completes the workflow,
  even after a rejection (`pr_review.py:241`).
- The reset after a transient network error wipes the marker of a deferred CI
  repair from `error_message` (`orchestrator.py:2256`), so that the deferred round
  is counted as a new one.
- Planning rounds can exceed their maximum after a refinement timed out
  and was extended. Feedback on an indeterminate delivery resumes at merge and
  replays the verdict. An override after feedback records an unknown merge
  commit. Acceptance without a merge commit retries without a bound
  (`acceptance_verification.py:853`).
- The primary fallback attaches the temporary worktree before any journal is
  written (`git_workspace.py:805`): a kill in between leaves it unrecorded. A kill
  inside `git worktree remove` leaves a registration without a directory.
- The answers to confirmations, permission requests and state reports carry
  commands, marked as delivered, that the agent does not read
  (`routes/remote.py:2691`, `2758`, `2776`).
- A second rotation before the first was taken revokes the agent's own token at
  once.
- The join of a lease's heartbeat thread gives up after 5 s
  (`leader_election.py:437`); a client object used again then has two.

## Proofs

All theorems hold for every value of the constants that the named `ASSUME` of
the module allows. `tlapm` checks each module to the last leaf.

**SchedulerLease_proofs.** Any set of clients and any lease. Inductive
invariant: `IInv == TypeOK /\ EntitledOwnsRow`. Exclusion alone is not
inductive: a takeover step sees the row, not the other client's term, so the
invariant must say that whoever is entitled owns the row and that row and term
run out together. From it `TypeCorrect`, `RowAgrees`, `MutualExclusion`, the
action property `RowEndsByRelease`, and `Refinement`: `Spec` implements
`ExclusiveLease!Spec` with the leader of a live row as `owner`. Each action is
mapped to `Grant`, `Work`, `End` or a stutter; a grant needs `inside = {}`, which
is `EntitledOwnsRow` read for a row that is nobody's.

**WorkflowLease_proofs.** Any processes, workers, sweeps and timeout, under
`DistinctOwners` (no two actors share a `locked_by` string: the fences compare
strings, and `SupersededLeavesPid` shows what happens otherwise). Inductive
invariant: `IInv == TypeOK /\ TermOwnsLock`, for the same reason. From it
`TypeCorrect`, `LeaseAgrees`, `Exclusion`, and `HolderKeepsLease`: no step of
another actor touches a live lease or the pid beside it, the retry route
excepted. `Refinement` shows that `Spec` implements `ExclusiveLease!Spec` too.
`OnlyRaiseLeaksEntry` (`EntryHasWorker`) is inductive with types alone: an entry appears
only for a worker just selected, and one step only makes a worker idle and leaves it, the
`acquire_lock` that raises, which sets `leaked`. `SweepSparesAdvances`
(`SweepBreaksNoAdvance`) needs `PhaseInv`: as long as the row names a worker that is in a
phase, the status is not `completed`, the one in which the sweep may break a stale lock,
or the worker is `overtaken`. Who enters a phase on a completed row is overtaken, and
so is everybody who is in one when the override writes; a superseded worker cannot
write, the other routes write other statuses, and the row names the owner only until his
own outcome is written, by which time he has left the phase. The exception is needed:
`SweepSparesAdvance`, without it, is refuted (see the disagreements).

**WorkflowScheduler_proofs.** Any workflows, owners, batches, keys and caps.

- `TypeCorrect`, for every `Moves`.
- `ThreadsHaveEntries`, for every `Moves`. The reaper works from leases read
  earlier; `ThreadInv` adds that until the filter has run, what was read covers
  every thread that is still there (`ReadCoversThreads`), and that candidates of
  a selection have no entry and no thread (`CandidatesNew`).
- `CapsHold`, for every `Moves`. The entries stay within the caps, and threads
  have entries. `IsSelection` is a fixpoint over subsets and not a loop; the
  bound on a selection follows from its last member in the order, which fitted
  when all the others had their slots. That a finite set has a last member is
  well-founded minimality applied to its tails.
- `KeysBalance`, for `Moves` within `KeyMoves` (resume, stop, raise): the reserved sets
  are the disjoint union of the entries' keys. `RowInv` relates the phase a
  worker read to the row and says that nothing before the merge is paused, so that
  `DropPausedKeys` finds nothing to drop; `KeyInv` adds
  that the keys of candidates are free. With a pause, the quota gate or retry the
  statement is false (`ReleasesOwnKeys`, `RetryReleasesOwnKeys`).
- `FrozenAreResumable` (`FrozenOnlyWhilePaused`), for every `Moves`: `FrozenInv` says that
  a stopped agent's worker waits for it (`FrozenWaits`) and that its workflow is paused with no
  resume past its SIGCONT, or the pause is about to write, or the ghost `abandoned` has
  it, and that no queued workflow has a thread (`QueuedIdle`), so that promotion touches no
  stopped one. Without the exception the statement is the one that `sched_frozen` refutes.
- `WaitersBypassAlone` (`OnlyWaitersBypass`), for `Moves` within `KeyMoves`:
  `TreeInv` adds that an entry which reserves anything reserves all that a git phase
  needs, unless its row is past the merge, and that what a poll read past the merge
  is past it still. The bound on `Moves` is exact: TLC refutes the statement with
  any other move (in `Keys`, with `resume` and that move). A pause of any kind lets
  `DropPausedKeys` take the keys of a worker that is still at work, retry drops
  those of another entry, and `done` sends a row that was selected past the merge
  back to a git phase.

**WorktreeTransition_proofs.** Any number of kills and requests, failing commands
or not, with and without a worktree of its own.

- `TypeCorrect`, and `JournalClosedRestored` (`ClosedWhenRestored`) step by step:
  each step that closes the journal has just found or made the home tree.
- `ClosedJournalIsDone` (`ClosedJournalFreesBranch`). `GitInv` has what Git
  guarantees: one worktree has the branch, and only a registered one can miss its
  directory. The property is not inductive because a resolver attaches before it
  records, and because a starter beside it (`Overlap`) may close the journal in the
  middle: `Settled` adds that such a resolver finds the branch at home from the attach
  step on, so that its own attach fails, and that it has removed the original before.
- `CodingAgentsWorkAtHome` (`CodingKeepsOffPrimary`), under `~Overlap`, for every agent but a
  planning one and for every `advance()` whose two readings of the row name one phase.
  `Alone` says that the starter has the row to itself and that a worker's row stays
  `working`; `Ready` says what `ensure_worktree` and the reconciliation have made of the
  worktree by each step of the worker, in terms of the row it last read. With `Overlap`, for
  planning agents, and when a `done` request came between the readings the statement is
  false, see the disagreements.

**AgentToken_proofs.** Any number of requests, rotations and faults, and any
timeouts.

- `TypeCorrect`. Token indices and versions are bounded by the table's size, so
  types need counting: rows are numbered in the order of insertion and each rotation,
  those under way included, accounts for one (`Numbered`), with versions among
  those given so far (`Given`).
- `OneTokenLasts` (`OneLastingToken`), with one request at a time: between the
  two transactions of a rotation no token lasts and the version to be inserted is
  the highest (`Vacant`). With two requests it is false, see the disagreements.
- `ConfirmationIsFinal` (`ConfirmedIsFinal`), under `OwnFile`: no fault is `"disk"` or
  `"mismatch"`, any other may happen, and `OPENACE_AGENT_TOKEN` is not set. `Superseded`:
  what waits for a rotation is older than the token the rotation issues. `InStep`: process
  and file agree, and what the agent is about to confirm it has. `Outdated`: what was
  confirmed away is revoked and older than the file, so that neither a late nor a repeated
  command passes the version check. With disk faults or `Pinned` it is false, see the
  disagreements. With `"mismatch"` alone TLC finds nothing wrong, but `InStep` says nothing of
  a file that was dropped for its backup: that premise is the proof's.

**AgentAccess_proofs.** The two properties of a rotation that are about time,
`AccessIsKept` (`AgentKeepsAccess`) and `PushIsTakenInTime` (`PushTakenInTime`), for any
number of rotations and faults, from the invariants of `AgentToken_proofs` and these
premises (`Timely`, `Untorn`):

- `RevokeTimeout` and `CommandTtl` exceed `ClaimTimeout * (MaxFaults + 1)`. A lost
  delivery costs one claim timeout, and the command may be lost once more without a
  fault, in the answer to the confirmation of the rotation before. The runs show
  that no smaller values will do.
- Rotations are requested one at a time, the probe is skipped, no fault is
  `"disk"`, `"edit"` or `"mismatch"`, and `OPENACE_AGENT_TOKEN` is not set: an agent
  starts from what its process had.
- The agent is not killed between the writes of token and version (`Untorn`, about
  the steps of a behaviour: `Spec /\ [][Untorn]_vars`).

TLC refutes `AgentKeepsAccess` without the timeouts, without the skipped probe, with
disk faults, with edits, with dropped edits, with `Pinned` and with torn restarts,
each time with the other premises met (see the disagreements); the premises are what
the code needs, not what the proof needs. The exception is one request at a time:
with two requests and three rotations TLC finds nothing wrong, but rows are then not
numbered by their versions, on which the invariant rests.

The inductive invariant is `AccessInv`. `Numbers`: a token's version is its row's
number, so that the newest command is the one that is delivered. `Whole`: process and
file agree, and the version is the token's own, so that an older command is refused.
`OneCommand`: an answer carries one command. The heart is `Kept`: the agent's token
lasts, or it was replaced by a rotation that is in its second or third step
(`InIssue`, `InPush`: its time has not begun to run) or over, and then `Counted` adds up
the account: the time the old token has left and the age of the new command are
`RevokeTimeout` together, and the command waits for the next poll (`Unsent`), is with
the agent (`InHand`), or was lost, when its age is at most a claim timeout for each fault
so far plus the time since (`Lost`). A tick that would let an account run over is not
possible, because the poll that finds the command due comes before it. The account does not
hold for an agent that was cut off and let in again; the step that ends `cut` is the
one by which it gets a lasting token (`CutEnds`).

**WorkflowPhases_proofs.** Any caps, any number of requests and interventions, any
set of `Events`; no further assumption. The module has some fifty steps, and none
of the invariants is about the counters. The first half therefore proves the types
action by action and, with them, that each step is one of some twenty *outcomes*
(`Outcome`), which say what becomes of the request, its recorded merge commit, the
verdict and the ghosts. The invariants are proved about outcomes, in layers:

- `RequestInv`: requests are numbered without gaps and all but the open one are
  merged; a worker has the request the row has, except in `pr_review`, which is about
  to write another.
- `MergeInv`, for `MergesAreDecided` (`MergeWasDecided`): a row or a worker in the
  merge phase, or in a CI repair, has a request that was decided. A CI repair carries the
  worker's copy of the number into the row, which is why the copy is in the invariant.
- `VerdictInv`, for `NewestIsVerified` (`VerifiesNewestMerge`) and
  `CompletionIsVerified` (`CompletedIsVerified`): a recorded merge commit is the newest
  request's and is there only in wait, merge and acceptance; a confirmed verdict is
  about the newest request, also in a worker's copy that an override or a feedback
  has overtaken. A completion with verification switched off puts all requests there are
  into `waived`, among them the newest.

The proofs corrected the models in four places. `TypeInv` failed at `Develop`
until the handler's copy kept the phase it is in, whatever an operator wrote to the
row meanwhile (`phases/development.py:92`). `VerdictInv` failed at the escalation of a CI
repair, which keeps the recorded merge commit; the run had no escalations, has
one now, and `renewed` covers it. And `SweepSparesOverdueAdvance`, checked with
one worker and its phases proper until then, is false with two, and with one that is
removing a failed workflow's worktree; what the sweep's SQL does guarantee is
`SweepBreaksNoAdvance`, once the routes are in the model with an exception for an override.
The run `tokens` had a claim timeout of one tick, with which all
commands are due at once; the proof of `AccessIsKept` failed at an older command
that is due alone, and the run now has two ticks.

Only model-checked:

- the liveness properties (`DeposedLearns`, `Failover`, `Recovered`, `LeakReaped`,
  `EveryoneGetsATurn`, `AgentRunsStop`, `RejectionReworked`, `InterruptedSettles`,
  `PushReachesAgent`), which depend on fairness and are out of the prover's reach;
- the disagreements, which are counterexamples.

## What is not modelled

- Of the workflows: the orphan sweep at start-up (`_cleanup_orphan_processes`);
  the executor that is rebuilt on a changed cap, except for its effect on owner
  strings; the routes delete and fork, attachments and issue comments; parsing of
  agents' output.
- Of the remote agents: session and terminal commands, heartbeats and offline
  detection, the WebSocket path, deregistration.
- The protocols that have a place on the plan and no module yet: the execution
  guard, usage recording, alert transactions, the relay stores.
- Everything that only reads, formats or forwards: analytics, reports, the
  proxy's wire formats, the frontend, scripts and deployment. Most of the
  repository's lines are of this kind, or are routes and repositories with
  one query each; the models cover the parts in which several threads, processes
  or hosts share state.

`PROJECT.json` gives the reason for each part.

## Plan

Done: the two lease protocols with their abstract specification, the poll loop,
the phases, the worktree transitions and the token rotation; theorems about every
safety property that the runs check.

Theorems next:

1. `AccessIsKept` for several requests at a time: an invariant for two tokens of
   one version, of which the agent has either.
2. `ConfirmationIsFinal` with dropped edits: an invariant about the backup of the agent's
   file, which is one write behind it.
3. `OnlyWaitersBypass` says nothing of a workflow selected as `waiting`; an
   invariant for what is left of `OneGitWorkerPerTree` in that case.

Modules next:

4. `ExecutionGuard`: the lease of `scheduler_guard.py` with its renewal rule,
   against `ExclusiveLease`.
5. `CommandQueue`: the session and terminal commands on the queue that
   `AgentToken` has for rotations, and the sessions on both sides.
6. `UsageSink`: at-least-once recording and deduplication, with the quota check
   as a reader of a stale sum.
7. `AlertTransactions` and the two compensation workers, with a crash between
   any two writes.
8. `RelayStore`: the terminal's ring buffer as a recursive function checked
   against a reference definition.

Bounds for new runs follow the rule used here: as many actors as the hardest
interleaving needs, one more for the bystander, and every counter capped at one
above the code's own limit where that limit matters.
