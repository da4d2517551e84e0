------------------------ MODULE WorkflowLease_proofs ------------------------
(***************************************************************************)
(* Proofs about WorkflowLease, for any number of workers, sweeps and       *)
(* processes and any timeout.                                              *)
(*                                                                         *)
(* The fences compare owner strings, so exclusion needs DistinctOwners,    *)
(* which a rebuilt executor breaks.  ExclusiveWork is not inductive:       *)
(* TermOwnsLock is, with the types.  A takeover needs a lease that is      *)
(* released or stale, so it finds nobody in term, and the fenced           *)
(* statements reach the lease of their own actor only.                     *)
(***************************************************************************)
EXTENDS WorkflowLease, TLAPS

USE DEF routes

\* The locked_by string names one thread.
DistinctOwners == \A a, b \in Actors : Owner[a] = Owner[b] => a = b

IInv == TypeOK /\ TermOwnsLock

\* The steps that write neither lease nor clock, by the actor they belong to.
QuietStep(w) ==
  \/ Select(w) \/ Skip(w) \/ PauseForQuota(w) \/ Register(w) \/ EnterAdvance(w)
  \/ AgentStep(w) \/ CommitDone(w) \/ LeaveAdvance(w) \/ ReapWorktree(w)
  \/ StopHeartbeat(w) \/ ClearPid(w)

QuietHeartbeat(w) == HeartbeatWakes(w) \/ HeartbeatFails(w) \/ HeartbeatLoses(w) \/ StopAdvance(w)

LEMMA InitInv == Init => IInv
BY ConstantsAssumption DEF Init, IInv, TypeOK, TermOwnsLock, InTerm, Ages, Old, Actors, Advance,
   Labels, Statuses, Advancing

\* The clock stays within its bound, and runs until it is Old.
LEMMA OneOlderType ==
  ASSUME NEW n \in Ages
  PROVE  OneOlder(n) \in Ages /\ (OneOlder(n) <= Timeout => OneOlder(n) = n + 1 /\ n <= Timeout)
BY ConstantsAssumption DEF OneOlder, Ages, Old

\* Types under the steps of _advance_single that leave lease and clock alone.
LEMMA QuietTypes == ASSUME TypeOK, NEW w \in Workers, QuietStep(w) PROVE TypeOK'
<1> USE ConstantsAssumption DEF TypeOK, Goto, Actors, Labels, Advance
<1>1. CASE Select(w) \/ Skip(w)
  BY <1>1 DEF Select, Skip, Drop, row, events
<1>2. CASE PauseForQuota(w)
  BY <1>2 DEF PauseForQuota, memory, events, Statuses
<1>3. CASE Register(w)
  BY <1>3 DEF Register, row, events
<1>4. CASE EnterAdvance(w)
  <2>1. shutdown' \in [Workers -> BOOLEAN]
    BY <1>4 DEF EnterAdvance, Interrupt
  <2>2. overtaken' \subseteq Workers
    BY <1>4 DEF EnterAdvance
  <2>3. pc' \in [Actors -> Labels]
    BY <1>4 DEF EnterAdvance
  <2>. QED BY <1>4, <2>1, <2>2, <2>3 DEF EnterAdvance, row, memory
<1>5. CASE PrepareAgent(w) \/ LaunchAgent(w)
  BY <1>5 DEF PrepareAgent, LaunchAgent, row, memory, events
<1>6. CASE RegisterPid(w)
  BY <1>6 DEF RegisterPid, MarkLost, memory, events
<1>7. CASE AgentEnds(w)
  BY <1>7 DEF AgentEnds, MarkLost, memory, events
<1>8. CASE CommitDone(w) \/ Unwind(w) \/ ReapWorktree(w)
  BY <1>8 DEF CommitDone, Unwind, ReapWorktree, row, memory, events
<1>9. CASE Persist(w)
  BY <1>9 DEF Persist, MarkLost, memory, events
<1>10. CASE StopHeartbeat(w)
  BY <1>10 DEF StopHeartbeat, row, events
<1>11. CASE ClearPid(w)
  BY <1>11 DEF ClearPid, memory, events
<1>. QED BY <1>1, <1>2, <1>3, <1>4, <1>5, <1>6, <1>7, <1>8, <1>9, <1>10, <1>11
         DEF QuietStep, AgentStep, LeaveAdvance

\* What those steps leave alone: the lease, the clock, the other actors; and
\* none of them enters the protected section.
LEMMA QuietFrame ==
  ASSUME TypeOK, NEW w \in Workers, QuietStep(w)
  PROVE  /\ holder' = holder /\ age' = age /\ since' = since /\ retry' = retry
         /\ \A a \in Actors : InTerm(a)' => InTerm(a)
         /\ \A a \in Actors : a # w => pc'[a] = pc[a]
         /\ pc'[w] # pc[w]
<1> USE DEF TypeOK, Goto, InTerm, Advance, Actors
<1>1. CASE Select(w) \/ Skip(w) \/ PauseForQuota(w) \/ Register(w)
  BY <1>1 DEF Select, Skip, PauseForQuota, Register, row
<1>2. CASE EnterAdvance(w)
  BY <1>2 DEF EnterAdvance, row
<1>3. CASE AgentStep(w)
  BY <1>3 DEF AgentStep, PrepareAgent, LaunchAgent, RegisterPid, AgentEnds, row
<1>4. CASE CommitDone(w) \/ Unwind(w) \/ ReapWorktree(w) \/ StopHeartbeat(w) \/ ClearPid(w)
  BY <1>4 DEF CommitDone, Unwind, ReapWorktree, StopHeartbeat, ClearPid, row
<1>5. CASE Persist(w)
  BY <1>5 DEF Persist
<1>. QED BY <1>1, <1>2, <1>3, <1>4, <1>5 DEF QuietStep, LeaveAdvance

LEMMA QuietInv == ASSUME IInv, NEW w \in Workers, QuietStep(w) PROVE IInv'
BY QuietTypes, QuietFrame DEF IInv, TermOwnsLock

\* An actor in term finds its own fences open and everybody else's closed.
LEMMA OwnsOnly ==
  ASSUME IInv, DistinctOwners, NEW a \in Actors, InTerm(a), NEW b \in Actors, Owns(b)
  PROVE  a = b
BY DEF IInv, TermOwnsLock, Owns, DistinctOwners, Actors

\* While an actor is in term the lease is neither free nor stale.
LEMMA TermIsLive ==
  ASSUME IInv, NEW a \in Actors, InTerm(a)
  PROVE  holder = a /\ holder # None /\ ~Stale
BY ConstantsAssumption DEF IInv, TypeOK, TermOwnsLock, InTerm, Stale, Ages, Old

LEMMA FreshAge == 0 \in Ages
BY ConstantsAssumption DEF Ages, Old

\* acquire_lock and acquire_cleanup_lock.
LEMMA AcquireInv ==
  ASSUME IInv, NEW a \in Actors,
         \/ a \in Workers /\ Acquire(a)
         \/ a \in Cleaners /\ AcquireCleanup(a)
  PROVE  IInv'
<1> USE ConstantsAssumption
<1>1. TypeOK'
  <2>1. CASE a \in Workers /\ Acquire(a)
    BY <2>1, FreshAge DEF IInv, TypeOK, Acquire, Take, Goto, Hears, memory, Actors, Labels, Advance
  <2>2. CASE a \in Cleaners /\ AcquireCleanup(a)
    BY <2>2, FreshAge DEF IInv, TypeOK, AcquireCleanup, Take, Goto, memory, events, Actors, Labels, Advance
  <2>. QED BY <2>1, <2>2
<1>2. \A b \in Actors : ~InTerm(b)
  BY TermIsLive DEF Acquire, AcquireCleanup
<1>3. ASSUME NEW b \in Actors, InTerm(b)' PROVE b = a
  BY <1>2, <1>3 DEF IInv, TypeOK, Acquire, AcquireCleanup, Take, Goto, InTerm
<1>4. holder' = a /\ age' = since'[a]
  BY DEF IInv, TypeOK, Acquire, AcquireCleanup, Take
<1>. QED BY <1>1, <1>3, <1>4 DEF IInv, TermOwnsLock

\* The refreshes: ensure_scheduler_lock and the heartbeat.
LEMMA RefreshInv ==
  ASSUME IInv, DistinctOwners, NEW w \in Workers, EnsureLock(w) \/ HeartbeatRenews(w)
  PROVE  IInv'
<1> USE ConstantsAssumption
<1>1. TypeOK'
  <2>1. CASE EnsureLock(w)
    <3>1. CASE Owns(w)
      BY <2>1, <3>1, FreshAge DEF IInv, TypeOK, EnsureLock, Refresh, Goto, memory, events,
         Actors, Labels, Advance
    <3>2. CASE ~Owns(w)
      BY <2>1, <3>2 DEF IInv, TypeOK, EnsureLock, MarkLost, Goto, row, memory, Actors, Labels, Advance
    <3>. QED BY <3>1, <3>2
  <2>2. CASE HeartbeatRenews(w)
    BY <2>2, FreshAge DEF IInv, TypeOK, HeartbeatRenews, Refresh, WaitAgain, Hears, memory, events, Actors
  <2>. QED BY <2>1, <2>2
<1>2. ASSUME NEW b \in Actors, b # w, InTerm(b)' PROVE InTerm(b)
  BY <1>2 DEF IInv, TypeOK, EnsureLock, HeartbeatRenews, Refresh, Goto, InTerm, Actors, row
<1>3. CASE Owns(w)
  <2>1. holder = w
    BY <1>3 DEF IInv, TypeOK, Owns, DistinctOwners, Actors
  <2>2. ASSUME NEW b \in Actors, InTerm(b)' PROVE b = w
    BY <1>2, <1>3, <2>2, OwnsOnly DEF Actors
  <2>3. holder' = w /\ age' = since'[w]
    BY <1>3, <2>1 DEF IInv, TypeOK, EnsureLock, HeartbeatRenews, Refresh, Actors
  <2>. QED BY <1>1, <2>2, <2>3 DEF IInv, TermOwnsLock
<1>4. CASE ~Owns(w)
  <2>1. EnsureLock(w) /\ UNCHANGED <<row, since>>
    BY <1>4 DEF EnsureLock, HeartbeatRenews
  <2>2. InTerm(w)' => InTerm(w)
    BY <2>1, <1>4 DEF EnsureLock, Goto, InTerm, Advance, IInv, TypeOK, Actors
  <2>. QED BY <1>1, <1>2, <2>1, <2>2 DEF IInv, TermOwnsLock, row
<1>. QED BY <1>3, <1>4

\* release_lock and the end of an actor's turn.
LEMMA FinalizeInv == ASSUME IInv, DistinctOwners, NEW a \in Actors, Finalize(a) PROVE IInv'
<1> USE ConstantsAssumption
<1>1. CASE ReleaseLock(a)
  <2>1. TypeOK'
    BY <1>1 DEF IInv, TypeOK, ReleaseLock, Goto, memory, events, Ages, Old, Actors, Labels, Advance
  <2>2. ASSUME NEW b \in Actors, InTerm(b)' PROVE InTerm(b) /\ b # a /\ since'[b] = since[b]
    BY <1>1, <2>2 DEF IInv, TypeOK, ReleaseLock, Goto, InTerm, Advance
  <2>3. ASSUME NEW b \in Actors, InTerm(b)' PROVE holder' = holder /\ age' = age
    BY <1>1, <2>2, <2>3, OwnsOnly DEF ReleaseLock
  <2>. QED BY <2>1, <2>2, <2>3 DEF IInv, TermOwnsLock
<1>2. CASE Discard(a)
  <2>1. TypeOK'
    BY <1>2 DEF IInv, TypeOK, Discard, Drop, Goto, row, events, Actors, Labels, Advance
  <2>2. UNCHANGED <<holder, age, since>> /\ \A b \in Actors : InTerm(b)' => InTerm(b)
    BY <1>2 DEF IInv, TypeOK, Discard, Goto, InTerm, Advance, row
  <2>. QED BY <2>1, <2>2 DEF IInv, TermOwnsLock
<1>. QED BY <1>1, <1>2 DEF Finalize

LEMMA HeartbeatInv == ASSUME IInv, NEW w \in Workers, QuietHeartbeat(w) PROVE IInv'
<1>1. TypeOK'
  BY ConstantsAssumption DEF IInv, TypeOK, QuietHeartbeat, HeartbeatWakes, HeartbeatFails, HeartbeatLoses,
     StopAdvance, WaitAgain, Hears, Interrupt, row, memory, events, Actors
<1>2. UNCHANGED <<holder, age, since, pc>>
  BY DEF QuietHeartbeat, HeartbeatWakes, HeartbeatFails, HeartbeatLoses, StopAdvance, row
<1>. QED BY <1>1, <1>2 DEF IInv, TermOwnsLock, InTerm

\* acquire_lock that raises: its UPDATE, if it was committed, found nobody in
\* term, and its thread has no term of its own.
LEMMA RaiseInv == ASSUME IInv, NEW w \in Workers, AcquireRaises(w) PROVE IInv'
<1>1. TypeOK'
  BY ConstantsAssumption, FreshAge DEF IInv, TypeOK, AcquireRaises, Goto, events, Actors, Labels
<1>2. ASSUME NEW b \in Actors, InTerm(b)' PROVE InTerm(b) /\ since'[b] = since[b]
  BY <1>2 DEF IInv, TypeOK, AcquireRaises, Goto, InTerm, Advance
<1>3. ASSUME NEW b \in Actors, InTerm(b) PROVE UNCHANGED <<holder, age>>
  BY <1>3, TermIsLive DEF AcquireRaises
<1>. QED BY <1>1, <1>2, <1>3 DEF IInv, TermOwnsLock

\* The routes write the status; lease, clock and threads are not theirs.
LEMMA RouteFrame == RouteStep => UNCHANGED <<holder, age, pid, memory, pc, hb, events, since>>
BY DEF RouteStep, RetryReset, Pause, Resume, Cancel, Done, OverrideDecides, OverrideWrites, row

\* The other writers and the processes: the retry route ends every term.
LEMMA OthersInv ==
  ASSUME IInv,
         \/ \E k \in Cleaners : CleanupDone(k)
         \/ \E p \in Processes : ProcessStep(p)
         \/ RouteStep
  PROVE  IInv'
<1> USE ConstantsAssumption DEF IInv, TypeOK, TermOwnsLock
<1>1. ASSUME NEW k \in Cleaners, CleanupDone(k) PROVE IInv'
  BY <1>1 DEF CleanupDone, Goto, row, memory, events, InTerm, Actors, Labels, Advance
<1>2. ASSUME NEW p \in Processes, Reclaim(p) PROVE IInv'
  BY <1>2 DEF Reclaim, Drop, row, events, InTerm
<1>3. ASSUME NEW p \in Processes, RetryRelease(p) PROVE IInv'
  BY <1>3 DEF RetryRelease, Drop, events, InTerm, Ages, Old
<1>4. ASSUME NEW p \in Processes, Stop(p) \/ StopOrchestrators(p) PROVE IInv'
  BY <1>4 DEF Stop, StopOrchestrators, Interrupt, row, events, InTerm
<1>5. ASSUME NEW p \in Processes, Crash(p) PROVE IInv'
  <2>1. TypeOK'
    BY <1>5 DEF Crash, Drop, row, Ages, Old, Actors, Labels
  <2>2. ASSUME NEW b \in Actors, InTerm(b)' PROVE InTerm(b) /\ since'[b] = since[b]
    BY <1>5, <2>2 DEF Crash, InTerm, Advance, Old
  <2>. QED BY <1>5, <2>1, <2>2 DEF Crash, row
<1>6. CASE RouteStep
  <2>1. TypeOK'
    BY <1>6 DEF RouteStep, RetryReset, Pause, Resume, Cancel, Done, OverrideDecides, OverrideWrites,
       row, memory, events, Statuses, Advancing
  <2>. QED BY <1>6, <2>1, RouteFrame DEF InTerm
<1>. QED BY <1>1, <1>2, <1>3, <1>4, <1>5, <1>6 DEF ProcessStep

\* Time runs alike for the row and for the leases the actors believe in.
LEMMA TickInv == ASSUME IInv, Tick PROVE IInv'
<1> USE ConstantsAssumption
<1>1. TypeOK'
  BY OneOlderType DEF IInv, TypeOK, Tick, memory, events
<1>2. ASSUME NEW a \in Actors, InTerm(a)' PROVE holder' = a /\ age' = since'[a]
  <2>1. since'[a] = OneOlder(since[a]) /\ pc' = pc /\ holder' = holder
    BY DEF Tick
  <2>2. InTerm(a)
    BY <1>2, <2>1, OneOlderType DEF InTerm, IInv, TypeOK
  <2>3. holder = a /\ holder # None /\ age = since[a]
    BY <2>2, TermIsLive DEF IInv, TermOwnsLock
  <2>. QED BY <2>1, <2>3 DEF Tick
<1>. QED BY <1>1, <1>2 DEF IInv, TermOwnsLock

LEMMA NextInv == ASSUME DistinctOwners PROVE IInv /\ [Next]_vars => IInv'
<1> SUFFICES ASSUME IInv, [Next]_vars PROVE IInv'
  OBVIOUS
<1>1. ASSUME NEW w \in Workers, WorkerStep(w) \/ HeartbeatStep(w) PROVE IInv'
  BY <1>1, QuietInv, AcquireInv, RaiseInv, RefreshInv, FinalizeInv, HeartbeatInv
     DEF WorkerStep, HeartbeatStep, QuietStep, QuietHeartbeat, Actors
<1>2. ASSUME NEW k \in Cleaners, CleanerStep(k) PROVE IInv'
  BY <1>2, AcquireInv, FinalizeInv, OthersInv DEF CleanerStep, Actors
<1>3. ASSUME NEW p \in Processes, ProcessStep(p) PROVE IInv'
  BY <1>3, OthersInv
<1>4. CASE RouteStep \/ Tick
  BY <1>4, OthersInv, TickInv
<1>5. CASE UNCHANGED vars
  BY <1>5 DEF vars, row, memory, events, IInv, TypeOK, TermOwnsLock, InTerm
<1>. QED BY <1>1, <1>2, <1>3, <1>4, <1>5 DEF Next

\* The row, the threads and the events keep their types.  (TypeOK alone is
\* inductive; it is proved along with TermOwnsLock.)
THEOREM TypeCorrect == ASSUME DistinctOwners PROVE Spec => []TypeOK
BY InitInv, NextInv, PTL DEF Spec, IInv

\* A worker or a sweep that has not outlived the lease it was last granted
\* (acquire_lock, refresh_lock) owns the row, and the row's lease is as old as
\* the actor's: the inductive part of exclusion.
THEOREM LeaseAgrees == ASSUME DistinctOwners PROVE Spec => []TermOwnsLock
BY InitInv, NextInv, PTL DEF Spec, IInv

\* "The workflow DB lock serializes cleanup with advances in every scheduler
\* process": no two threads work on the workflow within their leases.
THEOREM Exclusion == ASSUME DistinctOwners PROVE Spec => []ExclusiveWork
<1>1. IInv => ExclusiveWork
  BY DEF IInv, TermOwnsLock, ExclusiveWork
<1>. QED BY <1>1, InitInv, NextInv, PTL DEF Spec

\* A step of another actor leaves the lease of an actor in term alone, and the
\* agent_pid it registered; the retry route is the exception.
LEMMA StepDisturbsNobody ==
  ASSUME DistinctOwners, IInv, [Next]_vars, NEW a \in Actors, InTerm(a), holder' # a \/ pid' # pid
  PROVE  pc'[a] # pc[a] \/ retry' # retry
<1> USE ConstantsAssumption
<1>1. holder = a /\ holder # None /\ ~Stale
  BY TermIsLive
<1>2. ASSUME NEW w \in Workers, QuietStep(w) PROVE pc'[a] # pc[a]
  <2>1. CASE a = w
    BY <1>2, <2>1, QuietFrame DEF IInv
  <2>2. CASE a # w
    <3>1. holder' = holder
      BY <1>2, QuietFrame DEF IInv
    <3>2. ~Owns(w)
      BY <2>2, OwnsOnly DEF Actors
    <3>3. pid' = pid
      BY <1>2, <3>2 DEF QuietStep, AgentStep, LeaveAdvance, Select, Skip, PauseForQuota, Register,
         EnterAdvance, PrepareAgent, LaunchAgent, RegisterPid, AgentEnds, CommitDone, Persist, Unwind,
         ReapWorktree, StopHeartbeat, ClearPid, row
    <3>. QED BY <1>1, <3>1, <3>3
  <2>. QED BY <2>1, <2>2
<1>3. ASSUME NEW w \in Workers, Acquire(w) PROVE FALSE
  BY <1>1, <1>3 DEF Acquire
<1>9. ASSUME NEW w \in Workers, AcquireRaises(w) PROVE FALSE
  BY <1>1, <1>9 DEF AcquireRaises
<1>4. ASSUME NEW w \in Workers, EnsureLock(w) \/ HeartbeatRenews(w) \/ QuietHeartbeat(w) PROVE FALSE
  BY <1>1, <1>4 DEF EnsureLock, HeartbeatRenews, Refresh, QuietHeartbeat, HeartbeatWakes,
     HeartbeatFails, HeartbeatLoses, StopAdvance, row
<1>5. ASSUME NEW b \in Actors, Finalize(b) PROVE pc'[a] # pc[a]
  <2>1. CASE a = b
    BY <1>5, <2>1 DEF Finalize, ReleaseLock, Discard, Drop, Goto, IInv, TypeOK
  <2>2. CASE a # b
    <3>1. ~Owns(b)
      BY <2>2, OwnsOnly
    <3>. QED BY <1>1, <1>5, <3>1 DEF Finalize, ReleaseLock, Discard, Drop, row
  <2>. QED BY <2>1, <2>2
<1>6. ASSUME NEW k \in Cleaners, AcquireCleanup(k) \/ CleanupDone(k) PROVE FALSE
  BY <1>1, <1>6 DEF AcquireCleanup, CleanupDone, row
<1>7. ASSUME NEW p \in Processes, ProcessStep(p) PROVE retry' # retry
  BY <1>1, <1>7 DEF ProcessStep, Reclaim, RetryRelease, Stop, StopOrchestrators, Crash, Drop, row
<1>8. CASE RouteStep \/ Tick \/ UNCHANGED vars
  BY <1>1, <1>8, RouteFrame DEF memory, Tick, vars, row
<1>. QED BY <1>2, <1>3, <1>4, <1>5, <1>6, <1>7, <1>8, <1>9
         DEF Next, WorkerStep, HeartbeatStep, CleanerStep, QuietStep, QuietHeartbeat, Actors

\* A superseded worker's finally, its late heartbeat and the sweep leave the
\* replacement's lease and agent_pid alone.
THEOREM HolderKeepsLease == ASSUME DistinctOwners PROVE Spec => HolderUndisturbed
<1>1. IInv /\ [Next]_vars =>
        [\A a \in Actors :
           InTerm(a) /\ (holder' # a \/ pid' # pid)
             => pc'[a] # pc[a] \/ retry' # retry]_vars
  BY StepDisturbsNobody
<1>. QED BY <1>1, InitInv, NextInv, PTL DEF Spec, HolderUndisturbed

\* A worker that becomes idle drops its process's entry on the way, or leaves
\* it behind because acquire_lock raised.
LEMMA IdleDropsEntry ==
  ASSUME TypeOK, [Next]_vars, NEW w \in Workers, pc[w] # "idle"
  PROVE  pc'[w] # "idle" \/ ~busy'[ProcessOf[w]] \/ leaked'[ProcessOf[w]]
<1> USE ConstantsAssumption DEF TypeOK, Actors, Goto
<1>1. ASSUME NEW v \in Workers, Select(v) \/ Skip(v) \/ PauseForQuota(v) \/ Register(v) \/ EnterAdvance(v)
      PROVE pc'[w] # "idle" \/ ~busy'[ProcessOf[w]]
  BY <1>1 DEF Select, Skip, Drop, PauseForQuota, Register, EnterAdvance
<1>2. ASSUME NEW v \in Workers, AgentStep(v) \/ EnsureLock(v) \/ CommitDone(v)
      PROVE pc'[w] # "idle"
  BY <1>2 DEF AgentStep, PrepareAgent, LaunchAgent, RegisterPid, AgentEnds, EnsureLock, CommitDone
<1>3. ASSUME NEW v \in Workers, LeaveAdvance(v) \/ ReapWorktree(v) \/ StopHeartbeat(v) \/ ClearPid(v) \/ Acquire(v)
      PROVE pc'[w] # "idle"
  BY <1>3 DEF LeaveAdvance, Persist, Unwind, ReapWorktree, StopHeartbeat, ClearPid, Acquire
<1>4. ASSUME NEW a \in Actors, Finalize(a) PROVE pc'[w] # "idle" \/ ~busy'[ProcessOf[w]]
  BY <1>4 DEF Finalize, ReleaseLock, Discard, Drop
<1>5. ASSUME NEW v \in Workers, HeartbeatStep(v) PROVE pc'[w] # "idle"
  BY <1>5 DEF HeartbeatStep, HeartbeatWakes, HeartbeatRenews, HeartbeatFails, HeartbeatLoses, StopAdvance
<1>6. ASSUME NEW k \in Cleaners, AcquireCleanup(k) \/ CleanupDone(k) PROVE pc'[w] # "idle"
  BY <1>6 DEF AcquireCleanup, CleanupDone
<1>7. ASSUME NEW p \in Processes, ProcessStep(p) PROVE pc'[w] # "idle"
  BY <1>7 DEF ProcessStep, Reclaim, RetryRelease, Stop, StopOrchestrators, Crash, Drop
<1>8. CASE RouteStep \/ Tick \/ UNCHANGED vars
  BY <1>8, RouteFrame DEF memory, Tick, vars
<1>9. ASSUME NEW v \in Workers, AcquireRaises(v) PROVE pc'[w] # "idle" \/ leaked'[ProcessOf[w]]
  BY <1>9 DEF AcquireRaises
<1>. QED BY <1>1, <1>2, <1>3, <1>4, <1>5, <1>6, <1>7, <1>8, <1>9
         DEF Next, WorkerStep, CleanerStep

\* An entry left behind stays known as such until it goes.
LEMMA LeakStays ==
  ASSUME TypeOK, [Next]_vars, NEW p \in Processes, busy[p], leaked[p]
  PROVE  ~busy'[p] \/ leaked'[p]
<1> USE ConstantsAssumption DEF TypeOK, Actors, memory
<1>1. ASSUME NEW v \in Workers, Select(v) \/ Skip(v) \/ AcquireRaises(v) PROVE ~busy'[p] \/ leaked'[p]
  BY <1>1 DEF Select, Skip, AcquireRaises, Drop
<1>2. ASSUME NEW v \in Workers, PauseForQuota(v) \/ Register(v) \/ EnterAdvance(v) PROVE leaked'[p]
  BY <1>2 DEF PauseForQuota, Register, EnterAdvance
<1>3. ASSUME NEW v \in Workers, AgentStep(v) \/ EnsureLock(v) \/ CommitDone(v) \/ HeartbeatStep(v)
      PROVE leaked'[p]
  BY <1>3 DEF AgentStep, PrepareAgent, LaunchAgent, RegisterPid, AgentEnds, EnsureLock, CommitDone,
     HeartbeatStep, HeartbeatWakes, HeartbeatRenews, HeartbeatFails, HeartbeatLoses, StopAdvance
<1>4. ASSUME NEW v \in Workers, LeaveAdvance(v) \/ ReapWorktree(v) \/ StopHeartbeat(v) \/ ClearPid(v) \/ Acquire(v)
      PROVE leaked'[p]
  BY <1>4 DEF LeaveAdvance, Persist, Unwind, ReapWorktree, StopHeartbeat, ClearPid, Acquire
<1>5. ASSUME NEW a \in Actors, Finalize(a) PROVE ~busy'[p] \/ leaked'[p]
  BY <1>5 DEF Finalize, ReleaseLock, Discard, Drop
<1>6. ASSUME NEW k \in Cleaners, AcquireCleanup(k) \/ CleanupDone(k) PROVE leaked'[p]
  BY <1>6 DEF AcquireCleanup, CleanupDone
<1>7. ASSUME NEW q \in Processes, ProcessStep(q) PROVE ~busy'[p] \/ leaked'[p]
  BY <1>7 DEF ProcessStep, Reclaim, RetryRelease, Stop, StopOrchestrators, Crash, Drop
<1>8. CASE RouteStep \/ Tick \/ UNCHANGED vars
  BY <1>8, RouteFrame DEF Tick, vars
<1>. QED BY <1>1, <1>2, <1>3, <1>4, <1>5, <1>6, <1>7, <1>8 DEF Next, WorkerStep, CleanerStep

\* An entry appears only for a worker that was just given the workflow.
LEMMA EntryNeedsWorker ==
  ASSUME TypeOK, [Next]_vars, NEW p \in Processes, busy'[p], ~busy[p]
  PROVE  \E w \in Workers : ProcessOf[w] = p /\ pc'[w] # "idle"
<1> USE ConstantsAssumption DEF TypeOK, Actors, Goto, memory
<1>1. ASSUME NEW v \in Workers, Select(v) PROVE ProcessOf[v] = p /\ pc'[v] # "idle"
  BY <1>1 DEF Select
<1>2. ASSUME NEW v \in Workers,
             Skip(v) \/ AcquireRaises(v) \/ PauseForQuota(v) \/ Register(v) \/ EnterAdvance(v)
      PROVE FALSE
  BY <1>2 DEF Skip, Drop, AcquireRaises, PauseForQuota, Register, EnterAdvance
<1>3. ASSUME NEW v \in Workers, AgentStep(v) \/ EnsureLock(v) \/ CommitDone(v) PROVE FALSE
  BY <1>3 DEF AgentStep, PrepareAgent, LaunchAgent, RegisterPid, AgentEnds, EnsureLock, CommitDone
<1>4. ASSUME NEW v \in Workers, LeaveAdvance(v) \/ ReapWorktree(v) \/ StopHeartbeat(v) \/ ClearPid(v) \/ Acquire(v)
      PROVE FALSE
  BY <1>4 DEF LeaveAdvance, Persist, Unwind, ReapWorktree, StopHeartbeat, ClearPid, Acquire
<1>5. ASSUME NEW a \in Actors, Finalize(a) PROVE FALSE
  BY <1>5 DEF Finalize, ReleaseLock, Discard, Drop
<1>6. ASSUME NEW v \in Workers, HeartbeatStep(v) PROVE FALSE
  BY <1>6 DEF HeartbeatStep, HeartbeatWakes, HeartbeatRenews, HeartbeatFails, HeartbeatLoses, StopAdvance
<1>7. ASSUME NEW k \in Cleaners, AcquireCleanup(k) \/ CleanupDone(k) PROVE FALSE
  BY <1>7 DEF AcquireCleanup, CleanupDone
<1>8. ASSUME NEW q \in Processes, ProcessStep(q) PROVE FALSE
  BY <1>8 DEF ProcessStep, Reclaim, RetryRelease, Stop, StopOrchestrators, Crash, Drop
<1>9. CASE RouteStep \/ Tick \/ UNCHANGED vars
  BY <1>9, RouteFrame DEF memory, Tick, vars
<1>. QED BY <1>1, <1>2, <1>3, <1>4, <1>5, <1>6, <1>7, <1>8, <1>9
         DEF Next, WorkerStep, CleanerStep

LEMMA EntryStep == ASSUME TypeOK, EntryHasWorker, [Next]_vars PROVE EntryHasWorker'
<1>1. SUFFICES ASSUME NEW p \in Processes, busy'[p]
               PROVE  leaked'[p] \/ \E w \in Workers : ProcessOf[w] = p /\ pc'[w] # "idle"
  BY DEF EntryHasWorker, Running
<1>2. CASE ~busy[p]
  BY <1>1, <1>2, EntryNeedsWorker
<1>3. CASE busy[p] /\ leaked[p]
  BY <1>1, <1>3, LeakStays
<1>4. CASE busy[p] /\ ~leaked[p]
  <2>1. PICK w \in Workers : ProcessOf[w] = p /\ pc[w] # "idle"
    BY <1>4 DEF EntryHasWorker, Running
  <2>. QED BY <1>1, <2>1, IdleDropsEntry
<1>. QED BY <1>2, <1>3, <1>4

\* Every way out of _advance_single but one drops the entry of _in_progress_ids:
\* an entry without a thread is what an acquire_lock that raised has left.
THEOREM OnlyRaiseLeaksEntry == ASSUME DistinctOwners PROVE Spec => []EntryHasWorker
<1>1. Init => EntryHasWorker
  BY DEF Init, EntryHasWorker
<1>2. IInv /\ EntryHasWorker /\ [Next]_vars => EntryHasWorker'
  BY EntryStep DEF IInv
<1>. QED BY <1>1, <1>2, InitInv, NextInv, PTL DEF Spec

-----------------------------------------------------------------------------
(* The cleanup sweep may break a stale lease of a completed workflow.  That  *)
(* spares every advance in a phase: as long as the row still names a worker  *)
(* that is in one, the status is not completed, because the worker entered   *)
(* with another one, its own outcome is written as it leaves the phase, and  *)
(* that of a superseded worker is not written at all.  What is left are the  *)
(* verification override, which no lease fences, and an advance that found   *)
(* the workflow completed and went on: overtaken.                            *)

PhaseInv ==
  holder \in Workers /\ InPhase(holder) => status # "completed" \/ holder \in overtaken

\* Who takes the lease is not in a phase: a worker has yet to look at the status.
LEMMA TakersOutside ==
  ASSUME TypeOK, NEW a \in Actors,
         \/ a \in Workers /\ Acquire(a)
         \/ a \in Cleaners /\ AcquireCleanup(a)
  PROVE  holder' = a /\ (a \in Workers => ~InPhase(a)')
BY ConstantsAssumption DEF TypeOK, Acquire, AcquireCleanup, Take, Goto, InPhase, Actors

LEMMA PhaseStep == ASSUME DistinctOwners, IInv, PhaseInv, [Next]_vars PROVE PhaseInv'
<1> USE ConstantsAssumption
<1>1. ASSUME NEW w \in Workers, Select(w) \/ Skip(w) \/ PauseForQuota(w) \/ Register(w) PROVE PhaseInv'
  BY <1>1 DEF PhaseInv, IInv, TypeOK, InPhase, Goto, Select, Skip, PauseForQuota, Register, row, Actors
<1>2. ASSUME NEW w \in Workers, EnterAdvance(w) PROVE PhaseInv'
  BY <1>2 DEF PhaseInv, IInv, TypeOK, InPhase, Goto, EnterAdvance, row, Actors
<1>3. ASSUME NEW w \in Workers, AgentStep(w) \/ CommitDone(w) \/ Unwind(w) \/ ReapWorktree(w) PROVE PhaseInv'
  BY <1>3 DEF PhaseInv, IInv, TypeOK, InPhase, Goto, AgentStep, PrepareAgent, LaunchAgent, RegisterPid,
     AgentEnds, CommitDone, Unwind, ReapWorktree, row, Actors
<1>4. ASSUME NEW w \in Workers, Persist(w) PROVE PhaseInv'
  <2>1. CASE Owns(w)
    <3>1. holder = w
      BY <2>1 DEF IInv, TypeOK, Owns, DistinctOwners, Actors
    <3>2. holder' = w /\ pc'[w] \in {"reaping", "final"} /\ (pc'[w] = "reaping" => status' = "failed")
      BY <1>4, <2>1, <3>1 DEF IInv, TypeOK, Persist, Goto, Actors
    <3>. QED BY <3>2 DEF PhaseInv, InPhase
  <2>2. CASE ~Owns(w)
    BY <1>4, <2>2 DEF PhaseInv, IInv, TypeOK, InPhase, Persist, Goto, Actors
  <2>. QED BY <2>1, <2>2
<1>5. ASSUME NEW w \in Workers, StopHeartbeat(w) \/ ClearPid(w) PROVE PhaseInv'
  BY <1>5 DEF PhaseInv, IInv, TypeOK, InPhase, Goto, StopHeartbeat, ClearPid, row, Actors
<1>6. ASSUME NEW w \in Workers, Acquire(w) PROVE PhaseInv'
  BY <1>6, TakersOutside DEF PhaseInv, IInv, Actors
<1>14. ASSUME NEW w \in Workers, AcquireRaises(w) PROVE PhaseInv'
  BY <1>14 DEF PhaseInv, IInv, TypeOK, InPhase, Goto, AcquireRaises, Actors
<1>7. ASSUME NEW k \in Cleaners, AcquireCleanup(k) PROVE PhaseInv'
  BY <1>7, TakersOutside DEF PhaseInv, IInv, Actors
<1>8. ASSUME NEW w \in Workers, EnsureLock(w) PROVE PhaseInv'
  BY <1>8 DEF PhaseInv, IInv, TypeOK, InPhase, Goto, EnsureLock, Refresh, row, Actors
<1>9. ASSUME NEW w \in Workers, HeartbeatStep(w) PROVE PhaseInv'
  BY <1>9 DEF PhaseInv, InPhase, HeartbeatStep, HeartbeatWakes, HeartbeatRenews, Refresh, HeartbeatFails,
     HeartbeatLoses, StopAdvance, row
<1>10. ASSUME NEW a \in Actors, Finalize(a) PROVE PhaseInv'
  BY <1>10 DEF PhaseInv, IInv, TypeOK, InPhase, Goto, Finalize, ReleaseLock, Discard, row, Actors
<1>11. ASSUME NEW k \in Cleaners, CleanupDone(k) PROVE PhaseInv'
  BY <1>11 DEF PhaseInv, IInv, TypeOK, InPhase, Goto, CleanupDone, row, Actors
<1>12. ASSUME NEW p \in Processes, ProcessStep(p) PROVE PhaseInv'
  BY <1>12 DEF PhaseInv, IInv, TypeOK, InPhase, ProcessStep, Reclaim, RetryRelease, Stop, StopOrchestrators,
     Crash, row, Actors
<1>13. CASE RouteStep \/ Tick \/ UNCHANGED vars
  BY <1>13 DEF PhaseInv, InPhase, RouteStep, RetryReset, Pause, Resume, Cancel, Done, OverrideDecides,
     OverrideWrites, Advancing, Tick, vars, row
<1>. QED BY <1>1, <1>2, <1>3, <1>4, <1>5, <1>6, <1>7, <1>8, <1>9, <1>10, <1>11, <1>12, <1>13, <1>14
         DEF Next, WorkerStep, LeaveAdvance, CleanerStep, Actors

\* Only acquire_cleanup_lock makes a sweep the holder.
LEMMA SweepBreaksStep ==
  ASSUME IInv, PhaseInv, [Next]_vars, NEW k \in Cleaners, holder' = k, holder \in Workers
  PROVE  ~InPhase(holder) \/ holder \in overtaken
<1> USE ConstantsAssumption
<1>1. holder' # holder /\ holder' # None /\ holder' \notin Workers
  BY DEF Actors
<1>2. ASSUME NEW w \in Workers, WorkerStep(w) \/ HeartbeatStep(w) PROVE FALSE
  <2>1. ~Acquire(w)
    BY TakersOutside DEF Actors, IInv
  <2>. QED BY <1>1, <1>2, <2>1 DEF WorkerStep, HeartbeatStep, AgentStep, LeaveAdvance, Finalize, Select, Skip,
     PauseForQuota, Register, EnterAdvance, PrepareAgent, LaunchAgent, RegisterPid, AgentEnds, EnsureLock,
     AcquireRaises, Refresh, CommitDone, Persist, Unwind, ReapWorktree, StopHeartbeat, ClearPid, ReleaseLock, Discard,
     HeartbeatWakes, HeartbeatRenews, HeartbeatFails, HeartbeatLoses, StopAdvance, row
<1>3. ASSUME NEW j \in Cleaners, AcquireCleanup(j) PROVE ~InPhase(holder) \/ holder \in overtaken
  BY <1>3 DEF AcquireCleanup, PhaseInv, Actors
<1>4. ASSUME NEW j \in Cleaners, CleanupDone(j) \/ Finalize(j) PROVE FALSE
  BY <1>1, <1>4 DEF CleanupDone, Finalize, ReleaseLock, Discard, row
<1>5. ASSUME NEW p \in Processes, ProcessStep(p) PROVE FALSE
  BY <1>1, <1>5 DEF ProcessStep, Reclaim, RetryRelease, Stop, StopOrchestrators, Crash, Drop, row
<1>6. CASE RouteStep \/ Tick \/ UNCHANGED vars
  BY <1>1, <1>6, RouteFrame DEF memory, Tick, vars, row
<1>. QED BY <1>2, <1>3, <1>4, <1>5, <1>6 DEF Next, CleanerStep

\* acquire_cleanup_lock breaks no lease whose holder is in a phase, for how
\* long ever the lease is overdue and whatever agent_pid says, unless somebody
\* else completed the workflow under that advance.
THEOREM SweepSparesAdvances == ASSUME DistinctOwners PROVE Spec => SweepBreaksNoAdvance
<1>1. Init => PhaseInv
  BY ConstantsAssumption DEF Init, PhaseInv, Actors
<1>2. IInv /\ PhaseInv /\ [Next]_vars => PhaseInv'
  BY PhaseStep
<1>3. IInv /\ PhaseInv /\ [Next]_vars =>
        [\A k \in Cleaners : holder' = k /\ holder \in Workers =>
           ~InPhase(holder) \/ holder \in overtaken]_vars
  BY SweepBreaksStep
<1>. QED BY <1>1, <1>2, <1>3, InitInv, NextInv, PTL DEF Spec, SweepBreaksNoAdvance

-----------------------------------------------------------------------------
(* The refinement of ExclusiveLease.  TermOwnsLock keeps the actors in term  *)
(* with the row; that leaves the lease itself, which passes from one actor   *)
(* to another only when it is free or stale.                                 *)

LEMMA HolderStep ==
  TypeOK /\ [Next]_vars => holder' = holder \/ holder' = None \/ holder = None \/ Stale
<1> SUFFICES ASSUME TypeOK, [Next]_vars, holder # None, ~Stale
             PROVE  holder' = holder \/ holder' = None
  OBVIOUS
<1>1. ASSUME NEW w \in Workers, Acquire(w) PROVE FALSE
  BY <1>1 DEF Acquire
<1>9. ASSUME NEW w \in Workers, AcquireRaises(w) PROVE holder' = holder
  BY <1>9 DEF AcquireRaises
<1>2. ASSUME NEW k \in Cleaners, AcquireCleanup(k) PROVE FALSE
  BY <1>2 DEF AcquireCleanup
<1>3. ASSUME NEW w \in Workers, QuietStep(w) PROVE holder' = holder
  BY <1>3 DEF QuietStep, AgentStep, LeaveAdvance, Select, Skip, PauseForQuota, Register,
     EnterAdvance, PrepareAgent, LaunchAgent, RegisterPid, AgentEnds, CommitDone, Persist, Unwind,
     ReapWorktree, StopHeartbeat, ClearPid, row
<1>4. ASSUME NEW w \in Workers, EnsureLock(w) \/ HeartbeatRenews(w) \/ QuietHeartbeat(w)
      PROVE holder' = holder
  BY <1>4 DEF EnsureLock, HeartbeatRenews, Refresh, QuietHeartbeat, HeartbeatWakes,
     HeartbeatFails, HeartbeatLoses, StopAdvance, row
<1>5. ASSUME NEW a \in Actors, Finalize(a) PROVE holder' = holder \/ holder' = None
  BY <1>5 DEF Finalize, ReleaseLock, Discard, Drop, row
<1>6. ASSUME NEW k \in Cleaners, CleanupDone(k) PROVE holder' = holder
  BY <1>6 DEF CleanupDone, row
<1>7. ASSUME NEW p \in Processes, ProcessStep(p) PROVE holder' = holder \/ holder' = None
  BY <1>7 DEF ProcessStep, Reclaim, RetryRelease, Stop, StopOrchestrators, Crash, Drop, row
<1>8. CASE RouteStep \/ Tick \/ UNCHANGED vars
  BY <1>8, RouteFrame DEF memory, Tick, vars, row
<1>. QED BY <1>1, <1>2, <1>3, <1>4, <1>5, <1>6, <1>7, <1>8, <1>9
         DEF Next, WorkerStep, HeartbeatStep, CleanerStep, QuietStep, QuietHeartbeat, Actors

LEMMA WithinOwner ==
  IInv => /\ LiveOwner \in Actors \union {None}
          /\ Within = {} \/ (LiveOwner # None /\ Within = {LiveOwner})
<1> SUFFICES ASSUME IInv
             PROVE  /\ LiveOwner \in Actors \union {None}
                    /\ Within = {} \/ (LiveOwner # None /\ Within = {LiveOwner})
  OBVIOUS
<1>1. LiveOwner \in Actors \union {None}
  BY DEF IInv, TypeOK, LiveOwner
<1>2. \A a \in Within : a \in Actors /\ holder = a /\ holder # None /\ ~Stale
  BY TermIsLive DEF Within
<1>3. \A a \in Within : LiveOwner = a /\ a # None
  BY <1>2 DEF LiveOwner
<1>. QED BY <1>1, <1>3

LEMMA LeaseInit == Init => Lease!Init
<1> SUFFICES ASSUME Init PROVE Lease!Init
  OBVIOUS
<1>1. LiveOwner = None
  BY DEF Init, LiveOwner
<1>2. Within = {}
  BY InitInv, WithinOwner, <1>1
<1>. QED BY <1>1, <1>2 DEF Lease!Init

LEMMA LeaseNext == IInv /\ IInv' /\ [Next]_vars => [Lease!Next]_<<LiveOwner, Within>>
<1> SUFFICES ASSUME IInv, IInv', [Next]_vars PROVE Lease!Next
  OBVIOUS
<1>1. /\ LiveOwner \in Actors \union {None}
      /\ Within = {} \/ (LiveOwner # None /\ Within = {LiveOwner})
  BY WithinOwner
<1>2. (/\ LiveOwner \in Actors \union {None}
       /\ Within = {} \/ (LiveOwner # None /\ Within = {LiveOwner}))'
  BY WithinOwner, PTL
<1>4. LiveOwner' = LiveOwner \/ LiveOwner = None \/ LiveOwner' = None
  BY HolderStep DEF IInv, LiveOwner
<1>5. CASE LiveOwner' = None
  BY <1>2, <1>5 DEF Lease!Next, Lease!End
<1>6. CASE LiveOwner' # None /\ LiveOwner' = LiveOwner
  <2>1. LiveOwner \in Actors /\ Within' \subseteq {LiveOwner}
    BY <1>1, <1>2, <1>6
  <2>2. Lease!Work(LiveOwner)
    BY <1>6, <2>1 DEF Lease!Work
  <2>. QED BY <2>1, <2>2 DEF Lease!Next
<1>7. CASE LiveOwner' # None /\ LiveOwner = None
  <2>1. LiveOwner' \in Actors /\ Within' \subseteq {LiveOwner'} /\ Within = {}
    BY <1>1, <1>2, <1>7 DEF Actors
  <2>2. Lease!Grant(LiveOwner')
    BY <1>7, <2>1 DEF Lease!Grant
  <2>. QED BY <2>1, <2>2 DEF Lease!Next
<1>. QED BY <1>4, <1>5, <1>6, <1>7

\* The columns locked_at and locked_by, with everything that reads and writes
\* them, implement the abstract exclusive lease.
THEOREM Refinement == ASSUME DistinctOwners PROVE Spec => ImplementsLease
<1>1. IInv /\ IInv' /\ [Next]_vars => [Lease!Next]_<<LiveOwner, Within>>
  BY LeaseNext
<1>. QED BY <1>1, LeaseInit, InitInv, NextInv, PTL DEF Spec, ImplementsLease, Lease!Spec
=============================================================================
