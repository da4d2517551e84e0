----------------------- MODULE WorkflowScheduler_proofs -----------------------
(***************************************************************************)
(* Proofs about WorkflowScheduler, for any set of workflows, owners,       *)
(* batches and git keys and for any caps.  The invariants are built up in  *)
(* layers, each proved from those before it:                               *)
(*                                                                         *)
(*   TypeOK      types, for every Moves;                                   *)
(*   ThreadInv   a running thread has an entry, and what the poll read of  *)
(*               leases covers the threads that outlive the read;          *)
(*   the caps    entries within the caps, and so the threads;              *)
(*   RowInv, KeyInv   conflict keys, for Moves within KeyMoves;            *)
(*   TreeInv     what an entry reserves, for the same Moves;               *)
(*   FrozenInv   frozen agents, for every Moves.                           *)
(***************************************************************************)
EXTENDS WorkflowScheduler, TLAPS, FiniteSetTheorems, WellFoundedInduction

USE DEF routes

\* The statuses and phases a poll read, and the keys of a workflow, are such.
LEMMA ReadType == ASSUME TypeOK PROVE Read \in [Workflows -> [status : Statuses, phase : Phases]]
BY DEF TypeOK, Rows, Read

LEMMA NotReadType == NotRead \in [Workflows -> [status : Statuses, phase : Phases]]
BY DEF NotRead, Statuses, Phases, ActiveStatuses, QueueAdvance

LEMMA ConflictKeysType ==
  ASSUME NEW w \in Workflows, NEW phase PROVE ConflictKeys(w, phase) \in SUBSET Keys
BY DataAssumption DEF ConflictKeys, Keys

LEMMA StatusOfType == \A phase \in Phases : StatusOf(phase) \in ActiveStatuses
BY DEF StatusOf, Phases, ActiveStatuses

LEMMA ActiveType == ActiveStatuses \subseteq Statuses
BY DEF Statuses

\* A row with another status, mark or phase is a row.
LEMMA RowWith ==
  ASSUME NEW r \in Rows, NEW status \in Statuses, NEW mark \in Marks
  PROVE  /\ [r EXCEPT !.status = status] \in Rows
         /\ [r EXCEPT !.status = status, !.mark = mark] \in Rows
BY DEF Rows

LEMMA RestType == ASSUME NEW r \in Rows, NEW phase \in Phases PROVE Rest(r, phase) \in Rows
<1>1. StatusOf(phase) \in Statuses
  BY StatusOfType, ActiveType
<1> QED
  BY <1>1 DEF Rest, Rows

PollType == [step : PollSteps, todo : SUBSET Workflows, pick : SUBSET Workflows,
             seen : [Workflows -> [status : Statuses, phase : Phases]]]

LEMMA LoopingType ==
  ASSUME NEW step \in PollSteps, NEW next \in PollSteps, NEW todo \in SUBSET Workflows,
         NEW seen \in [Workflows -> [status : Statuses, phase : Phases]]
  PROVE  /\ Looping(step, todo, seen, next) \in PollType
         /\ At(step, todo, seen) \in PollType
BY NotReadType DEF Looping, At, PollType

LEMMA InitTypes == Init => TypeOK
<1> SUFFICES ASSUME Init PROVE TypeOK
  OBVIOUS
<1>1. row \in [Workflows -> Rows]
  BY DEF Init, Rows, Statuses, ActiveStatuses, QueueAdvance, Phases, Marks
<1>2. poll \in PollType
  BY LoopingType, NotReadType DEF Init, PollSteps
<1> QED
  BY <1>1, <1>2 DEF Init, TypeOK, Phases, PollType

\* What a phase handler writes is a row.
LEMMA ResultsType == ASSUME TypeOK, NEW w \in Workflows PROVE Results(w) \subseteq Rows
<1>1. row[w] \in Rows /\ work[w] \in Phases
  BY DEF TypeOK
<1>2. \A status \in Statuses : Settle(row[w], status) \in Rows
  BY <1>1 DEF Settle, Rows, Marks
<1>3. \A phase \in Phases : Rest(row[w], phase) \in Rows
  BY <1>1, RestType
<1>4. [row[w] EXCEPT !.status = "paused", !.mark = "window"] \in Rows
  BY <1>1 DEF Rows, Statuses, Marks
<1>5. \A status \in Statuses : [Settle(row[w], status) EXCEPT !.verdict = TRUE] \in Rows
  BY <1>1 DEF Settle, Rows, Marks
<1>6. row[w].status \in Statuses
  BY <1>1 DEF Rows
<1>7. /\ {"failed", "timeout", "completed", "paused", row[w].status} \subseteq Statuses
      /\ Phases = {"work", "wait", "accept"}
  BY <1>6 DEF Statuses, QueueAdvance, Phases
<1>8. CASE work[w] = "work"
  BY <1>1, <1>2, <1>3, <1>4, <1>7, <1>8 DEF Results
<1>9. CASE work[w] = "wait"
  BY <1>1, <1>2, <1>3, <1>7, <1>9 DEF Results
<1>10. CASE work[w] = "accept"
  BY <1>1, <1>2, <1>5, <1>7, <1>10 DEF Results
<1> QED
  BY <1>1, <1>7, <1>8, <1>9, <1>10

LEMMA PollTypes == ASSUME TypeOK, Poll PROVE TypeOK'
<1> USE DEF TypeOK
<1>0. /\ poll \in PollType
      /\ poll.seen \in [Workflows -> [status : Statuses, phase : Phases]]
      /\ poll.todo \in SUBSET Workflows
      /\ \A w : poll.todo \ {w} \in SUBSET Workflows
  BY DEF PollType
<1>1. CASE ReadQueued
  <2>1. poll' \in PollType
    BY <1>1, LoopingType, NotReadType DEF ReadQueued, Heads, PollSteps
  <2> QED BY <1>1, <2>1 DEF ReadQueued, table, entries, threads, PollType
<1>2. ASSUME NEW w \in Workflows, CheckBatch(w) PROVE TypeOK'
  <2>1. poll' \in PollType
    <3>1. [poll EXCEPT !.todo = @ \ {w}, !.pick = {w}] \in PollType
      BY <1>0 DEF PollType
    <3>2. poll.todo \ {w} \in SUBSET Workflows
      BY <1>0 DEF PollType
    <3>3. Looping("promoting", poll.todo \ {w}, NotRead, "resume") \in PollType
      BY <3>2, LoopingType, NotReadType DEF PollSteps
    <3> QED BY <1>2, <3>1, <3>3 DEF CheckBatch
  <2> QED BY <1>2, <2>1 DEF CheckBatch, table, entries, threads, PollType
<1>3. ASSUME NEW w \in Workflows, Promote(w) PROVE TypeOK'
  <2>1. poll' \in PollType
    BY <1>0, <1>3, LoopingType, NotReadType DEF Promote, PollSteps
  <2>2. [row[w] EXCEPT !.status = "running"] \in Rows
    BY RowWith DEF Statuses, ActiveStatuses, Marks
  <2>3. row' \in [Workflows -> Rows]
    BY <1>3, <2>2 DEF Promote
  <2> QED BY <1>3, <2>1, <2>3 DEF Promote, entries, threads, PollType
<1>4. CASE ReadMarked
  <2>1. poll' \in PollType
    BY <1>4, LoopingType, ReadType DEF ReadMarked, PollSteps
  <2> QED BY <1>4, <2>1 DEF ReadMarked, table, entries, threads, PollType
<1>5. ASSUME NEW w \in Workflows, AutoResume(w) PROVE TypeOK'
  <2>1. poll' \in PollType
    BY <1>0, <1>5, LoopingType DEF AutoResume, PollSteps
  <2>2. StatusOf(poll.seen[w].phase) \in Statuses
    BY <1>0, StatusOfType, ActiveType DEF PollType
  <2>3. row' \in [Workflows -> Rows]
    <3>1. [row[w] EXCEPT !.status = StatusOf(poll.seen[w].phase), !.mark = "none"] \in Rows
      BY <2>2, RowWith DEF Marks
    <3> QED BY <1>5, <3>1 DEF AutoResume
  <2> QED BY <1>5, <2>1, <2>3 DEF AutoResume, entries, threads, PollType
<1>6. ASSUME NEW w \in Workflows, StayPaused(w) PROVE TypeOK'
  <2>1. poll' \in PollType
    BY <1>0, <1>6, LoopingType DEF StayPaused, PollSteps
  <2> QED BY <1>6, <2>1 DEF StayPaused, table, entries, threads, PollType
<1>7. CASE ReadPausedEntries
  <2>1. poll' \in PollType
    BY <1>7, LoopingType, ReadType DEF ReadPausedEntries, PollSteps
  <2> QED BY <1>7, <2>1 DEF ReadPausedEntries, table, entries, threads, PollType
<1>8. CASE DropPausedKeys
  <2>1. poll' \in PollType
    BY <1>8, LoopingType, NotReadType DEF DropPausedKeys, PollSteps
  <2> QED BY <1>8, <2>1 DEF DropPausedKeys, table, threads, PollType
<1>9. CASE ReadActive
  <2>1. poll' \in PollType
    BY <1>9, LoopingType, ReadType DEF ReadActive, PollSteps
  <2> QED BY <1>9, <2>1 DEF ReadActive, table, entries, threads, PollType
<1>10. CASE FilterActive
  <2>1. poll' \in PollType
    BY <1>0, <1>10 DEF FilterActive, PollSteps, PollType
  <2> QED BY <1>10, <2>1 DEF FilterActive, table, threads, PollType
<1>11. CASE Select
  <2>1. poll' \in PollType
    BY <1>11, LoopingType, NotReadType DEF Select, PollSteps
  <2>2. \A w \in Workflows : Reserved(w) \in SUBSET Keys
    BY ConflictKeysType DEF Reserved
  <2> QED BY <1>11, <2>1, <2>2 DEF Select, table, PollType
<1> QED
  BY <1>1, <1>2, <1>3, <1>4, <1>5, <1>6, <1>7, <1>8, <1>9, <1>10, <1>11 DEF Poll

LEMMA WorkerTypes == ASSUME TypeOK, NEW w \in Workflows, Worker(w) PROVE TypeOK'
<1> USE DEF TypeOK, Goes
<1>0. row[w].phase \in Phases
  BY DEF Rows
<1>1. CASE AcquireLease(w) \/ AcquireRaises(w) \/ Return(w) \/ StartAgent(w)
  BY <1>1 DEF AcquireLease, AcquireRaises, Return, StartAgent, table, entries
<1>5. CASE Enter(w)
  BY <1>0, <1>5 DEF Enter, table, entries
<1>6. CASE AgentEnds(w)
  BY <1>6 DEF AgentEnds, table, entries
<1>2. CASE PauseForQuota(w)
  <2>1. [row[w] EXCEPT !.status = "paused", !.mark = "quota"] \in Rows
    BY RowWith DEF Statuses, Marks
  <2> QED BY <1>2, <2>1 DEF PauseForQuota, entries
<1>3. ASSUME NEW result \in Results(w), Finish(w, result) PROVE TypeOK'
  BY <1>3, ResultsType DEF Finish, entries
<1>4. CASE Discard(w)
  BY <1>4 DEF Discard, Drop, table
<1> QED
  BY <1>1, <1>2, <1>3, <1>4, <1>5, <1>6 DEF Worker

LEMMA OperatorTypes == ASSUME TypeOK, NEW w \in Workflows, Operator(w) PROVE TypeOK'
<1> USE DEF TypeOK
<1>0. StatusOf(row[w].phase) \in Statuses
  BY StatusOfType, ActiveType DEF Rows
<1>7. [row[w] EXCEPT !.status = "paused"] \in Rows
  BY RowWith DEF Statuses, Marks
<1>1. CASE Pause(w)
  <2>1. row' \in [Workflows -> Rows]
    <3>1. row' \in {row, [row EXCEPT ![w] = [row[w] EXCEPT !.status = "paused"]]}
      BY <1>1 DEF Pause, PauseReads, PauseSignals, PauseWrites
    <3> QED BY <1>7, <3>1
  <2>2. frozen' \in [Workflows -> BOOLEAN] /\ abandoned' \in [Workflows -> BOOLEAN]
    BY <1>1 DEF Pause, PauseReads, PauseSignals, PauseWrites, AgentPid, threads
  <2>3. pausing' \in [Workflows -> {"no", "signal", "write"}]
    BY <1>1 DEF Pause, PauseReads, PauseSignals, PauseWrites
  <2> QED
    BY <1>1, <2>1, <2>2, <2>3
    DEF Pause, PauseReads, PauseSignals, PauseWrites, entries, threads
<1>2. CASE ResumeSignals(w)
  <2>1. row[w].phase \in Phases /\ row[w].mark \in Marks
    BY DEF Rows
  <2> QED BY <1>2, <2>1 DEF ResumeSignals, entries
<1>8. CASE ResumeWrites(w)
  <2>1. PICK read \in resuming[w] :
          row' = [row EXCEPT ![w].status = StatusOf(read.phase),
                             ![w].mark = IF read.mark = "window" THEN "none" ELSE @]
    BY <1>8 DEF ResumeWrites
  <2>2. read.phase \in Phases
    OBVIOUS
  <2>3. StatusOf(read.phase) \in Statuses
    BY <2>2, StatusOfType, ActiveType
  <2>4. row[w].mark \in Marks /\ "none" \in Marks
    BY DEF Rows, Marks
  <2>5. \A mark \in Marks : [row[w] EXCEPT !.status = StatusOf(read.phase), !.mark = mark] \in Rows
    BY <2>3, RowWith
  <2>6. row' \in [Workflows -> Rows]
    BY <2>1, <2>4, <2>5
  <2> QED BY <1>8, <2>6 DEF ResumeWrites, entries, threads
<1>3. CASE Stop(w)
  <2>1. \A v \in Workflows : [row[v] EXCEPT !.status = "cancelled"] \in Rows
    BY RowWith DEF Statuses, Marks
  <2>2. row' \in [Workflows -> Rows]
    BY <1>3, <2>1 DEF Stop
  <2> QED BY <1>3, <2>2 DEF Stop, entries
<1>4. CASE Done(w)
  <2>1. Rest(row[w], "work") \in Rows
    BY RestType DEF Phases
  <2> QED BY <1>4, <2>1 DEF Done, threads, entries
<1>5. CASE Retry(w)
  <2>1. [row[w] EXCEPT !.status = StatusOf(row[w].phase), !.mark = "none"] \in Rows
    BY <1>0, RowWith DEF Marks
  <2>2. row' \in [Workflows -> Rows]
    BY <1>5, <2>1 DEF Retry
  <2>3. /\ inProgress' \subseteq Workflows /\ held' \subseteq Keys
        /\ keyMap' \in [Workflows -> SUBSET Keys]
    BY <1>5 DEF Retry
  <2> QED BY <1>5, <2>2, <2>3 DEF Retry, threads
<1> QED
  BY <1>1, <1>2, <1>3, <1>4, <1>5, <1>8 DEF Operator, Resume

LEMMA NextTypes == ASSUME TypeOK, [Next]_vars PROVE TypeOK'
<1>1. CASE UNCHANGED vars
  BY <1>1 DEF vars, TypeOK
<1> QED
  BY <1>1, PollTypes, WorkerTypes, OperatorTypes DEF Next

\* The table, the scheduler's sets and the threads keep their types, whatever
\* the routes and the polls write.
THEOREM TypeCorrect == Spec => []TypeOK
BY InitTypes, NextTypes, PTL DEF Spec

-----------------------------------------------------------------------------
(* Threads and entries.  The reclaim judges entries by the leases that this *)
(* poll read: in between only workers that had a lease by then may run, and *)
(* they are still in the set that was read.                                 *)

\* The leases read in this poll cover every thread that runs.
ReadCoversThreads ==
  poll.step = "filter" => \A w \in Busy : w \in poll.todo /\ worker[w] # "selected"

\* What the filter let through has no entry.
CandidatesNew == poll.step = "select" => poll.todo \cap inProgress = {}

ThreadInv == EveryThreadHasEntry /\ ReadCoversThreads /\ CandidatesNew

LEMMA InitThreads == Init => ThreadInv
BY DEF Init, ThreadInv, EveryThreadHasEntry, ReadCoversThreads, CandidatesNew, Busy, At

LEMMA PollThreads == ASSUME TypeOK, ThreadInv, Poll PROVE ThreadInv'
<1> USE DEF ThreadInv, EveryThreadHasEntry, ReadCoversThreads, CandidatesNew, Busy
<1>1. CASE ReadQueued
  BY <1>1 DEF ReadQueued, Looping, At, entries, threads
<1>2. ASSUME NEW w \in Workflows, CheckBatch(w) \/ Promote(w) PROVE ThreadInv'
  <2>1. poll'.step \notin {"filter", "select"}
    <3>1. CASE CheckBatch(w)
      <4>1. poll.step = "promoting" /\ [poll EXCEPT !.todo = @ \ {w}, !.pick = {w}].step = poll.step
        BY <3>1 DEF TypeOK, CheckBatch
      <4>2. Looping("promoting", poll.todo \ {w}, NotRead, "resume").step \notin {"filter", "select"}
        BY DEF Looping, At
      <4> QED BY <3>1, <4>1, <4>2 DEF CheckBatch
    <3>2. CASE Promote(w)
      BY <3>2 DEF Promote, Looping, At
    <3> QED BY <1>2, <3>1, <3>2
  <2> QED BY <1>2, <2>1 DEF CheckBatch, Promote, entries, threads
<1>3. CASE ReadMarked \/ ReadPausedEntries
  BY <1>3 DEF ReadMarked, ReadPausedEntries, Looping, At, entries, threads
<1>4. ASSUME NEW w \in Workflows, AutoResume(w) \/ StayPaused(w) PROVE ThreadInv'
  BY <1>4 DEF AutoResume, StayPaused, Looping, At, entries, threads
<1>5. CASE DropPausedKeys
  BY <1>5 DEF DropPausedKeys, At, threads
<1>6. CASE ReadActive
  BY <1>6 DEF TypeOK, ReadActive, Prompt, Leased, At, entries, threads
<1>7. CASE FilterActive
  <2>1. \A w \in Busy : w \in poll.todo /\ Leased(w)
    BY <1>7 DEF TypeOK, FilterActive, Leased
  <2>2. Reaped \cap Busy = {}
    BY <2>1 DEF Reaped
  <2>3. poll'.step = "select" /\ poll'.todo \cap inProgress' = {}
    BY <1>7 DEF TypeOK, FilterActive
  <2> QED BY <1>7, <2>2, <2>3 DEF FilterActive, threads
<1>8. CASE Select
  BY <1>8 DEF TypeOK, Select, At
<1> QED
  BY <1>1, <1>2, <1>3, <1>4, <1>5, <1>6, <1>7, <1>8 DEF Poll

LEMMA WorkerThreads ==
  ASSUME TypeOK, ThreadInv, NEW w \in Workflows, Worker(w) PROVE ThreadInv'
<1> USE DEF ThreadInv, EveryThreadHasEntry, ReadCoversThreads, CandidatesNew, Busy, TypeOK, Goes
<1>1. CASE AcquireLease(w) \/ AcquireRaises(w) \/ Return(w)
  BY <1>1 DEF AcquireLease, AcquireRaises, Return, entries
<1>5. CASE PauseForQuota(w) \/ Enter(w)
  BY <1>5 DEF PauseForQuota, Enter, entries
<1>2. CASE StartAgent(w) \/ AgentEnds(w)
  BY <1>2 DEF StartAgent, AgentEnds, entries
<1>3. ASSUME NEW result \in Results(w), Finish(w, result) PROVE ThreadInv'
  BY <1>3 DEF Finish, entries
<1>4. CASE Discard(w)
  BY <1>4 DEF Discard, Drop
<1> QED
  BY <1>1, <1>2, <1>3, <1>4, <1>5 DEF Worker

LEMMA OperatorThreads ==
  ASSUME TypeOK, ThreadInv, NEW w \in Workflows, Operator(w) PROVE ThreadInv'
<1> USE DEF ThreadInv, EveryThreadHasEntry, ReadCoversThreads, CandidatesNew, Busy, TypeOK
<1>1. CASE Pause(w) \/ Resume(w) \/ Done(w)
  BY <1>1 DEF Pause, PauseReads, PauseSignals, PauseWrites, Resume, ResumeSignals,
     ResumeWrites, Done, threads, entries
<1>2. CASE Stop(w)
  BY <1>2 DEF Stop, AgentPid, entries
<1>3. CASE Retry(w)
  BY <1>3 DEF Retry, threads
<1> QED
  BY <1>1, <1>2, <1>3 DEF Operator

LEMMA NextThreads == ASSUME TypeOK, ThreadInv, [Next]_vars PROVE ThreadInv'
<1>1. CASE UNCHANGED vars
  BY <1>1 DEF vars, ThreadInv, EveryThreadHasEntry, ReadCoversThreads, CandidatesNew, Busy
<1> QED
  BY <1>1, PollThreads, WorkerThreads, OperatorThreads DEF Next

\* No reclaim, no retry and no teardown takes the entry of a thread that still
\* runs: _in_progress_ids keeps every poll from advancing a workflow twice.
THEOREM ThreadsHaveEntries == Spec => []EveryThreadHasEntry
<1>1. Init => TypeOK /\ ThreadInv
  BY InitTypes, InitThreads
<1>2. TypeOK /\ ThreadInv /\ [Next]_vars => TypeOK' /\ ThreadInv'
  BY NextTypes, NextThreads
<1>3. ThreadInv => EveryThreadHasEntry
  BY DEF ThreadInv
<1> QED
  BY <1>1, <1>2, <1>3, PTL DEF Spec

-----------------------------------------------------------------------------
(* The caps.  A selection is judged in the order Before: its last member    *)
(* was admitted when all others had their slots, so that the caps hold for  *)
(* the whole.                                                               *)

\* The selection order is total.
LEMMA BeforeOrders ==
  ASSUME TypeOK
  PROVE  /\ \A v, w \in Workflows : v = w \/ Before(v, w) \/ Before(w, v)
         /\ \A v \in Workflows : ~Before(v, v)
         /\ \A u, v, w \in Workflows : Before(u, v) /\ Before(v, w) => Before(u, w)
BY DataAssumption DEF Before

\* Every selection that is not empty has a last member.
LEMMA HasLast ==
  ASSUME TypeOK, NEW chosen \in SUBSET Workflows, chosen # {}
  PROVE  \E w \in chosen : {v \in chosen : Before(v, w)} = chosen \ {w}
<1> DEFINE after(w) == {v \in chosen : v = w \/ Before(w, v)}
           tails == {after(w) : w \in chosen}
<1>1. IsFiniteSet(chosen)
  BY FS_Subset, DataAssumption
<1>2. tails \subseteq FiniteSubsetsOf(chosen) /\ tails # {}
  <2>1. \A w \in chosen : after(w) \in SUBSET chosen
    OBVIOUS
  <2>2. FiniteSubsetsOf(chosen) = SUBSET chosen
    BY <1>1, FS_FiniteSubsetsOfFinite
  <2>3. tails \subseteq SUBSET chosen
    BY <2>1
  <2>4. tails # {}
    OBVIOUS
  <2> QED BY <2>2, <2>3, <2>4
<1>3. IsWellFoundedOn(StrictSubsetOrdering(chosen), FiniteSubsetsOf(chosen))
  BY FS_StrictSubsetOrderingWellFounded
<1>4. \E x \in tails : \A y \in tails : ~(<<y, x>> \in StrictSubsetOrdering(chosen))
  <2> HIDE DEF tails
  <2> QED BY <1>2, <1>3, WFMin
<1>5. PICK w \in chosen : \A v \in chosen : ~(<<after(v), after(w)>> \in StrictSubsetOrdering(chosen))
  BY <1>4
<1>6. \A v \in chosen : ~(after(v) \subseteq after(w) /\ after(v) # after(w))
  <2> SUFFICES ASSUME NEW v \in chosen, after(v) \subseteq after(w), after(v) # after(w) PROVE FALSE
    OBVIOUS
  <2>1. <<after(v), after(w)>> \in (SUBSET chosen) \X (SUBSET chosen)
    OBVIOUS
  <2>2. <<after(v), after(w)>> \in StrictSubsetOrdering(chosen)
    <3> HIDE DEF after
    <3> QED BY <2>1 DEF StrictSubsetOrdering
  <2> QED BY <1>5, <2>2
<1>7. ASSUME NEW v \in chosen, v # w PROVE Before(v, w)
  <2> SUFFICES ASSUME Before(w, v) PROVE FALSE
    BY <1>7, BeforeOrders
  <2>1. after(v) \subseteq after(w)
    BY BeforeOrders
  <2>2. w \in after(w) /\ w \notin after(v)
    BY <1>7, BeforeOrders
  <2> QED BY <1>6, <2>1, <2>2
<1> QED
  BY <1>7, BeforeOrders

\* The entries, and with them the threads, keep to the caps.
EntriesWithinCaps ==
  /\ Cardinality(inProgress) <= Cap
  /\ \A user \in Users : Cardinality(OwnedBy(user, inProgress)) <= UserCap

LEMMA InitCaps == Init => EntriesWithinCaps
<1> SUFFICES ASSUME Init PROVE EntriesWithinCaps
  OBVIOUS
<1>1. inProgress = {} /\ \A user : OwnedBy(user, inProgress) = {}
  BY DEF Init, OwnedBy
<1> QED
  BY <1>1, FS_EmptySet, DataAssumption DEF EntriesWithinCaps

\* Fewer workflows are within the caps too.
LEMMA FewerWithinCaps ==
  ASSUME NEW S \in SUBSET Workflows, NEW T \in SUBSET S,
         Cardinality(S) <= Cap, \A user \in Users : Cardinality(OwnedBy(user, S)) <= UserCap
  PROVE  /\ Cardinality(T) <= Cap
         /\ \A user \in Users : Cardinality(OwnedBy(user, T)) <= UserCap
<1>1. \A U \in SUBSET Workflows : IsFiniteSet(U)
  BY FS_Subset, DataAssumption
<1>2. Cardinality(T) <= Cap
  <2>1. Cardinality(T) <= Cardinality(S) /\ Cardinality(T) \in Nat /\ Cardinality(S) \in Nat
    BY <1>1, FS_Subset, FS_CardinalityType
  <2> QED BY <2>1, DataAssumption
<1>3. ASSUME NEW user \in Users PROVE Cardinality(OwnedBy(user, T)) <= UserCap
  <2>1. OwnedBy(user, T) \in SUBSET OwnedBy(user, S) /\ OwnedBy(user, S) \in SUBSET Workflows
    BY DEF OwnedBy
  <2>2. IsFiniteSet(OwnedBy(user, S)) /\ IsFiniteSet(OwnedBy(user, T))
    BY <1>1, <2>1
  <2>3. /\ Cardinality(OwnedBy(user, T)) <= Cardinality(OwnedBy(user, S))
        /\ Cardinality(OwnedBy(user, T)) \in Nat /\ Cardinality(OwnedBy(user, S)) \in Nat
    BY <2>1, <2>2, FS_Subset, FS_CardinalityType
  <2> QED BY <2>3, DataAssumption
<1> QED
  BY <1>2, <1>3

\* A set and one that is admitted one by one, up to its last member, below a
\* limit: together they reach that limit at most.
LEMMA UnionWithin ==
  ASSUME NEW S, NEW T, IsFiniteSet(S), IsFiniteSet(T), NEW limit \in Nat, NEW w \in T,
         Cardinality(S) + Cardinality(T \ {w}) < limit
  PROVE  Cardinality(S \cup T) <= limit
<1>1. /\ IsFiniteSet(S \cap T)
      /\ Cardinality(S \cup T) = Cardinality(S) + Cardinality(T) - Cardinality(S \cap T)
  BY FS_Union, FS_Intersection
<1>2. Cardinality(T \ {w}) = Cardinality(T) - 1
  BY FS_RemoveElement
<1>3. Cardinality(S) \in Nat /\ Cardinality(T) \in Nat /\ Cardinality(S \cap T) \in Nat
  BY <1>1, FS_CardinalityType
<1> QED
  BY <1>1, <1>2, <1>3

LEMMA SelectCaps == ASSUME TypeOK, EntriesWithinCaps, Select PROVE EntriesWithinCaps'
<1>1. PICK chosen \in SUBSET poll.todo : IsSelection(chosen) /\ inProgress' = inProgress \cup chosen
  BY DEF Select
<1>2. chosen \in SUBSET Workflows /\ inProgress \in SUBSET Workflows
  BY DEF TypeOK
<1>3. \A U \in SUBSET Workflows : IsFiniteSet(U)
  BY FS_Subset, DataAssumption
<1>4. \A w \in chosen : Fits(w, {v \in chosen : Before(v, w)})
  BY <1>1 DEF IsSelection
<1>5. Cardinality(inProgress') <= Cap
  <2>1. CASE chosen = {}
    BY <1>1, <2>1 DEF EntriesWithinCaps
  <2>2. CASE chosen # {}
    <3>1. PICK w \in chosen : {v \in chosen : Before(v, w)} = chosen \ {w}
      BY <1>2, <2>2, HasLast
    <3>2. Cardinality(inProgress) + Cardinality(chosen \ {w}) < Cap
      BY <1>4, <3>1 DEF Fits
    <3> QED BY <1>1, <1>2, <1>3, <3>2, UnionWithin, DataAssumption
  <2> QED BY <2>1, <2>2
<1>6. ASSUME NEW user \in Users PROVE Cardinality(OwnedBy(user, inProgress')) <= UserCap
  <2> DEFINE entries0 == OwnedBy(user, inProgress)
             mine == OwnedBy(user, chosen)
  <2>1. /\ OwnedBy(user, inProgress') = entries0 \cup mine
        /\ entries0 \in SUBSET Workflows /\ mine \in SUBSET Workflows
    BY <1>1, <1>2 DEF OwnedBy
  <2>2. CASE mine = {}
    <3>1. OwnedBy(user, inProgress') = entries0
      BY <2>1, <2>2
    <3> QED BY <3>1 DEF EntriesWithinCaps
  <2>3. CASE mine # {}
    <3>1. PICK w \in mine : {v \in mine : Before(v, w)} = mine \ {w}
      BY <2>1, <2>3, HasLast
    <3>2. w \in chosen /\ OwnerOf[w] = user
      BY <3>1 DEF OwnedBy
    <3>3. OwnedBy(user, {v \in chosen : Before(v, w)}) = mine \ {w}
      BY <3>1 DEF OwnedBy
    <3>4. Cardinality(entries0) + Cardinality(mine \ {w}) < UserCap
      BY <1>4, <3>2, <3>3 DEF Fits
    <3>5. IsFiniteSet(entries0) /\ IsFiniteSet(mine)
      BY <1>3, <2>1
    <3> QED
      <4> HIDE DEF entries0, mine
      <4> QED BY <2>1, <3>1, <3>4, <3>5, UnionWithin, DataAssumption
  <2> QED BY <2>2, <2>3
<1>7. \A user : OwnedBy(user, inProgress)' = OwnedBy(user, inProgress')
  BY DEF OwnedBy
<1> QED
  BY <1>5, <1>6, <1>7 DEF EntriesWithinCaps

\* No other step adds an entry.
LEMMA NoOtherEntries == ASSUME TypeOK, Next, ~Select PROVE inProgress' \in SUBSET inProgress
<1>1. CASE Poll
  BY <1>1 DEF Poll, ReadQueued, CheckBatch, Promote, ReadMarked, AutoResume, StayPaused,
     ReadPausedEntries, DropPausedKeys, ReadActive, FilterActive, entries
<1>2. ASSUME NEW w \in Workflows, Worker(w) PROVE inProgress' \in SUBSET inProgress
  BY <1>2 DEF Worker, AcquireLease, AcquireRaises, PauseForQuota, Enter, Return, StartAgent, AgentEnds,
     Finish, Discard, Drop, entries
<1>3. ASSUME NEW w \in Workflows, Operator(w) PROVE inProgress' \in SUBSET inProgress
  BY <1>3 DEF Operator, Pause, PauseReads, PauseSignals, PauseWrites, Resume, ResumeSignals,
     ResumeWrites, Stop, Done, Retry, entries
<1> QED
  BY <1>1, <1>2, <1>3 DEF Next

LEMMA NextCaps == ASSUME TypeOK, EntriesWithinCaps, [Next]_vars PROVE EntriesWithinCaps'
<1>1. CASE Select
  BY <1>1, SelectCaps
<1>2. CASE ~Select
  <2>1. inProgress' \in SUBSET inProgress /\ inProgress \in SUBSET Workflows
    BY <1>2, NoOtherEntries DEF vars, TypeOK
  <2>2. \A user : OwnedBy(user, inProgress)' = OwnedBy(user, inProgress')
    BY DEF OwnedBy
  <2>3. /\ Cardinality(inProgress') <= Cap
        /\ \A user \in Users : Cardinality(OwnedBy(user, inProgress')) <= UserCap
    BY <2>1, FewerWithinCaps DEF EntriesWithinCaps
  <2> QED BY <2>2, <2>3 DEF EntriesWithinCaps
<1> QED
  BY <1>1, <1>2

\* However many workflows become active at once, and whatever operators do in
\* between, _process_workflows never has more threads at work than
\* get_max_concurrent_workflows() and max_sessions_per_user allow.
THEOREM CapsHold == Spec => []WithinCaps
<1>1. Init => TypeOK /\ ThreadInv /\ EntriesWithinCaps
  BY InitTypes, InitThreads, InitCaps
<1>2. TypeOK /\ ThreadInv /\ EntriesWithinCaps /\ [Next]_vars
        => TypeOK' /\ ThreadInv' /\ EntriesWithinCaps'
  BY NextTypes, NextThreads, NextCaps
<1>3. TypeOK /\ ThreadInv /\ EntriesWithinCaps => WithinCaps
  <2> SUFFICES ASSUME TypeOK, ThreadInv, EntriesWithinCaps PROVE WithinCaps
    OBVIOUS
  <2>1. Busy \in SUBSET inProgress /\ inProgress \in SUBSET Workflows
    BY DEF TypeOK, ThreadInv, EveryThreadHasEntry
  <2> QED BY <2>1, FewerWithinCaps DEF EntriesWithinCaps, WithinCaps
<1> QED
  BY <1>1, <1>2, <1>3, PTL DEF Spec

-----------------------------------------------------------------------------
(* The conflict keys.  Pauses other than an acceptance verdict release keys  *)
(* that the key map still names, a retry may release keys without an entry,  *)
(* and the done route moves a verifier's row back to a git phase: without    *)
(* these the books balance.                                                  *)

KeyMoves == {"resume", "stop", "raise"}

\* The only pause is the acceptance verdict's, after the merge.
PausedPastMerge ==
  \A w \in Workflows :
    row[w].mark = "none" /\ (row[w].status = "paused" => row[w].phase = "accept")

\* The phase a worker runs is the phase of its row.
WorkIsRow ==
  \A w \in Workflows : worker[w] \in {"phase", "agent"} => work[w] = row[w].phase

\* So that no poll resumes a workflow or drops its keys.
NothingPaused == poll.step \notin {"resuming", "drop"}

NobodyPauses == \A w \in Workflows : pausing[w] = "no"

RowInv == PausedPastMerge /\ WorkIsRow /\ NothingPaused /\ NobodyPauses

\* What the filter let through has no entry and needs no key that is held.
CandidatesFree ==
  poll.step = "select" =>
    \A w \in poll.todo : w \notin inProgress /\ Reserved(w) \cap held = {}

KeyInv == ReservationsBalance /\ CandidatesFree

LEMMA InitKeys == Init => RowInv /\ KeyInv
BY DEF Init, RowInv, PausedPastMerge, WorkIsRow, NothingPaused, NobodyPauses, KeyInv, ReservationsBalance,
   CandidatesFree, At

LEMMA PollRows == ASSUME TypeOK, RowInv, Poll PROVE RowInv'
<1> USE DEF RowInv, PausedPastMerge, WorkIsRow, NothingPaused, NobodyPauses
<1>1. CASE ReadQueued
  BY <1>1 DEF ReadQueued, Looping, At, table, threads
<1>2. ASSUME NEW w \in Workflows, CheckBatch(w) PROVE RowInv'
  <2>1. [poll EXCEPT !.todo = @ \ {w}, !.pick = {w}].step = poll.step
    BY DEF TypeOK
  <2>2. Looping("promoting", poll.todo \ {w}, NotRead, "resume").step \in {"promoting", "resume"}
    BY DEF Looping, At
  <2> QED BY <1>2, <2>1, <2>2 DEF CheckBatch, table, threads
<1>3. ASSUME NEW w \in Workflows, Promote(w) PROVE RowInv'
  <2>1. poll'.step \in {"promoting", "resume"}
    BY <1>3 DEF Promote, Looping, At
  <2>2. \A v \in Workflows : /\ row'[v].mark = row[v].mark /\ row'[v].phase = row[v].phase
                             /\ row'[v].status \in {row[v].status, "running"}
    BY <1>3 DEF Promote, TypeOK, Rows
  <2> QED BY <1>3, <2>1, <2>2 DEF Promote, threads
<1>4. CASE ReadMarked
  <2>1. {w \in Workflows : row[w].status = "paused" /\ row[w].mark # "none"} = {}
    OBVIOUS
  <2> QED BY <1>4, <2>1 DEF ReadMarked, Looping, At, table, threads
<1>5. CASE ReadPausedEntries
  <2>1. {w \in inProgress : row[w].status = "paused" /\ row[w].phase # "accept"} = {}
    BY DEF TypeOK
  <2> QED BY <1>5, <2>1 DEF ReadPausedEntries, Looping, At, table, threads
<1>6. CASE ReadActive
  BY <1>6 DEF ReadActive, At, table, threads
<1>7. CASE FilterActive
  BY <1>7 DEF TypeOK, FilterActive, table, threads
<1>8. CASE Select
  <2>1. poll'.step = "promote" /\ row' = row /\ work' = work /\ pausing' = pausing
    BY <1>8 DEF Select, At, table
  <2>2. \A w \in Workflows : worker'[w] \in {worker[w], "selected"}
    BY <1>8 DEF Select
  <2> QED BY <2>1, <2>2
<1> QED
  BY <1>1, <1>2, <1>3, <1>4, <1>5, <1>6, <1>7, <1>8
  DEF Poll, AutoResume, StayPaused, DropPausedKeys

LEMMA WorkerRows ==
  ASSUME TypeOK, RowInv, Moves \subseteq KeyMoves, NEW w \in Workflows, Worker(w) PROVE RowInv'
<1> USE DEF RowInv, PausedPastMerge, WorkIsRow, NothingPaused, NobodyPauses
<1>1. CASE AcquireLease(w) \/ AcquireRaises(w) \/ Return(w) \/ StartAgent(w) \/ AgentEnds(w)
  BY <1>1 DEF TypeOK, AcquireLease, AcquireRaises, Return, StartAgent, AgentEnds, Goes, table
<1>2. CASE Enter(w)
  BY <1>2 DEF TypeOK, Enter, Goes, table
<1>3. ~PauseForQuota(w)
  BY DEF PauseForQuota, KeyMoves
<1>4. ASSUME NEW result \in Results(w), Finish(w, result) PROVE RowInv'
  <2>1. row[w] \in Rows /\ work[w] = row[w].phase /\ row[w].mark = "none"
    BY <1>4 DEF Finish, Goes, TypeOK
  <2>2. result.mark = "none" /\ (result.status = "paused" => result.phase = "accept")
    <3>1. "suspend" \notin Moves
      BY DEF KeyMoves
    <3>2. \A phase \in Phases : Rest(row[w], phase).mark = "none"
                               /\ Rest(row[w], phase).status # "paused"
      BY <2>1, StatusOfType DEF Rest, Rows, ActiveStatuses
    <3>3. \A status \in Statuses : /\ Settle(row[w], status).mark = "none"
                                   /\ Settle(row[w], status).status = status
                                   /\ Settle(row[w], status).phase = row[w].phase
      BY <2>1 DEF Settle, Rows
    <3>4. \A status \in Statuses :
            LET r == [Settle(row[w], status) EXCEPT !.verdict = TRUE]
            IN  r.mark = "none" /\ r.status = status /\ r.phase = row[w].phase
      BY <2>1 DEF Settle, Rows
    <3>5. CASE work[w] = "work"
      <4>1. Results(w) \subseteq {row[w], Settle(row[w], row[w].status),
              Settle(row[w], "failed"), Settle(row[w], "timeout"), Settle(row[w], "completed"),
              Rest(row[w], "work"), Rest(row[w], "wait"), Rest(row[w], "accept")}
        BY <3>1, <3>5 DEF Results
      <4>2. row[w].status = "paused" => row[w].phase = "accept"
        OBVIOUS
      <4>3. {"work", "wait", "accept"} \subseteq Phases /\ {"failed", "timeout", "completed", row[w].status} \subseteq Statuses
        BY <2>1 DEF Phases, Statuses, QueueAdvance, Rows
      <4> QED BY <2>1, <3>2, <3>3, <4>1, <4>2, <4>3
    <3>6. CASE work[w] = "wait"
      <4>1. Results(w) = {row[w], Settle(row[w], row[w].status), Settle(row[w], "failed"),
                          Rest(row[w], "wait"), Rest(row[w], "work")}
        BY <3>6 DEF Results
      <4>2. row[w].status = "paused" => row[w].phase = "accept"
        OBVIOUS
      <4>3. {"work", "wait"} \subseteq Phases /\ {"failed", row[w].status} \subseteq Statuses
        BY <2>1 DEF Phases, Statuses, QueueAdvance, Rows
      <4> QED BY <1>4, <2>1, <3>2, <3>3, <4>1, <4>2, <4>3
    <3>7. CASE work[w] = "accept"
      <4>1. Results(w) = {row[w], Settle(row[w], row[w].status), Settle(row[w], "failed"),
              [Settle(row[w], "completed") EXCEPT !.verdict = TRUE],
              [Settle(row[w], "paused") EXCEPT !.verdict = TRUE]}
        BY <3>7 DEF Results
      <4>2. row[w].phase = "accept"
        BY <2>1, <3>7
      <4>3. {"failed", "completed", "paused", row[w].status} \subseteq Statuses
        BY <2>1 DEF Rows, Statuses, QueueAdvance
      <4>4. CASE result \in {row[w], Settle(row[w], row[w].status), Settle(row[w], "failed")}
        BY <2>1, <3>3, <4>2, <4>3, <4>4
      <4>5. CASE result = [Settle(row[w], "completed") EXCEPT !.verdict = TRUE]
        BY <3>4, <4>2, <4>3, <4>5
      <4>6. CASE result = [Settle(row[w], "paused") EXCEPT !.verdict = TRUE]
        BY <3>4, <4>2, <4>3, <4>6
      <4> QED BY <1>4, <4>1, <4>4, <4>5, <4>6
    <3> QED BY <3>5, <3>6, <3>7 DEF TypeOK, Phases
  <2> QED BY <1>4, <2>2 DEF Finish, Goes, TypeOK
<1>5. CASE Discard(w)
  BY <1>5 DEF TypeOK, Discard, Goes, table
<1> QED
  BY <1>1, <1>2, <1>3, <1>4, <1>5 DEF Worker

LEMMA OperatorRows ==
  ASSUME TypeOK, RowInv, Moves \subseteq KeyMoves, NEW w \in Workflows, Operator(w) PROVE RowInv'
<1> USE DEF RowInv, PausedPastMerge, WorkIsRow, NothingPaused, NobodyPauses
<1>1. ~Pause(w) /\ ~Done(w) /\ ~Retry(w)
  BY DEF Pause, PauseReads, PauseSignals, PauseWrites, Done, Retry, KeyMoves
<1>4. CASE ResumeSignals(w)
  BY <1>4 DEF ResumeSignals
<1>2. CASE ResumeWrites(w)
  <2>1. \A v \in Workflows : /\ row'[v].mark = "none" /\ row'[v].phase = row[v].phase
                             /\ row'[v].status \in {row[v].status} \cup ActiveStatuses
    <3>1. PICK read \in resuming[w] :
            row' = [row EXCEPT ![w].status = StatusOf(read.phase),
                               ![w].mark = IF read.mark = "window" THEN "none" ELSE @]
      BY <1>2 DEF ResumeWrites
    <3>2. read.phase \in Phases
      BY DEF TypeOK
    <3>3. StatusOf(read.phase) \in ActiveStatuses
      BY <3>2, StatusOfType
    <3> QED BY <3>1, <3>3 DEF TypeOK, Rows
  <2>2. worker' = worker /\ work' = work /\ poll' = poll /\ pausing' = pausing
    BY <1>2 DEF ResumeWrites, threads
  <2>3. PausedPastMerge'
    BY <2>1 DEF ActiveStatuses
  <2> QED BY <2>1, <2>2, <2>3
<1>3. CASE Stop(w)
  <2>1. \A v \in Workflows : /\ row'[v].mark = row[v].mark /\ row'[v].phase = row[v].phase
                             /\ row'[v].status \in {row[v].status, "cancelled"}
    BY <1>3 DEF Stop, TypeOK, Rows
  <2> QED BY <1>3, <2>1 DEF Stop, AgentPid, TypeOK
<1> QED
  BY <1>1, <1>2, <1>3, <1>4 DEF Operator, Resume

\* Entries that are dropped take the keys they reserved along, and no others.
LEMMA DropBalances ==
  ASSUME TypeOK, ReservationsBalance, NEW gone \in SUBSET inProgress,
         inProgress' = inProgress \ gone,
         held' = held \ UNION {keyMap[w] : w \in gone},
         \A w \in inProgress' : keyMap'[w] = keyMap[w]
  PROVE  ReservationsBalance'
<1>1. \A v, w \in inProgress' : v # w => keyMap'[v] \cap keyMap'[w] = {}
  BY DEF ReservationsBalance
<1>2. ASSUME NEW k \in held' PROVE k \in UNION {keyMap'[w] : w \in inProgress'}
  <2>1. PICK w \in inProgress : k \in keyMap[w]
    BY <1>2 DEF ReservationsBalance
  <2>2. w \notin gone
    BY <1>2, <2>1
  <2> QED BY <2>1, <2>2
<1>3. ASSUME NEW w \in inProgress', NEW k \in keyMap'[w] PROVE k \in held'
  <2>1. w \in inProgress /\ w \notin gone /\ k \in keyMap[w]
    BY <1>3
  <2>2. k \in held
    BY <2>1 DEF ReservationsBalance
  <2>3. \A v \in gone : k \notin keyMap[v]
    BY <2>1 DEF ReservationsBalance
  <2> QED BY <2>2, <2>3
<1>4. held' = UNION {keyMap'[w] : w \in inProgress'}
  BY <1>2, <1>3
<1> QED
  BY <1>1, <1>4 DEF ReservationsBalance

\* Two members of a selection reserve different keys.
LEMMA SelectionApart ==
  ASSUME TypeOK, NEW chosen \in SUBSET poll.todo, IsSelection(chosen),
         NEW v \in chosen, NEW w \in chosen, v # w
  PROVE  Reserved(v) \cap Reserved(w) = {}
<1>1. ASSUME NEW x \in chosen, NEW y \in chosen, Before(x, y)
      PROVE  Reserved(x) \cap Reserved(y) = {}
  <2>1. ~Blocked(y, poll.seen[y],
                 UNION {ConflictKeys(z, poll.seen[z].phase) : z \in {u \in chosen : Before(u, y)}})
    BY DEF IsSelection, Fits
  <2>2. poll.seen[y].status # "waiting" =>
          ConflictKeys(y, poll.seen[y].phase) \cap ConflictKeys(x, poll.seen[x].phase) = {}
    BY <1>1, <2>1 DEF Blocked
  <2> QED BY <2>2 DEF Reserved
<1>2. v \in Workflows /\ w \in Workflows
  BY DEF TypeOK
<1> QED
  BY <1>1, <1>2, BeforeOrders

LEMMA SelectKeys == ASSUME TypeOK, KeyInv, Select PROVE KeyInv'
<1>1. PICK chosen \in SUBSET poll.todo :
        /\ IsSelection(chosen)
        /\ inProgress' = inProgress \cup chosen
        /\ keyMap' = [w \in Workflows |-> IF w \in chosen THEN Reserved(w) ELSE keyMap[w]]
        /\ held' = held \cup UNION {Reserved(w) : w \in chosen}
  BY DEF Select
<1>2. \A w \in chosen : /\ w \in Workflows /\ w \notin inProgress
                        /\ Reserved(w) \cap held = {} /\ keyMap'[w] = Reserved(w)
  BY <1>1 DEF KeyInv, CandidatesFree, Select, TypeOK
<1>3. ASSUME NEW w \in inProgress PROVE keyMap'[w] = keyMap[w] /\ keyMap[w] \subseteq held
  <2>1. w \in Workflows /\ w \notin chosen
    BY <1>2 DEF TypeOK
  <2>2. keyMap[w] \subseteq held
    BY DEF KeyInv, ReservationsBalance
  <2> QED BY <1>1, <2>1, <2>2
<1>4. ASSUME NEW v \in inProgress', NEW w \in inProgress', v # w
      PROVE  keyMap'[v] \cap keyMap'[w] = {}
  <2>1. CASE v \in inProgress /\ w \in inProgress
    BY <1>3, <1>4, <2>1 DEF KeyInv, ReservationsBalance
  <2>2. CASE v \in chosen /\ w \in chosen
    BY <1>1, <1>2, <1>4, <2>2, SelectionApart
  <2>3. CASE v \in inProgress /\ w \in chosen
    BY <1>2, <1>3, <2>3
  <2>4. CASE v \in chosen /\ w \in inProgress
    BY <1>2, <1>3, <2>4
  <2> QED BY <1>1, <2>1, <2>2, <2>3, <2>4
<1>5. held' = UNION {keyMap'[w] : w \in inProgress'}
  <2>1. held = UNION {keyMap'[w] : w \in inProgress}
    BY <1>3 DEF KeyInv, ReservationsBalance
  <2>2. UNION {Reserved(w) : w \in chosen} = UNION {keyMap'[w] : w \in chosen}
    BY <1>2
  <2> QED BY <1>1, <2>1, <2>2
<1>6. CandidatesFree'
  <2>1. poll'.step = "promote"
    BY DEF Select, At
  <2> QED BY <2>1 DEF CandidatesFree
<1> QED
  BY <1>4, <1>5, <1>6 DEF KeyInv, ReservationsBalance

LEMMA FilterKeys == ASSUME TypeOK, KeyInv, FilterActive PROVE KeyInv'
<1>1. ReservationsBalance'
  <2>1. Reaped \in SUBSET inProgress
    BY DEF Reaped
  <2>2. \A w \in inProgress' : keyMap'[w] = keyMap[w]
    BY DEF FilterActive, TypeOK
  <2>3. inProgress' = inProgress \ Reaped /\ held' = held \ UNION {keyMap[w] : w \in Reaped}
    BY DEF FilterActive
  <2> QED BY <2>1, <2>2, <2>3, DropBalances DEF KeyInv
<1>2. /\ poll'.seen = poll.seen
      /\ poll'.todo = {w \in Workflows : /\ poll.seen[w].status \in ActiveStatuses
                                         /\ w \notin inProgress'
                                         /\ ~Blocked(w, poll.seen[w], held')}
  BY DEF FilterActive, TypeOK
<1>3. ASSUME NEW w \in poll'.todo PROVE w \notin inProgress' /\ Reserved(w)' \cap held' = {}
  <2>1. w \in Workflows /\ w \notin inProgress' /\ ~Blocked(w, poll.seen[w], held')
    BY <1>2, <1>3
  <2>2. Reserved(w)' = Reserved(w)
    BY <1>2 DEF Reserved
  <2>3. Reserved(w) \cap held' = {}
    BY <2>1 DEF Blocked, Reserved
  <2> QED BY <2>1, <2>2, <2>3
<1> QED
  BY <1>1, <1>3 DEF KeyInv, CandidatesFree

\* The rest of a poll leaves the sets alone and is not about to select.
LEMMA PollKeys == ASSUME TypeOK, RowInv, KeyInv, Poll PROVE KeyInv'
<1>1. CASE Select \/ FilterActive
  BY <1>1, SelectKeys, FilterKeys
<1>2. CASE ~Select /\ ~FilterActive
  <2>1. inProgress' = inProgress /\ keyMap' = keyMap /\ held' = held
    BY <1>2 DEF Poll, ReadQueued, CheckBatch, Promote, ReadMarked, AutoResume, StayPaused,
       ReadPausedEntries, DropPausedKeys, ReadActive, entries, RowInv, NothingPaused
  <2>2. poll'.step # "select"
    <3>1. ASSUME NEW w \in Workflows, CheckBatch(w) PROVE poll'.step # "select"
      <4>1. [poll EXCEPT !.todo = @ \ {w}, !.pick = {w}].step = poll.step
        BY DEF TypeOK
      <4>2. Looping("promoting", poll.todo \ {w}, NotRead, "resume").step \in {"promoting", "resume"}
        BY DEF Looping, At
      <4> QED BY <3>1, <4>1, <4>2 DEF CheckBatch
    <3>2. CASE ReadQueued \/ ReadMarked \/ ReadPausedEntries \/ DropPausedKeys \/ ReadActive
      BY <3>2 DEF ReadQueued, ReadMarked, ReadPausedEntries, DropPausedKeys, ReadActive, Looping, At
    <3>3. ASSUME NEW w \in Workflows, Promote(w) \/ AutoResume(w) \/ StayPaused(w)
          PROVE  poll'.step # "select"
      BY <3>3 DEF Promote, AutoResume, StayPaused, Looping, At
    <3> QED BY <1>2, <3>1, <3>2, <3>3 DEF Poll
  <2> QED BY <2>1, <2>2 DEF KeyInv, ReservationsBalance, CandidatesFree
<1> QED
  BY <1>1, <1>2

LEMMA WorkerKeys ==
  ASSUME TypeOK, ThreadInv, KeyInv, NEW w \in Workflows, Worker(w) PROVE KeyInv'
<1>1. CASE Discard(w)
  <2>1. w \in inProgress
    BY <1>1 DEF Discard, Goes, ThreadInv, EveryThreadHasEntry, Busy
  <2>2. /\ inProgress' = inProgress \ {w} /\ held' = held \ UNION {keyMap[v] : v \in {w}}
        /\ \A v \in inProgress' : keyMap'[v] = keyMap[v]
    BY <1>1 DEF Discard, Drop, TypeOK
  <2>3. ReservationsBalance'
    BY <2>1, <2>2, DropBalances DEF KeyInv
  <2>4. CandidatesFree'
    BY <1>1, <2>2 DEF Discard, KeyInv, CandidatesFree, Reserved
  <2> QED BY <2>3, <2>4 DEF KeyInv
<1>2. CASE ~Discard(w)
  <2>1. UNCHANGED <<inProgress, keyMap, held, poll>>
    BY <1>2 DEF Worker, AcquireLease, AcquireRaises, PauseForQuota, Enter, Return, StartAgent, AgentEnds,
       Finish, entries
  <2> QED BY <2>1 DEF KeyInv, ReservationsBalance, CandidatesFree, Reserved
<1> QED
  BY <1>1, <1>2

LEMMA NextKeys ==
  ASSUME TypeOK, ThreadInv, RowInv, KeyInv, Moves \subseteq KeyMoves, [Next]_vars
  PROVE  RowInv' /\ KeyInv'
<1> USE DEF KeyInv, ReservationsBalance, CandidatesFree, Reserved
<1>1. CASE Poll
  BY <1>1, PollRows, PollKeys
<1>2. ASSUME NEW w \in Workflows, Worker(w) PROVE RowInv' /\ KeyInv'
  BY <1>2, WorkerRows, WorkerKeys
<1>3. ASSUME NEW w \in Workflows, Operator(w) PROVE RowInv' /\ KeyInv'
  <2>1. ~Retry(w)
    BY DEF Retry, KeyMoves
  <2>2. UNCHANGED <<inProgress, keyMap, held, poll>>
    BY <1>3, <2>1 DEF Operator, Pause, PauseReads, PauseSignals, PauseWrites, Resume,
       ResumeSignals, ResumeWrites, Stop, Done, entries
  <2> QED BY <1>3, <2>2, OperatorRows
<1>4. CASE UNCHANGED vars
  BY <1>4 DEF vars, RowInv, PausedPastMerge, WorkIsRow, NothingPaused, NobodyPauses
<1> QED
  BY <1>1, <1>2, <1>3, <1>4 DEF Next

\* Without pauses, retries and the done route the key map of
\* _in_progress_key_map and the sets that block a selection agree: no key
\* leaks, no two entries reserve one key, and no discard releases the key of
\* another workflow.
THEOREM KeysBalance ==
  ASSUME Moves \subseteq KeyMoves PROVE Spec => []ReservationsBalance
<1>1. Init => TypeOK /\ ThreadInv /\ RowInv /\ KeyInv
  BY InitTypes, InitThreads, InitKeys
<1>2. TypeOK /\ ThreadInv /\ RowInv /\ KeyInv /\ [Next]_vars
        => TypeOK' /\ ThreadInv' /\ RowInv' /\ KeyInv'
  BY NextTypes, NextThreads, NextKeys
<1>3. KeyInv => ReservationsBalance
  BY DEF KeyInv
<1> QED
  BY <1>1, <1>2, <1>3, PTL DEF Spec

-----------------------------------------------------------------------------
(* Git phases side by side.  An entry that reserves anything reserves all    *)
(* that a git phase needs, unless its workflow is past the merge, and a      *)
(* workflow past the merge does not come back.                               *)

TreeReserved ==
  \A w \in Workflows :
    keyMap[w] # {} => row[w].phase = "accept" \/ ConflictKeys(w, "work") \subseteq keyMap[w]

\* What the poll read past the merge is past it still.
SeenPastMerge ==
  poll.step \in {"filter", "select"} =>
    \A w \in Workflows : poll.seen[w].phase = "accept" => row[w].phase = "accept"

TreeInv == TreeReserved /\ SeenPastMerge

LEMMA InitTrees == Init => TreeInv
BY DEF Init, TreeInv, TreeReserved, SeenPastMerge, At

LEMMA PastMergeStays ==
  ASSUME TypeOK, RowInv, Moves \subseteq KeyMoves, Next,
         NEW v \in Workflows, row[v].phase = "accept"
  PROVE  row'[v].phase = "accept"
<1>1. CASE Poll
  <2>1. ASSUME NEW w \in Workflows, Promote(w) PROVE row'[v].phase = "accept"
    BY <2>1 DEF Promote, TypeOK, Rows
  <2>2. ASSUME NEW w \in Workflows PROVE ~AutoResume(w)
    BY DEF AutoResume, RowInv, NothingPaused
  <2>3. CASE \A w \in Workflows : ~Promote(w)
    <3>1. row' = row
      BY <1>1, <2>2, <2>3
      DEF Poll, ReadQueued, CheckBatch, ReadMarked, StayPaused, ReadPausedEntries,
          DropPausedKeys, ReadActive, FilterActive, Select, table
    <3> QED BY <3>1
  <2> QED BY <2>1, <2>3
<1>2. ASSUME NEW w \in Workflows, Worker(w) PROVE row'[v].phase = "accept"
  <2>1. ~PauseForQuota(w)
    BY DEF PauseForQuota, KeyMoves
  <2>2. ASSUME NEW result \in Results(w), Finish(w, result) PROVE row'[v].phase = "accept"
    <3>1. row' = [row EXCEPT ![w] = result] /\ work[w] = row[w].phase
      BY <2>2 DEF Finish, Goes, RowInv, WorkIsRow
    <3>2. CASE w # v
      BY <3>1, <3>2 DEF TypeOK
    <3>3. CASE w = v
      <4>1. result \in {row[v], Settle(row[v], row[v].status), Settle(row[v], "failed"),
                        [Settle(row[v], "completed") EXCEPT !.verdict = TRUE],
                        [Settle(row[v], "paused") EXCEPT !.verdict = TRUE]}
        BY <2>2, <3>1, <3>3 DEF Results
      <4>2. row[v] \in Rows
        BY DEF TypeOK
      <4>3. result.phase = row[v].phase
        BY <4>1, <4>2 DEF Settle, Rows
      <4> QED BY <3>1, <3>3, <4>3 DEF TypeOK
    <3> QED BY <3>2, <3>3
  <2>3. ASSUME \A result \in Results(w) : ~Finish(w, result) PROVE row' = row
    BY <1>2, <2>1, <2>3
    DEF Worker, AcquireLease, AcquireRaises, Enter, Return, StartAgent, AgentEnds, Discard, table
  <2> QED BY <2>2, <2>3
<1>3. ASSUME NEW w \in Workflows, Operator(w) PROVE row'[v].phase = "accept"
  <2>1. ~Pause(w) /\ ~Done(w) /\ ~Retry(w)
    BY DEF Pause, PauseReads, PauseSignals, PauseWrites, Done, Retry, KeyMoves,
       RowInv, NobodyPauses
  <2>2. CASE ResumeSignals(w)
    BY <2>2 DEF ResumeSignals
  <2>4. CASE ResumeWrites(w)
    <3>1. PICK read \in resuming[w] :
            row' = [row EXCEPT ![w].status = StatusOf(read.phase),
                               ![w].mark = IF read.mark = "window" THEN "none" ELSE @]
      BY <2>4 DEF ResumeWrites
    <3> QED BY <3>1 DEF TypeOK, Rows
  <2>3. CASE Stop(w)
    BY <2>3 DEF Stop, TypeOK, Rows
  <2> QED BY <1>3, <2>1, <2>2, <2>3, <2>4 DEF Operator, Resume
<1> QED
  BY <1>1, <1>2, <1>3 DEF Next

\* A step leaves the keys of an entry, drops them, or is the selection.
LEMMA KeysOfAnEntry ==
  ASSUME TypeOK, Next, NEW v \in Workflows
  PROVE  \/ keyMap'[v] \in {keyMap[v], {}}
         \/ poll.step = "select" /\ keyMap'[v] = Reserved(v)
<1>1. CASE Select
  BY <1>1 DEF Select, TypeOK
<1>2. CASE FilterActive
  BY <1>2 DEF FilterActive, TypeOK
<1>3. ASSUME NEW w \in Workflows, Discard(w) \/ Retry(w) PROVE keyMap'[v] \in {keyMap[v], {}}
  BY <1>3 DEF Discard, Drop, Retry, TypeOK
<1>4. ASSUME ~Select, ~FilterActive, \A w \in Workflows : ~Discard(w) /\ ~Retry(w)
      PROVE  keyMap' = keyMap
  <2>1. CASE Poll
    BY <1>4, <2>1
    DEF Poll, ReadQueued, CheckBatch, Promote, ReadMarked, AutoResume, StayPaused,
        ReadPausedEntries, DropPausedKeys, ReadActive, entries
  <2>2. ASSUME NEW w \in Workflows, Worker(w) \/ Operator(w) PROVE keyMap' = keyMap
    BY <1>4, <2>2
    DEF Worker, AcquireLease, AcquireRaises, PauseForQuota, Enter, Return, StartAgent, AgentEnds, Finish,
        Operator, Pause, PauseReads, PauseSignals, PauseWrites, Resume, ResumeSignals,
        ResumeWrites, Stop, Done, entries
  <2> QED BY <2>1, <2>2 DEF Next
<1> QED
  BY <1>1, <1>2, <1>3, <1>4

\* From the read of the active rows to the selection the poll keeps what it read.
LEMMA SeenKept ==
  ASSUME TypeOK, Next, poll'.step \in {"filter", "select"}
  PROVE  \/ poll.step \in {"filter", "select"} /\ poll'.seen = poll.seen
         \/ poll'.seen = Read /\ row' = row
<1>1. CASE ReadActive
  BY <1>1 DEF ReadActive, At, table
<1>2. CASE FilterActive
  BY <1>2 DEF FilterActive, TypeOK
<1>3. CASE ReadQueued \/ ReadMarked \/ ReadPausedEntries \/ DropPausedKeys \/ Select
  BY <1>3
  DEF ReadQueued, ReadMarked, ReadPausedEntries, DropPausedKeys, Select, Looping, At
<1>4. ASSUME NEW w \in Workflows, CheckBatch(w) PROVE FALSE
  <2>1. [poll EXCEPT !.todo = @ \ {w}, !.pick = {w}].step = poll.step
    BY DEF TypeOK
  <2>2. Looping("promoting", poll.todo \ {w}, NotRead, "resume").step \in {"promoting", "resume"}
    BY DEF Looping, At
  <2> QED BY <1>4, <2>1, <2>2 DEF CheckBatch
<1>5. ASSUME NEW w \in Workflows, Promote(w) \/ AutoResume(w) \/ StayPaused(w) PROVE FALSE
  BY <1>5 DEF Promote, AutoResume, StayPaused, Looping, At
<1>6. ASSUME NEW w \in Workflows, Worker(w) \/ Operator(w) PROVE poll' = poll
  BY <1>6
  DEF Worker, AcquireLease, AcquireRaises, PauseForQuota, Enter, Return, StartAgent, AgentEnds, Finish, Discard,
      Operator, Pause, PauseReads, PauseSignals, PauseWrites, Resume, ResumeSignals,
      ResumeWrites, Stop, Done, Retry
<1> QED
  BY <1>1, <1>2, <1>3, <1>4, <1>5, <1>6 DEF Next, Poll

LEMMA NextTrees ==
  ASSUME TypeOK, RowInv, TreeInv, Moves \subseteq KeyMoves, [Next]_vars PROVE TreeInv'
<1>1. CASE Next
  <2>1. ASSUME NEW w \in Workflows, keyMap'[w] # {}
        PROVE  row'[w].phase = "accept" \/ ConflictKeys(w, "work") \subseteq keyMap'[w]
    <3>1. CASE row[w].phase = "accept"
      BY <1>1, <3>1, PastMergeStays
    <3>2. CASE row[w].phase # "accept" /\ keyMap'[w] = keyMap[w]
      BY <2>1, <3>2 DEF TreeInv, TreeReserved
    <3>3. CASE row[w].phase # "accept" /\ poll.step = "select" /\ keyMap'[w] = Reserved(w)
      <4>1. poll.seen[w].phase # "accept"
        BY <3>3 DEF TreeInv, SeenPastMerge
      <4> QED BY <2>1, <3>3, <4>1 DEF Reserved, ConflictKeys
    <3> QED BY <1>1, <2>1, <3>1, <3>2, <3>3, KeysOfAnEntry
  <2>2. ASSUME poll'.step \in {"filter", "select"},
               NEW w \in Workflows, poll'.seen[w].phase = "accept"
        PROVE  row'[w].phase = "accept"
    <3>1. CASE poll.step \in {"filter", "select"} /\ poll'.seen = poll.seen
      BY <1>1, <2>2, <3>1, PastMergeStays DEF TreeInv, SeenPastMerge
    <3>2. CASE poll'.seen = Read /\ row' = row
      BY <2>2, <3>2 DEF Read
    <3> QED BY <1>1, <2>2, <3>1, <3>2, SeenKept
  <2>3. \A w \in Workflows : ConflictKeys(w, "work")' = ConflictKeys(w, "work")
    BY DEF ConflictKeys
  <2> QED BY <2>1, <2>2, <2>3 DEF TreeInv, TreeReserved, SeenPastMerge
<1>2. CASE UNCHANGED vars
  BY <1>2 DEF vars, TreeInv, TreeReserved, SeenPastMerge
<1> QED
  BY <1>1, <1>2

\* Two workers in git phases of one workspace, branch or batch: one of them
\* was selected from a row that read "waiting" and reserved nothing.
THEOREM WaitersBypassAlone ==
  ASSUME Moves \subseteq KeyMoves PROVE Spec => []OnlyWaitersBypass
<1> DEFINE Inv == TypeOK /\ ThreadInv /\ RowInv /\ KeyInv /\ TreeInv
<1>1. Init => Inv
  BY InitTypes, InitThreads, InitKeys, InitTrees
<1>2. Inv /\ [Next]_vars => Inv'
  BY NextTypes, NextThreads, NextKeys, NextTrees
<1>3. Inv => OnlyWaitersBypass
  <2> SUFFICES ASSUME Inv, NEW v \in Workflows, NEW w \in Workflows,
                      ShareTree(v, w) \/ w \in Siblings(v) \ {v}, InGit(v), InGit(w),
                      keyMap[v] # {}, keyMap[w] # {}
               PROVE  FALSE
    BY DEF OnlyWaitersBypass
  <2>1. v # w /\ (KeysOf[v] \cap KeysOf[w] # {} \/ (BatchOf[v] = BatchOf[w] /\ BatchOf[v] # NoBatch))
    BY DEF ShareTree, Siblings
  <2>2. v \in inProgress /\ w \in inProgress
    BY DEF InGit, ThreadInv, EveryThreadHasEntry, Busy
  <2>3. row[v].phase # "accept" /\ row[w].phase # "accept"
    BY DEF InGit, RowInv, WorkIsRow
  <2>4. ConflictKeys(v, "work") \subseteq keyMap[v] /\ ConflictKeys(w, "work") \subseteq keyMap[w]
    BY <2>3 DEF TreeInv, TreeReserved
  <2>5. keyMap[v] \cap keyMap[w] = {}
    BY <2>1, <2>2 DEF KeyInv, ReservationsBalance
  <2> QED BY <2>1, <2>4, <2>5 DEF ConflictKeys
<1> HIDE DEF Inv
<1> QED
  BY <1>1, <1>2, <1>3, PTL DEF Spec

-----------------------------------------------------------------------------
(* Stopped processes.  A frozen agent waits for the write of the pause that   *)
(* froze it or for a resumption.  A promotion writes over a pause too, but    *)
(* the promoted workflow was queued when the poll began and has no worker,    *)
(* hence no process.                                                         *)

\* The last resume of a paused workflow has written: none that is past its
\* SIGCONT will make the row active again.
Resumable(w) == row[w].status = "paused" /\ resuming[w] = {}

FrozenWaits ==
  \A w \in Workflows :
    frozen[w] => worker[w] = "agent" /\ (Resumable(w) \/ pausing[w] = "write" \/ abandoned[w])

\* A queued workflow has no worker, and neither has one about to be promoted.
QueuedIdle ==
  /\ \A w \in Workflows : row[w].status = "queued" => worker[w] = "idle"
  /\ poll.step = "promoting" => \A w \in poll.todo \cup poll.pick : worker[w] = "idle"
  /\ poll.step = "filter" =>
       \A w \in Workflows : poll.seen[w].status \in ActiveStatuses => row[w].status # "queued"
  /\ poll.step = "select" => \A w \in poll.todo : row[w].status # "queued"

FrozenInv == FrozenWaits /\ QueuedIdle

LEMMA InitFrozen == Init => FrozenInv
BY DEF Init, FrozenInv, FrozenWaits, Resumable, QueuedIdle, At

\* A step that changes no thread and puts no row back in a queue.
LEMMA PollFrozen == ASSUME TypeOK, ThreadInv, FrozenInv, Poll PROVE FrozenInv'
<1> USE DEF FrozenInv, FrozenWaits, Resumable, QueuedIdle
<1>1. CASE ReadQueued
  <2>1. /\ row' = row /\ worker' = worker /\ frozen' = frozen /\ UNCHANGED routes
        /\ poll'.step \in {"promoting", "resume"} /\ poll'.pick = {} /\ poll'.todo \subseteq Heads
    BY <1>1 DEF ReadQueued, Looping, At, table, threads
  <2> QED BY <2>1 DEF Heads
<1>2. ASSUME NEW w \in Workflows, CheckBatch(w) PROVE FrozenInv'
  <2>1. /\ row' = row /\ worker' = worker /\ frozen' = frozen /\ UNCHANGED routes
        /\ w \in poll.todo /\ poll.step = "promoting"
    BY <1>2 DEF CheckBatch, table, threads
  <2>2. CASE poll' = [poll EXCEPT !.todo = @ \ {w}, !.pick = {w}]
    <3>1. poll'.step = "promoting" /\ poll'.todo \cup poll'.pick \subseteq poll.todo
      BY <2>1, <2>2 DEF TypeOK
    <3> QED BY <2>1, <3>1
  <2>3. CASE poll' = Looping("promoting", poll.todo \ {w}, NotRead, "resume")
    <3>1. /\ poll'.step \in {"promoting", "resume"}
          /\ poll'.todo \cup poll'.pick \subseteq poll.todo
      BY <2>3 DEF Looping, At
    <3> QED BY <2>1, <3>1
  <2> QED BY <1>2, <2>2, <2>3 DEF CheckBatch
<1>3. ASSUME NEW w \in Workflows, Promote(w) PROVE FrozenInv'
  <2>1. /\ worker' = worker /\ frozen' = frozen /\ worker[w] = "idle"
        /\ pausing' = pausing /\ resuming' = resuming /\ abandoned' = abandoned
        /\ poll'.step \in {"promoting", "resume"} /\ poll'.pick = {} /\ poll'.todo \subseteq poll.todo
    BY <1>3 DEF Promote, Looping, At, threads
  <2>2. /\ \A v \in Workflows : v # w => row'[v] = row[v]
        /\ row'[w].status = "running"
    BY <1>3 DEF Promote, TypeOK, Rows
  <2> QED BY <1>3, <2>1, <2>2 DEF Promote
<1>4. CASE ReadMarked
  BY <1>4 DEF ReadMarked, Looping, At, table, threads
<1>9. ASSUME NEW w \in Workflows, AutoResume(w) PROVE FrozenInv'
  <2>1. /\ worker' = worker /\ frozen' = frozen /\ pausing' = pausing /\ resuming' = resuming
        /\ abandoned' = [abandoned EXCEPT ![w] = frozen[w]]
        /\ poll'.step \in {"resuming", "paused"}
    BY <1>9 DEF AutoResume, Looping, At, threads
  <2>2. poll.seen[w].phase \in Phases
    BY DEF TypeOK
  <2>3. StatusOf(poll.seen[w].phase) # "queued"
    BY <2>2, StatusOfType DEF ActiveStatuses
  <2>4. row'[w].status # "queued" /\ \A v \in Workflows : v # w => row'[v] = row[v]
    BY <1>9, <2>3 DEF AutoResume, TypeOK, Rows
  <2> QED BY <2>1, <2>4 DEF TypeOK
<1>10. ASSUME NEW w \in Workflows, StayPaused(w) PROVE FrozenInv'
  BY <1>10 DEF StayPaused, Looping, At, table, threads
<1>5. CASE ReadPausedEntries \/ DropPausedKeys
  BY <1>5 DEF ReadPausedEntries, DropPausedKeys, Looping, At, table, threads
<1>6. CASE ReadActive
  <2>1. \A w \in Workflows : Read[w].status = row[w].status
    BY DEF Read
  <2>2. /\ row' = row /\ worker' = worker /\ frozen' = frozen /\ UNCHANGED routes
        /\ poll'.step = "filter" /\ poll'.seen = Read
    BY <1>6 DEF ReadActive, At, table, threads
  <2> QED BY <2>1, <2>2 DEF ActiveStatuses
<1>7. CASE FilterActive
  <2>1. /\ row' = row /\ worker' = worker /\ frozen' = frozen /\ UNCHANGED routes
        /\ poll'.step = "select"
        /\ \A w \in poll'.todo : w \in Workflows /\ poll.seen[w].status \in ActiveStatuses
    BY <1>7 DEF FilterActive, table, threads, TypeOK
  <2> QED BY <1>7, <2>1 DEF FilterActive
<1>8. CASE Select
  <2>1. row' = row /\ frozen' = frozen /\ UNCHANGED routes /\ poll'.step = "promote"
    BY <1>8 DEF Select, At, table
  <2>2. PICK chosen \in SUBSET poll.todo :
          worker' = [w \in Workflows |-> IF w \in chosen THEN "selected" ELSE worker[w]]
    BY <1>8 DEF Select
  <2>3. \A w \in chosen : w \in Workflows /\ worker[w] = "idle" /\ row[w].status # "queued"
    BY <1>8 DEF Select, TypeOK, ThreadInv, CandidatesNew, EveryThreadHasEntry, Busy
  <2> QED BY <2>1, <2>2, <2>3
<1> QED
  BY <1>1, <1>2, <1>3, <1>4, <1>5, <1>6, <1>7, <1>8, <1>9, <1>10 DEF Poll

\* A step that touches one workflow, and leaves it out of the queue.
LEMMA FrozenFrom ==
  ASSUME TypeOK, FrozenInv, NEW w \in Workflows, poll' = poll,
         \A v \in Workflows :
           v # w => /\ row'[v] = row[v] /\ worker'[v] = worker[v] /\ frozen'[v] = frozen[v]
                    /\ pausing'[v] = pausing[v] /\ resuming'[v] = resuming[v]
                    /\ abandoned'[v] = abandoned[v],
         row'[w].status = "queued" => row[w].status = "queued",
         worker[w] = "idle" => worker'[w] = "idle",
         frozen'[w] => /\ worker'[w] = "agent"
                       /\ Resumable(w)' \/ pausing'[w] = "write" \/ abandoned'[w]
  PROVE  FrozenInv'
<1>1. FrozenWaits'
  BY DEF FrozenInv, FrozenWaits, Resumable
<1>2. \A v \in Workflows : /\ row'[v].status = "queued" => row[v].status = "queued"
                           /\ worker[v] = "idle" => worker'[v] = "idle"
  OBVIOUS
<1>3. poll.todo \cup poll.pick \subseteq Workflows
  BY DEF TypeOK
<1> QED BY <1>1, <1>2, <1>3 DEF FrozenInv, QueuedIdle

LEMMA WorkerFrozen ==
  ASSUME TypeOK, FrozenInv, NEW w \in Workflows, Worker(w) PROVE FrozenInv'
<1> USE DEF FrozenInv, FrozenWaits, Resumable, QueuedIdle
<1>1. CASE AcquireLease(w) \/ AcquireRaises(w) \/ Enter(w) \/ Return(w) \/ StartAgent(w)
           \/ AgentEnds(w) \/ Discard(w)
  <2>1. /\ row' = row /\ frozen' = frozen /\ poll' = poll /\ UNCHANGED routes
        /\ worker[w] # "idle" /\ ~frozen[w]
        /\ \A v \in Workflows : v # w => worker'[v] = worker[v]
    BY <1>1 DEF AcquireLease, AcquireRaises, Enter, Return, StartAgent, AgentEnds, Discard, Goes,
       TypeOK, table
  <2> QED BY <2>1, FrozenFrom DEF TypeOK
<1>2. CASE PauseForQuota(w)
  <2>1. /\ row' = [row EXCEPT ![w] = [row[w] EXCEPT !.status = "paused", !.mark = "quota"]]
        /\ frozen' = frozen /\ poll' = poll /\ UNCHANGED routes
        /\ worker[w] = "gate" /\ worker' = [worker EXCEPT ![w] = "leave"]
    BY <1>2 DEF PauseForQuota, Goes, TypeOK, Rows
  <2>2. ~frozen[w]
    BY <2>1
  <2>3. row'[w].status = "paused"
    BY <2>1 DEF TypeOK, Rows
  <2> QED BY <2>1, <2>2, <2>3, FrozenFrom DEF TypeOK
<1>3. ASSUME NEW result \in Results(w), Finish(w, result) PROVE FrozenInv'
  <2>1. /\ frozen' = frozen /\ poll' = poll /\ UNCHANGED routes
        /\ worker[w] = "phase" /\ row'[w] = result
        /\ \A v \in Workflows : v # w => worker'[v] = worker[v] /\ row'[v] = row[v]
    BY <1>3 DEF Finish, Goes, TypeOK
  <2>2. result.status # "queued"
    <3>1. row[w] \in Rows /\ row[w].status # "queued" /\ work[w] \in Phases
      BY <2>1 DEF TypeOK
    <3>2. \A phase \in Phases : Rest(row[w], phase).status # "queued"
      BY <3>1, StatusOfType DEF Rest, Rows, ActiveStatuses
    <3>3. \A status : Settle(row[w], status).status = status
      BY <3>1 DEF Settle, Rows
    <3>4. \A status : [Settle(row[w], status) EXCEPT !.verdict = TRUE].status = status
      BY <3>1 DEF Settle, Rows
    <3>7. [row[w] EXCEPT !.status = "paused", !.mark = "window"].status = "paused"
      BY <3>1 DEF Rows
    <3>5. CASE work[w] = "accept"
      <4>1. Results(w) = {row[w], Settle(row[w], row[w].status), Settle(row[w], "failed"),
              [Settle(row[w], "completed") EXCEPT !.verdict = TRUE],
              [Settle(row[w], "paused") EXCEPT !.verdict = TRUE]}
        BY <3>5 DEF Results
      <4>2. CASE result \in {row[w], Settle(row[w], row[w].status), Settle(row[w], "failed")}
        BY <3>1, <3>3, <4>2
      <4>3. CASE result = [Settle(row[w], "completed") EXCEPT !.verdict = TRUE]
        BY <3>4, <4>3
      <4>4. CASE result = [Settle(row[w], "paused") EXCEPT !.verdict = TRUE]
        BY <3>4, <4>4
      <4> QED BY <4>1, <4>2, <4>3, <4>4
    <3>6. CASE work[w] # "accept"
      <4>1. Results(w) \subseteq {row[w], Settle(row[w], row[w].status),
              Settle(row[w], "failed"), Settle(row[w], "timeout"), Settle(row[w], "completed"),
              Rest(row[w], "work"), Rest(row[w], "wait"), Rest(row[w], "accept"),
              Settle(row[w], "paused"), [row[w] EXCEPT !.status = "paused", !.mark = "window"]}
        BY <3>1, <3>6 DEF Results, Phases
      <4>2. CASE result \in {Rest(row[w], "work"), Rest(row[w], "wait"), Rest(row[w], "accept")}
        BY <3>2, <4>2 DEF Phases
      <4>3. CASE result \in {row[w], Settle(row[w], row[w].status), Settle(row[w], "failed"),
                             Settle(row[w], "timeout"), Settle(row[w], "completed"),
                             Settle(row[w], "paused")}
        BY <3>1, <3>3, <4>3
      <4>4. CASE result = [row[w] EXCEPT !.status = "paused", !.mark = "window"]
        BY <3>7, <4>4
      <4> QED BY <4>1, <4>2, <4>3, <4>4
    <3> QED BY <3>5, <3>6
  <2>3. ~frozen[w]
    BY <2>1
  <2> QED BY <2>1, <2>2, <2>3, FrozenFrom
<1> QED
  BY <1>1, <1>2, <1>3 DEF Worker

LEMMA OperatorFrozen ==
  ASSUME TypeOK, FrozenInv, NEW w \in Workflows, Operator(w) PROVE FrozenInv'
<1> USE DEF FrozenInv, FrozenWaits, Resumable, QueuedIdle
<1>1. \A phase \in Phases : StatusOf(phase) # "queued"
  BY StatusOfType DEF ActiveStatuses
<1>2. CASE PauseReads(w)
  <2>1. /\ UNCHANGED <<worker, frozen, poll, resuming, abandoned>>
        /\ pausing[w] = "no" /\ row[w].status # "paused"
        /\ \A v \in Workflows : v # w => row'[v] = row[v] /\ pausing'[v] = pausing[v]
    BY <1>2 DEF PauseReads, threads, TypeOK
  <2>2. row'[w].status \in {row[w].status, "paused"}
    BY <1>2 DEF PauseReads, TypeOK, Rows
  <2>3. frozen[w] => worker[w] = "agent" /\ abandoned[w]
    BY <2>1
  <2> QED BY <2>1, <2>2, <2>3, FrozenFrom
<1>3. CASE PauseSignals(w)
  <2>1. /\ UNCHANGED <<row, worker, poll, resuming, abandoned>>
        /\ pausing'[w] = "write" /\ (frozen'[w] => worker[w] = "agent")
        /\ \A v \in Workflows : v # w => frozen'[v] = frozen[v] /\ pausing'[v] = pausing[v]
    BY <1>3 DEF PauseSignals, AgentPid, TypeOK
  <2> QED BY <2>1, FrozenFrom
<1>4. CASE PauseWrites(w)
  <2>1. /\ UNCHANGED <<worker, frozen, poll, resuming>>
        /\ abandoned'[w] = (frozen[w] /\ resuming[w] # {})
        /\ \A v \in Workflows : v # w => /\ row'[v] = row[v] /\ pausing'[v] = pausing[v]
                                         /\ abandoned'[v] = abandoned[v]
    BY <1>4 DEF PauseWrites, threads, TypeOK
  <2>2. row'[w].status = "paused"
    BY <1>4 DEF PauseWrites, TypeOK, Rows
  <2> QED BY <2>1, <2>2, FrozenFrom
<1>7. CASE ResumeSignals(w)
  <2>1. /\ UNCHANGED <<row, worker, poll, pausing>> /\ ~frozen'[w]
        /\ \A v \in Workflows : v # w => /\ frozen'[v] = frozen[v] /\ resuming'[v] = resuming[v]
                                         /\ abandoned'[v] = abandoned[v]
    BY <1>7 DEF ResumeSignals, TypeOK
  <2> QED BY <2>1, FrozenFrom
<1>8. CASE ResumeWrites(w)
  <2>1. /\ UNCHANGED <<worker, frozen, poll, pausing, abandoned>> /\ resuming[w] # {}
        /\ \A v \in Workflows : v # w => row'[v] = row[v] /\ resuming'[v] = resuming[v]
    BY <1>8 DEF ResumeWrites, threads, TypeOK
  <2>2. PICK read \in resuming[w] :
          row' = [row EXCEPT ![w].status = StatusOf(read.phase),
                             ![w].mark = IF read.mark = "window" THEN "none" ELSE @]
    BY <1>8 DEF ResumeWrites
  <2>3. read.phase \in Phases
    BY DEF TypeOK
  <2>4. row'[w].status # "queued"
    BY <1>1, <2>2, <2>3 DEF TypeOK, Rows
  <2> QED BY <2>1, <2>4, FrozenFrom
<1>9. CASE Done(w)
  <2>1. /\ UNCHANGED <<worker, frozen, poll, pausing, resuming>> /\ abandoned'[w] = frozen[w]
        /\ \A v \in Workflows : v # w => row'[v] = row[v] /\ abandoned'[v] = abandoned[v]
    BY <1>9 DEF Done, threads, TypeOK
  <2>2. row'[w].status # "queued"
    BY <1>1, <1>9 DEF Done, Rest, TypeOK, Rows, Phases
  <2> QED BY <2>1, <2>2, FrozenFrom
<1>5. CASE Stop(w)
  <2>1. /\ poll' = poll /\ pausing' = pausing /\ resuming' = resuming
        /\ ~frozen'[w] /\ (worker[w] = "idle" => worker'[w] = "idle")
        /\ \A v \in Workflows :
             v # w => /\ worker'[v] = worker[v] /\ frozen'[v] = frozen[v]
                      /\ abandoned'[v] = abandoned[v]
    BY <1>5 DEF Stop, AgentPid, TypeOK
  <2>2. \A v \in Workflows : /\ row'[v].status \in {row[v].status, "cancelled"}
                             /\ v # w /\ row'[v] # row[v] => row[v].status = "queued"
    BY <1>5 DEF Stop, TypeOK, Rows
  <2>3. \A v \in Workflows : /\ worker[v] = "idle" => worker'[v] = "idle"
                             /\ row'[v].status = "queued" => row[v].status = "queued"
    BY <2>1, <2>2
  <2>4. FrozenWaits'
    BY <2>1, <2>2
  <2>5. poll.todo \subseteq Workflows /\ poll.pick \subseteq Workflows
    BY DEF TypeOK
  <2>6. QueuedIdle'
    BY <2>1, <2>3, <2>5
  <2> QED BY <2>4, <2>6
<1>6. CASE Retry(w)
  <2>1. /\ worker' = worker /\ frozen' = frozen /\ poll' = poll /\ worker[w] = "idle"
        /\ UNCHANGED routes
        /\ \A v \in Workflows : v # w => row'[v] = row[v]
    BY <1>6 DEF Retry, threads, TypeOK
  <2>2. row'[w].status # "queued"
    BY <1>1, <1>6 DEF Retry, TypeOK, Rows
  <2> QED BY <2>1, <2>2, FrozenFrom
<1> QED
  BY <1>2, <1>3, <1>4, <1>5, <1>6, <1>7, <1>8, <1>9 DEF Operator, Pause, Resume

\* Whatever the routes, the quota gate and the phases do, a process that the
\* pause route stopped is that of a paused workflow, which resume_workflow
\* accepts, or of one that is about to be written so, unless mark_done, the
\* pass over quota pauses or a resume already under way ended the pause.
THEOREM FrozenAreResumable == Spec => []FrozenOnlyWhilePaused
<1>1. Init => TypeOK /\ ThreadInv /\ FrozenInv
  BY InitTypes, InitThreads, InitFrozen
<1>2. TypeOK /\ ThreadInv /\ FrozenInv /\ [Next]_vars => TypeOK' /\ ThreadInv' /\ FrozenInv'
  <2>1. TypeOK /\ FrozenInv /\ UNCHANGED vars => FrozenInv'
    BY DEF vars, FrozenInv, FrozenWaits, Resumable, QueuedIdle
  <2> QED BY <2>1, NextTypes, NextThreads, PollFrozen, WorkerFrozen, OperatorFrozen DEF Next
<1>3. FrozenInv => FrozenOnlyWhilePaused
  BY DEF FrozenInv, FrozenWaits, Resumable, FrozenOnlyWhilePaused
<1> QED
  BY <1>1, <1>2, <1>3, PTL DEF Spec
=============================================================================
