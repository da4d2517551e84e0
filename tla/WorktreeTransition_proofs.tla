---------------------- MODULE WorktreeTransition_proofs ----------------------
(***************************************************************************)
(* Proofs about WorktreeTransition, for any number of kills and requests,  *)
(* failing Git commands or not, with and without a worktree of its own.    *)
(*                                                                         *)
(* Two facts about Git carry the argument: it has the branch in one        *)
(* worktree at most (OneCheckout), and only a registered worktree can miss *)
(* its directory.  A journal is closed over a home that has the branch, so *)
(* the temporary worktree does not; Settled adds what keeps it so while a  *)
(* resolver is under way, also when a second process closed the journal.   *)
(* Where agents work needs more: that the start-up reconciliation does not *)
(* run beside a worker (Overlap is FALSE).  Then the row is the worker's   *)
(* own while it is in advance(), and Ready says what it has made of the    *)
(* worktrees before an agent starts.                                       *)
(***************************************************************************)
EXTENDS WorktreeTransition, TLAPS

USE DEF Phases, resolver

\* Git has the branch in one worktree at most.
OneCheckout == \A t, u \in Trees : tree[t] = "branch" /\ tree[u] = "branch" => t = u

\* What is missing on disk is registered.
MissingRegistered == \A t \in gone : tree[t] # "none"

\* The start-up reconciliation has the row to itself, and a worker finds the
\* workflow working until it leaves.
Alone ==
  /\ pc["starter"] # "idle" \/ ~alive => pc["worker"] = "idle"
  /\ pc["worker"] # "idle" => row.status = "working"

\* A closed journal leaves no temporary worktree with the branch.  A resolver
\* whose journal was closed by another process finds the branch at home from
\* the step that attaches on; it has removed the original, unless it is in the
\* primary fallback.
Settled ==
  ~fellBack =>
    /\ row.state = "none" => tree["temp"] # "branch"
    /\ row.state = "none" /\ pc["worker"] \in Resolving \ {"remove", "removed"}
         => tree["home"] = "branch"
    /\ pc["worker"] \in {"attach", "note", "resolve", "untemp"} => took
    /\ pc["worker"] \notin {"free", "leave"}

\* Until the phase runs, the worker knows whether the row has a path.
Fresh == pc["worker"] \in {"start", "ensure"} \cup Reconciling => wf.path = row.path

\* The worktree of a phase is there before its agent starts.
Ready ==
  /\ pc["worker"] = "planning" => phase = "planning"
  /\ /\ Dedicated /\ pc["worker"] \in {"development", "agent"}
     /\ phase # "planning" /\ ~Overtaken
     => row.path /\ Present("home")
  /\ Dedicated /\ pc["worker"] = "merge" /\ row.path => Present("home")
  /\ pc["worker"] \in {"note", "resolve"} => Present("temp")

GitInv == TypeOK /\ OneCheckout /\ MissingRegistered
JournalInv == GitInv /\ Settled
AgentInv == GitInv /\ Alone /\ Fresh /\ Ready

-----------------------------------------------------------------------------
(* Types.                                                                   *)

LEMMA InitType == Init => TypeOK
<1> SUFFICES ASSUME Init PROVE TypeOK
  OBVIOUS
<1>1. Dedicated \in BOOLEAN
  BY ParametersAssumption
<1>2. row \in Rows
  BY <1>1 DEF Init, Rows, States
<1>3. tree \in [Trees -> {"none", "branch", "other"}]
  BY DEF Init, Trees
<1>4. crashes \in 0..MaxCrashes /\ requests \in 0..MaxRequests
  BY ParametersAssumption DEF Init
<1>. QED BY <1>2, <1>3, <1>4 DEF Init, TypeOK

\* Labels of the two processes.
Labels == {"idle", "start", "ensure", "agent"} \cup Phases \cup Reconciling \cup Resolving
StarterLabels == {"idle", "start"} \cup Reconciling

\* A jump of one process keeps the types of both, and the other where it is.
LEMMA GotoType ==
  ASSUME TypeOK, NEW a \in {"worker", "starter"}, NEW label, Goto(a, label),
         label \in (IF a = "worker" THEN Labels ELSE StarterLabels)
  PROVE  /\ pc' \in [worker : Labels, starter : StarterLabels]
         /\ pc'[a] = label
         /\ \A b \in {"worker", "starter"} \ {a} : pc'[b] = pc[b]
BY DEF TypeOK, Goto, Labels, StarterLabels

\* What a step may write into the row, the registry and the disk.
TreesType == tree \in [Trees -> {"none", "branch", "other"}] /\ gone \subseteq {"home", "temp"}
PcType == pc \in [worker : Labels, starter : StarterLabels]

\* An exception that leaves advance().
LEMMA RaiseType ==
  ASSUME TypeOK, NEW r \in Rows, Raise(r)
  PROVE  row' \in Rows /\ TreesType' /\ PcType'
<1>1. PcType'
  BY GotoType DEF Raise, PcType, Labels
<1>2. row' \in Rows
  BY DEF Raise, Rows
<1>3. TreesType'
  BY DEF Raise, TreesType, TypeOK, Detached
<1>. QED BY <1>1, <1>2, <1>3

LEMMA RaiseHereType == ASSUME TypeOK, RaiseHere PROVE TypeOK'
<1>1. row' \in Rows /\ TreesType' /\ PcType'
  BY RaiseType DEF RaiseHere, TypeOK
<1>. QED BY <1>1 DEF RaiseHere, TypeOK, TreesType, PcType, Labels, StarterLabels, local, counts

LEMMA GiveUpType ==
  ASSUME TypeOK, NEW a \in {"worker", "starter"}, GiveUp(a)
  PROVE  TypeOK'
<1>1. PcType'
  BY GotoType DEF GiveUp, Labels, StarterLabels, PcType
<1>2. row' \in Rows
  BY DEF GiveUp, FailedClosed, TypeOK, Rows, States
<1>. QED BY <1>1, <1>2 DEF GiveUp, Reread, TypeOK, local, counts, PcType, Labels, StarterLabels

LEMMA SettleType ==
  ASSUME TypeOK, NEW a \in {"worker", "starter"}, Settle(a)
  PROVE  TypeOK'
<1>1. PcType'
  BY GotoType DEF Settle, After, Labels, StarterLabels, PcType
<1>2. row' \in Rows
  BY DEF Settle, Cleared, TypeOK, Rows, States
<1>. QED BY <1>1, <1>2 DEF Settle, Reread, TypeOK, local, counts, PcType, Labels, StarterLabels

\* The reconciliation.
LEMMA ReconcileType ==
  ASSUME TypeOK, NEW a \in {"worker", "starter"},
         StartReconcile(a) \/ CleanTemp(a) \/ AttachHome(a) \/ VerifyHome(a)
  PROVE  TypeOK'
<1>1. CASE GiveUp(a)
  BY <1>1, GiveUpType
<1>2. CASE Settle(a)
  BY <1>2, SettleType
<1>3. CASE StartReconcile(a) /\ ~GiveUp(a) /\ ~Settle(a)
  <2>1. PcType'
    BY <1>3, GotoType DEF StartReconcile, Reconcile, After, PcType, Labels, StarterLabels, Reconciling
  <2>. QED BY <1>3, <2>1 DEF StartReconcile, Reconcile, Reread, TypeOK, PcType, Labels, StarterLabels, local, counts
<1>4. CASE CleanTemp(a) /\ ~GiveUp(a)
  <2>1. PcType'
    BY <1>4, GotoType DEF CleanTemp, PcType, Labels, StarterLabels, Reconciling
  <2>2. TreesType'
    BY <1>4 DEF CleanTemp, TreesType, TypeOK, Detached
  <2>. QED BY <1>4, <2>1, <2>2 DEF CleanTemp, TypeOK, TreesType, PcType, Labels, StarterLabels, local, counts
<1>5. CASE AttachHome(a) /\ ~GiveUp(a)
  <2>1. PcType'
    BY <1>5, GotoType DEF AttachHome, PcType, Labels, StarterLabels, Reconciling
  <2>2. TreesType'
    BY <1>5 DEF AttachHome, TreesType, TypeOK, Attached
  <2>. QED BY <1>5, <2>1, <2>2 DEF AttachHome, TypeOK, TreesType, PcType, Labels, StarterLabels, local, counts
<1>. QED BY <1>1, <1>2, <1>3, <1>4, <1>5 DEF VerifyHome

\* advance() outside of the resolver.
LEMMA AdvanceType ==
  ASSUME TypeOK, Begin \/ EnsureWorktree \/ StartAgent \/ StartRepair \/ AgentEnds \/ MergeDone
  PROVE  TypeOK'
<1> USE DEF TreesType, PcType, Labels, StarterLabels, local, counts
<1>1. CASE RaiseHere
  BY <1>1, RaiseHereType
<1>2. CASE Begin
  <2>1. PcType'
    BY <1>2, GotoType DEF Begin
  <2>. QED BY <1>2, <2>1 DEF Begin, TypeOK, Rows
<1>3. CASE EnsureWorktree /\ ~RaiseHere
  <2>1. PcType'
    BY <1>3, GotoType DEF EnsureWorktree, TypeOK
  <2>2. TreesType'
    BY <1>3 DEF EnsureWorktree, Ensured, Attached, TypeOK
  <2>3. row' \in Rows
    BY <1>3 DEF EnsureWorktree, TypeOK, Rows
  <2>. QED BY <1>3, <2>1, <2>2, <2>3 DEF EnsureWorktree, TypeOK
<1>4. CASE StartAgent
  <2>1. PcType'
    BY <1>4, GotoType DEF StartAgent
  <2>. QED BY <1>4, <2>1 DEF StartAgent, TypeOK
<1>5. CASE StartRepair /\ ~RaiseHere
  <2>1. PcType'
    BY <1>5, GotoType DEF StartRepair
  <2>2. TreesType'
    BY <1>5 DEF StartRepair, Ensured, Attached, TypeOK
  <2>3. row' \in Rows
    BY <1>5 DEF StartRepair, TypeOK, Rows
  <2>. QED BY <1>5, <2>1, <2>2, <2>3 DEF StartRepair, TypeOK
<1>6. CASE AgentEnds /\ ~RaiseHere
  <2>1. PcType'
    BY <1>6, GotoType DEF AgentEnds
  <2>2. TreesType'
    <3>1. Where \in Trees
      BY DEF Where, Trees
    <3>2. \/ UNCHANGED <<tree, gone>>
          \/ tree' = [tree EXCEPT ![Where] = IF @ = "none" THEN @ ELSE "other"] /\ gone' = gone
      BY <1>6 DEF AgentEnds
    <3>. QED BY <3>1, <3>2 DEF TypeOK
  <2>3. row' \in Rows
    BY <1>6 DEF AgentEnds, NextPhase, TypeOK, Rows
  <2>. QED BY <1>6, <2>1, <2>2, <2>3 DEF AgentEnds, TypeOK
<1>7. CASE MergeDone
  <2>1. PcType'
    BY <1>7, GotoType DEF MergeDone
  <2>2. TreesType'
    BY <1>7 DEF MergeDone, Detached, TypeOK
  <2>3. row' \in Rows
    BY <1>7 DEF MergeDone, TypeOK, Rows
  <2>. QED BY <1>7, <2>1, <2>2, <2>3 DEF MergeDone, TypeOK
<1>. QED BY <1>1, <1>2, <1>3, <1>4, <1>5, <1>6, <1>7

\* The resolver's steps up to the resolution ...
LEMMA ResolveType ==
  ASSUME TypeOK, Conflict \/ RemoveOriginal \/ OriginalRemoved \/ FreeBranch
                 \/ AttachTemp \/ NoteTemp \/ Resolve
  PROVE  TypeOK'
<1> USE DEF TreesType, PcType, Labels, StarterLabels, local, counts
<1>1. CASE RaiseHere
  BY <1>1, RaiseHereType
<1>2. CASE Conflict
  <2>1. PcType'
    BY <1>2, GotoType DEF Conflict, Resolving
  <2>2. row' \in Rows
    <3>1. CASE row.path
      <4>1. row' = [row EXCEPT !.state = "removing_original", !.orig = TRUE, !.temp = TRUE]
        BY <1>2, <3>1 DEF Conflict
      <4>2. "removing_original" \in States
        BY DEF States, InFlight
      <4>. QED BY <4>1, <4>2 DEF TypeOK, Rows
    <3>2. CASE ~row.path
      BY <1>2, <3>2 DEF Conflict, TypeOK
    <3>. QED BY <3>1, <3>2
  <2>3. {alive', took', good', fellBack'} \subseteq BOOLEAN
    BY <1>2, Zenon DEF Conflict, TypeOK
  <2>. QED BY <1>2, <2>1, <2>2, <2>3 DEF Conflict, TypeOK
<1>3. CASE RemoveOriginal /\ ~RaiseHere
  <2>1. PcType'
    BY <1>3, GotoType DEF RemoveOriginal, Resolving
  <2>2. TreesType'
    BY <1>3 DEF RemoveOriginal, Detached, TypeOK
  <2>. QED BY <1>3, <2>1, <2>2 DEF RemoveOriginal, TypeOK
<1>4. CASE OriginalRemoved
  <2>1. PcType'
    BY <1>4, GotoType DEF OriginalRemoved, Resolving
  <2>2. row' \in Rows
    BY <1>4 DEF OriginalRemoved, TypeOK, Rows, States, InFlight
  <2>. QED BY <1>4, <2>1, <2>2 DEF OriginalRemoved, TypeOK
<1>5. CASE FreeBranch /\ ~RaiseHere
  <2>1. PcType'
    BY <1>5, GotoType DEF FreeBranch, Resolving
  <2>2. TreesType'
    BY <1>5 DEF FreeBranch, TypeOK
  <2>. QED BY <1>5, <2>1, <2>2 DEF FreeBranch, TypeOK
<1>6. CASE AttachTemp /\ ~RaiseHere
  <2>1. PcType'
    BY <1>6, GotoType DEF AttachTemp, Resolving
  <2>2. TreesType'
    BY <1>6 DEF AttachTemp, Attached, TypeOK
  <2>. QED BY <1>6, <2>1, <2>2 DEF AttachTemp, TypeOK
<1>7. CASE NoteTemp
  <2>1. PcType'
    BY <1>7, GotoType DEF NoteTemp, Resolving
  <2>2. row' \in Rows
    BY <1>7 DEF NoteTemp, Journal, TypeOK, Rows, States, InFlight
  <2>. QED BY <1>7, <2>1, <2>2 DEF NoteTemp, TypeOK
<1>8. CASE Resolve
  <2>1. PcType'
    BY <1>8, GotoType DEF Resolve, Resolving
  <2>2. TreesType'
    BY <1>8 DEF Resolve, TypeOK
  <2>. QED BY <1>8, <2>1, <2>2 DEF Resolve, TypeOK
<1>. QED BY <1>1, <1>2, <1>3, <1>4, <1>5, <1>6, <1>7, <1>8

\* ... and its finally block.
LEMMA FinallyType ==
  ASSUME TypeOK, RemoveTemp \/ LeaveFallback \/ Restore \/ Readd \/ CheckRestored
  PROVE  TypeOK'
<1> USE DEF TreesType, PcType, Labels, StarterLabels, local, counts
<1>1. CASE GiveUp("worker")
  BY <1>1, GiveUpType
<1>2. CASE RemoveTemp
  <2>1. PcType'
    BY <1>2, GotoType DEF RemoveTemp, Resolving
  <2>2. TreesType'
    BY <1>2 DEF RemoveTemp, Detached, TypeOK
  <2>. QED BY <1>2, <2>1, <2>2 DEF RemoveTemp, TypeOK
<1>3. ASSUME NEW r \in Rows, Finish(r)
      PROVE  row' \in Rows /\ TreesType' /\ PcType'
  <2>1. CASE Raise(r)
    BY <1>3, <2>1, RaiseType
  <2>2. CASE ~Raise(r)
    <3>1. PcType'
      BY <1>3, <2>2, GotoType DEF Finish
    <3>. QED BY <1>3, <2>2, <3>1 DEF Finish, TypeOK
  <2>. QED BY <2>1, <2>2
<1>4. CASE LeaveFallback
  <2>1. row' \in Rows /\ TreesType' /\ PcType'
    BY <1>3, <1>4 DEF LeaveFallback, TypeOK
  <2>. QED BY <1>4, <2>1 DEF LeaveFallback, TypeOK
<1>5. CASE Restore
  <2>1. PcType'
    BY <1>5, GotoType DEF Restore, Resolving
  <2>2. row' \in Rows
    BY <1>5 DEF Restore, Journal, TypeOK, Rows, States, InFlight
  <2>. QED BY <1>5, <2>1, <2>2 DEF Restore, TypeOK
<1>6. CASE Readd /\ ~GiveUp("worker")
  <2>1. PcType'
    BY <1>6, GotoType DEF Readd, Resolving
  <2>2. TreesType'
    BY <1>6 DEF Readd, Attached, TypeOK
  <2>. QED BY <1>6, <2>1, <2>2 DEF Readd, TypeOK
<1>7. CASE CheckRestored /\ ~GiveUp("worker")
  <2>1. Cleared \in Rows
    BY DEF Cleared, TypeOK, Rows, States
  <2>2. row' \in Rows /\ TreesType' /\ PcType'
    BY <1>3, <1>7, <2>1 DEF CheckRestored
  <2>. QED BY <1>7, <2>2 DEF CheckRestored, TypeOK
<1>. QED BY <1>1, <1>2, <1>4, <1>5, <1>6, <1>7

\* Kills, restarts and the routes.
LEMMA OutsideType ==
  ASSUME TypeOK, StartUp \/ Kill \/ RetryRoute \/ DoneRoute
  PROVE  TypeOK'
<1> USE DEF TreesType, PcType, Labels, StarterLabels, local, counts
<1>1. CASE StartUp
  <2>1. PcType'
    BY <1>1, GotoType DEF StartUp
  <2>2. crashes' \in 0..MaxCrashes
    BY <1>1, ParametersAssumption DEF StartUp, TypeOK
  <2>. QED BY <1>1, <2>1, <2>2 DEF StartUp, TypeOK
<1>2. CASE Kill
  <2>1. crashes' \in 0..MaxCrashes
    BY <1>2, ParametersAssumption DEF Kill, TypeOK
  <2>2. gone' \subseteq {"home", "temp"}
    BY <1>2 DEF Kill, Interrupted, TypeOK
  <2>3. PcType'
    BY <1>2 DEF Kill
  <2>. QED BY <1>2, <2>1, <2>2, <2>3 DEF Kill, TypeOK
<1>3. CASE RetryRoute \/ DoneRoute
  <2>1. requests' \in 0..MaxRequests
    BY <1>3, ParametersAssumption DEF RetryRoute, DoneRoute, TypeOK
  <2>2. row' \in Rows
    <3>1. CASE RetryRoute
      <4>1. row' = [row EXCEPT !.status = "working", !.path = row.path \/ Dedicated]
        BY <3>1 DEF RetryRoute
      <4>2. (row.path \/ Dedicated) \in BOOLEAN
        BY ParametersAssumption DEF TypeOK, Rows
      <4>. QED BY <4>1, <4>2 DEF TypeOK, Rows
    <3>2. CASE DoneRoute
      BY <3>2 DEF DoneRoute, TypeOK, Rows
    <3>. QED BY <1>3, <3>1, <3>2
  <2>. QED BY <1>3, <2>1, <2>2 DEF RetryRoute, DoneRoute, TypeOK
<1>. QED BY <1>1, <1>2, <1>3

LEMMA TypeStep == TypeOK /\ [Next]_vars => TypeOK'
<1> SUFFICES ASSUME TypeOK, [Next]_vars PROVE TypeOK'
  OBVIOUS
<1>1. CASE UNCHANGED vars
  BY <1>1 DEF vars, TypeOK
<1>2. CASE StarterStep
  BY <1>2, ReconcileType DEF StarterStep
<1>3. CASE WorkerStep
  BY <1>3, ReconcileType, AdvanceType, ResolveType, FinallyType DEF WorkerStep
<1>. QED BY <1>1, <1>2, <1>3, OutsideType DEF Next

\* The row, Git's registry, the disk and both processes keep to their types,
\* however often the process is killed and whatever operators ask for.
THEOREM TypeCorrect == Spec => []TypeOK
BY InitType, TypeStep, PTL DEF Spec

-----------------------------------------------------------------------------
(* The journal is closed over a restored worktree.                          *)

Closes == row.state # "none" /\ row'.state = "none"
Restored == row'.path /\ tree["home"] = "branch"

\* An exception leaves the journal as the row it commits has it.
LEMMA RaiseKeepsJournal ==
  ASSUME NEW r \in Rows, Raise(r)
  PROVE  row'.state = r.state /\ row'.path = r.path
BY DEF Raise, Rows

LEMMA ReconcileRestores ==
  ASSUME TypeOK, NEW a \in {"worker", "starter"}, Closes,
         StartReconcile(a) \/ CleanTemp(a) \/ AttachHome(a) \/ VerifyHome(a)
  PROVE  Restored
<1>1. CASE GiveUp(a)
  BY <1>1 DEF GiveUp, FailedClosed, Closes, TypeOK, Rows
<1>2. Settle(a) => row'.path
  BY DEF Settle, Cleared, TypeOK, Rows
<1>3. CASE StartReconcile(a) /\ ~GiveUp(a)
  BY <1>2, <1>3 DEF StartReconcile, Reconcile, Closes, Restored
<1>4. CASE (CleanTemp(a) \/ AttachHome(a)) /\ ~GiveUp(a)
  BY <1>4 DEF CleanTemp, AttachHome, Closes
<1>5. CASE VerifyHome(a) /\ ~GiveUp(a)
  BY <1>2, <1>5 DEF VerifyHome, Restored
<1>. QED BY <1>1, <1>3, <1>4, <1>5

LEMMA AdvanceKeepsOpen ==
  ASSUME TypeOK, Begin \/ EnsureWorktree \/ StartAgent \/ StartRepair \/ AgentEnds \/ MergeDone
  PROVE  row'.state = row.state
<1>1. CASE RaiseHere
  BY <1>1, RaiseKeepsJournal DEF RaiseHere, TypeOK
<1>2. CASE Begin \/ StartAgent
  BY <1>2 DEF Begin, StartAgent
<1>3. CASE EnsureWorktree /\ ~RaiseHere
  BY <1>3 DEF EnsureWorktree, TypeOK, Rows
<1>4. CASE StartRepair /\ ~RaiseHere
  BY <1>4 DEF StartRepair, TypeOK, Rows
<1>5. CASE AgentEnds /\ ~RaiseHere
  BY <1>5 DEF AgentEnds, TypeOK, Rows
<1>6. CASE MergeDone
  BY <1>6 DEF MergeDone, TypeOK, Rows
<1>. QED BY <1>1, <1>2, <1>3, <1>4, <1>5, <1>6

LEMMA ResolverRestores ==
  ASSUME TypeOK, Closes,
         Conflict \/ RemoveOriginal \/ OriginalRemoved \/ FreeBranch \/ AttachTemp
         \/ NoteTemp \/ Resolve \/ RemoveTemp \/ LeaveFallback \/ Restore \/ Readd \/ CheckRestored
  PROVE  Restored
<1>1. CASE RaiseHere
  BY <1>1, RaiseKeepsJournal DEF RaiseHere, TypeOK, Closes
<1>2. CASE GiveUp("worker")
  BY <1>2 DEF GiveUp, FailedClosed, Closes, TypeOK, Rows
<1>3. CASE Conflict
  BY <1>3 DEF Conflict, Closes, TypeOK, Rows
<1>4. CASE OriginalRemoved \/ NoteTemp \/ Restore
  BY <1>4 DEF OriginalRemoved, NoteTemp, Restore, Journal, Closes, TypeOK, Rows
<1>5. CASE (RemoveOriginal \/ FreeBranch \/ AttachTemp \/ Resolve \/ RemoveTemp) /\ ~RaiseHere
  BY <1>5 DEF RemoveOriginal, FreeBranch, AttachTemp, Resolve, RemoveTemp, Closes
<1>6. CASE LeaveFallback
  BY <1>6, RaiseKeepsJournal DEF LeaveFallback, Finish, Closes, TypeOK
<1>7. CASE Readd /\ ~GiveUp("worker")
  BY <1>7 DEF Readd, Closes
<1>8. CASE CheckRestored /\ ~GiveUp("worker")
  <2>1. Cleared \in Rows /\ Cleared.path
    BY DEF Cleared, TypeOK, Rows, States
  <2>2. row'.path
    BY <1>8, <2>1, RaiseKeepsJournal DEF CheckRestored, Finish
  <2>. QED BY <1>8, <2>2 DEF CheckRestored, Restored
<1>. QED BY <1>1, <1>2, <1>3, <1>4, <1>5, <1>6, <1>7, <1>8

\* The journal is closed only over a workflow that is bound to a worktree with
\* its branch: by the resolver's finally block, by the reconciliation in
\* advance() and by that of a process that starts, also beside a worker.
THEOREM JournalClosedRestored == Spec => ClosedWhenRestored
<1>1. TypeOK /\ [Next]_vars
        => [row.state # "none" /\ row'.state = "none" => row'.path /\ tree["home"] = "branch"]_vars
  <2> SUFFICES ASSUME TypeOK, Next, Closes PROVE Restored
    BY DEF Closes, Restored
  <2>1. CASE WorkerStep
    BY <2>1, ReconcileRestores, AdvanceKeepsOpen, ResolverRestores DEF WorkerStep, Closes
  <2>2. CASE StarterStep
    BY <2>2, ReconcileRestores DEF StarterStep
  <2>3. CASE StartUp \/ Kill \/ RetryRoute \/ DoneRoute
    BY <2>3 DEF StartUp, Kill, RetryRoute, DoneRoute, Closes, TypeOK, Rows
  <2>. QED BY <2>1, <2>2, <2>3 DEF Next
<1>. QED BY <1>1, TypeCorrect, PTL DEF Spec, ClosedWhenRestored

-----------------------------------------------------------------------------
(* Git's registry.                                                          *)

LEMMA InitGit == Init => OneCheckout /\ MissingRegistered
<1> SUFFICES ASSUME Init PROVE OneCheckout /\ MissingRegistered
  OBVIOUS
<1>1. /\ tree["temp"] = "none"
      /\ tree["home"] = (IF Dedicated THEN "branch" ELSE "none")
      /\ tree["main"] = (IF Dedicated THEN "other" ELSE "branch")
  BY DEF Init, Trees
<1>. QED BY <1>1 DEF Init, OneCheckout, MissingRegistered, Trees

\* What the Git commands of the model do to the registry: remove a worktree,
\* check the branch out where no other worktree has it, leave it for another.
Removes(t) == tree' = Detached(t) /\ gone' = gone \ {t}
Checks(t) == (\A u \in Trees \ {t} : tree[u] # "branch") /\ tree' = Attached(t) /\ gone' = gone
Switches(t) == tree' = [tree EXCEPT ![t] = "other"] /\ gone' = gone
Git == \/ UNCHANGED <<tree, gone>>
       \/ \E t \in Trees : Removes(t) \/ Checks(t) \/ Switches(t)

LEMMA GitKeeps ==
  ASSUME TypeOK, OneCheckout, MissingRegistered, Git
  PROVE  OneCheckout' /\ MissingRegistered'
<1>1. CASE UNCHANGED <<tree, gone>>
  BY <1>1 DEF OneCheckout, MissingRegistered
<1>2. ASSUME NEW t \in Trees, Removes(t) PROVE OneCheckout' /\ MissingRegistered'
  BY <1>2 DEF Removes, Detached, OneCheckout, MissingRegistered, TypeOK, Trees
<1>3. ASSUME NEW t \in Trees, Checks(t) PROVE OneCheckout' /\ MissingRegistered'
  BY <1>3 DEF Checks, Attached, OneCheckout, MissingRegistered, TypeOK, Trees
<1>4. ASSUME NEW t \in Trees, Switches(t) PROVE OneCheckout' /\ MissingRegistered'
  BY <1>4 DEF Switches, OneCheckout, MissingRegistered, TypeOK, Trees
<1>. QED BY <1>1, <1>2, <1>3, <1>4 DEF Git

LEMMA RaiseGit == ASSUME NEW r, Raise(r) PROVE Git
BY DEF Raise, Git, Removes, Trees

LEMMA EnsuredGit == ASSUME TypeOK, OneCheckout, Ensured PROVE Git
BY DEF Ensured, Git, Checks, Trees, TypeOK

LEMMA ReconcileGit ==
  ASSUME TypeOK, OneCheckout, NEW a \in {"worker", "starter"},
         StartReconcile(a) \/ CleanTemp(a) \/ AttachHome(a) \/ VerifyHome(a)
  PROVE  Git
<1>1. CASE StartReconcile(a) \/ VerifyHome(a) \/ GiveUp(a)
  BY <1>1 DEF StartReconcile, Reconcile, VerifyHome, Settle, GiveUp, Git
<1>2. CASE CleanTemp(a) /\ ~GiveUp(a)
  BY <1>2 DEF CleanTemp, Git, Removes, Trees
<1>3. CASE AttachHome(a) /\ ~GiveUp(a)
  <2>1. \A u \in Trees \ {"home"} : tree[u] # "branch"
    BY <1>3 DEF AttachHome, Attachable, OneCheckout, Trees
  <2>2. "home" \in Trees
    BY DEF Trees
  <2>. QED BY <1>3, <2>1, <2>2 DEF AttachHome, Git, Checks
<1>. QED BY <1>1, <1>2, <1>3

LEMMA AdvanceGit ==
  ASSUME TypeOK, OneCheckout,
         Begin \/ EnsureWorktree \/ StartAgent \/ StartRepair \/ AgentEnds \/ MergeDone
  PROVE  Git
<1>1. CASE RaiseHere
  BY <1>1, RaiseGit DEF RaiseHere
<1>2. CASE Begin \/ StartAgent
  BY <1>2 DEF Begin, StartAgent, Git
<1>3. CASE (EnsureWorktree \/ StartRepair) /\ ~RaiseHere
  BY <1>3, EnsuredGit DEF EnsureWorktree, StartRepair, Git
<1>4. CASE AgentEnds /\ ~RaiseHere
  <2>1. Where \in Trees
    BY DEF Where, Trees
  <2>2. tree' = tree \/ tree' = [tree EXCEPT ![Where] = "other"]
    <3>1. CASE tree[Where] = "none"
      BY <1>4, <2>1, <3>1 DEF AgentEnds, TypeOK
    <3>2. CASE tree[Where] # "none"
      BY <1>4, <2>1, <3>2 DEF AgentEnds, TypeOK
    <3>. QED BY <3>1, <3>2
  <2>. QED BY <1>4, <2>1, <2>2 DEF AgentEnds, Git, Switches
<1>5. CASE MergeDone
  BY <1>5 DEF MergeDone, Git, Removes, Trees
<1>. QED BY <1>1, <1>2, <1>3, <1>4, <1>5

LEMMA ResolverGit ==
  ASSUME TypeOK, OneCheckout,
         Conflict \/ RemoveOriginal \/ OriginalRemoved \/ FreeBranch \/ AttachTemp
         \/ NoteTemp \/ Resolve \/ RemoveTemp \/ LeaveFallback \/ Restore \/ Readd \/ CheckRestored
  PROVE  Git
<1>1. CASE RaiseHere \/ GiveUp("worker")
  BY <1>1, RaiseGit DEF RaiseHere, GiveUp, Git
<1>2. CASE Conflict \/ OriginalRemoved \/ NoteTemp \/ Restore
  BY <1>2 DEF Conflict, OriginalRemoved, NoteTemp, Restore, Git
<1>3. CASE (RemoveOriginal \/ RemoveTemp) /\ ~RaiseHere
  BY <1>3 DEF RemoveOriginal, RemoveTemp, Git, Removes, Trees
<1>4. CASE (FreeBranch \/ Resolve) /\ ~RaiseHere
  BY <1>4 DEF FreeBranch, Resolve, Git, Switches, Trees
<1>5. CASE AttachTemp /\ ~RaiseHere
  BY <1>5 DEF AttachTemp, Attachable, Git, Checks, Trees
<1>6. CASE Readd /\ ~GiveUp("worker")
  BY <1>6 DEF Readd, Attachable, Git, Checks, Trees
<1>7. CASE (LeaveFallback \/ CheckRestored) /\ ~GiveUp("worker")
  BY <1>7, RaiseGit DEF LeaveFallback, CheckRestored, Finish, Git
<1>. QED BY <1>1, <1>2, <1>3, <1>4, <1>5, <1>6, <1>7

LEMMA GitStep == GitInv /\ [Next]_vars => GitInv'
<1> SUFFICES ASSUME GitInv, [Next]_vars PROVE GitInv'
  OBVIOUS
<1>1. TypeOK'
  BY TypeStep DEF GitInv
<1>2. CASE Git
  BY <1>1, <1>2, GitKeeps DEF GitInv
<1>3. CASE Kill
  BY <1>1, <1>3 DEF Kill, Interrupted, GitInv, OneCheckout, MissingRegistered
<1>4. CASE WorkerStep
  BY <1>2, <1>4, ReconcileGit, AdvanceGit, ResolverGit DEF WorkerStep, GitInv
<1>5. CASE StarterStep
  BY <1>2, <1>5, ReconcileGit DEF StarterStep, GitInv
<1>6. CASE StartUp \/ RetryRoute \/ DoneRoute \/ UNCHANGED vars
  BY <1>2, <1>6 DEF StartUp, RetryRoute, DoneRoute, vars, Git
<1>. QED BY <1>3, <1>4, <1>5, <1>6 DEF Next

LEMMA InitGitInv == Init => GitInv
BY InitType, InitGit DEF GitInv

-----------------------------------------------------------------------------
(* A closed journal frees the branch.                                       *)

LEMMA InitSettled == Init => Settled
<1> SUFFICES ASSUME Init PROVE Settled
  OBVIOUS
<1>1. tree["temp"] = "none"
  BY DEF Init, Trees
<1>. QED BY <1>1 DEF Init, Settled, Resolving

\* A worker outside of the resolver: only the temporary worktree matters.
LEMMA OutsideSettled ==
  ASSUME NEW label \in Labels \ Resolving, pc'["worker"] = label,
         row'.state = "none" /\ ~fellBack' => tree'["temp"] # "branch"
  PROVE  Settled'
BY DEF Settled, Labels, Resolving, Reconciling

\* What happens to the temporary worktree when an exception leaves advance().
LEMMA RaiseSettled ==
  ASSUME JournalInv, NEW r \in Rows, Raise(r), UNCHANGED counts,
         r.state = "none" /\ ~fellBack => tree["temp"] # "branch"
  PROVE  Settled'
<1>1. pc'["worker"] = "idle"
  BY GotoType DEF Raise, Labels, JournalInv, GitInv
<1>2. row'.state = r.state
  BY RaiseKeepsJournal
<1>3. tree'["temp"] = tree["temp"]
  <2>1. tree' = tree \/ tree' = Detached("home")
    BY DEF Raise
  <2>. QED BY <2>1 DEF Detached, JournalInv, GitInv, TypeOK, Trees
<1>. QED BY <1>1, <1>2, <1>3, OutsideSettled DEF counts, Labels, Resolving

LEMMA RaiseHereSettled == ASSUME JournalInv, RaiseHere PROVE Settled'
BY RaiseSettled DEF RaiseHere, JournalInv, GitInv, TypeOK, Settled

LEMMA GiveUpSettled ==
  ASSUME JournalInv, NEW a \in {"worker", "starter"}, GiveUp(a)
  PROVE  Settled'
<1>1. pc'["worker"] \in {pc["worker"], "idle"}
  BY GotoType DEF GiveUp, Labels, StarterLabels, JournalInv, GitInv
<1>2. row'.state = "recovery_failed"
  BY DEF GiveUp, FailedClosed, JournalInv, GitInv, TypeOK, Rows
<1>. QED BY <1>1, <1>2 DEF GiveUp, local, counts, Settled, JournalInv, Resolving

\* The reconciliation closes the journal with the branch at home.
LEMMA ReconcileSettled ==
  ASSUME JournalInv, NEW a \in {"worker", "starter"},
         StartReconcile(a) \/ CleanTemp(a) \/ AttachHome(a) \/ VerifyHome(a)
  PROVE  Settled'
<1> USE DEF JournalInv, GitInv
<1>1. CASE GiveUp(a)
  BY <1>1, GiveUpSettled
<1>2. CASE ~GiveUp(a)
  <2>1. pc'["worker"] \in {pc["worker"], "ensure", "idle"} \cup Reconciling
    BY <1>2, GotoType DEF StartReconcile, Reconcile, CleanTemp, AttachHome, VerifyHome, Settle,
       After, Labels, StarterLabels, Reconciling
  <2>2. fellBack' = fellBack /\ took' = took
    BY <1>2 DEF StartReconcile, Reconcile, CleanTemp, AttachHome, VerifyHome, Settle, local, counts
  <2>3. CASE Settle(a) /\ tree["home"] = "branch"
    <3>1. tree' = tree /\ tree["temp"] # "branch"
      BY <2>3 DEF Settle, OneCheckout, Trees
    <3>. QED BY <2>1, <2>2, <2>3, <3>1 DEF Settled, Reconciling, Resolving
  <2>4. CASE StartReconcile(a) /\ ~(Settle(a) /\ tree["home"] = "branch")
    BY <1>2, <2>1, <2>2, <2>4 DEF StartReconcile, Reconcile, Settled, Reconciling, Resolving
  <2>5. CASE CleanTemp(a)
    <3>1. row' = row /\ tree'["home"] = tree["home"] /\ tree'["temp"] \in {tree["temp"], "none"}
      BY <1>2, <2>5 DEF CleanTemp, Detached, TypeOK, Trees
    <3>. QED BY <2>1, <2>2, <3>1 DEF Settled, Reconciling, Resolving
  <2>6. CASE AttachHome(a)
    <3>1. row' = row /\ tree'["home"] = "branch" /\ tree'["temp"] = tree["temp"]
      BY <1>2, <2>6 DEF AttachHome, Attached, TypeOK, Trees
    <3>. QED BY <2>1, <2>2, <3>1 DEF Settled, Reconciling, Resolving
  <2>. QED BY <1>2, <2>3, <2>4, <2>5, <2>6 DEF VerifyHome
<1>. QED BY <1>1, <1>2

LEMMA AdvanceSettled ==
  ASSUME JournalInv,
         Begin \/ EnsureWorktree \/ StartAgent \/ StartRepair \/ AgentEnds \/ MergeDone
  PROVE  Settled'
<1> USE DEF JournalInv, GitInv
<1>1. CASE RaiseHere
  BY <1>1, RaiseHereSettled
<1>2. CASE ~RaiseHere
  <2>1. pc'["worker"] \in {"start", "agent", "idle"} \cup Phases
    BY <1>2, GotoType DEF Begin, EnsureWorktree, StartAgent, StartRepair, AgentEnds, MergeDone,
       TypeOK, Labels
  <2>2. row'.state = row.state
    BY AdvanceKeepsOpen
  <2>3. fellBack' = fellBack
    BY <1>2 DEF Begin, EnsureWorktree, StartAgent, StartRepair, AgentEnds, MergeDone, counts
  <2>4. tree'["temp"] = tree["temp"]
    <3>1. CASE Begin \/ StartAgent \/ MergeDone
      BY <3>1 DEF Begin, StartAgent, MergeDone, Detached, TypeOK, Trees
    <3>2. CASE EnsureWorktree \/ StartRepair
      BY <1>2, <3>2 DEF EnsureWorktree, StartRepair, Ensured, Attached, TypeOK, Trees
    <3>3. CASE AgentEnds
      BY <1>2, <3>3 DEF AgentEnds, Where, TypeOK, Trees
    <3>. QED BY <3>1, <3>2, <3>3
  <2>. QED BY <2>1, <2>2, <2>3, <2>4, OutsideSettled DEF Settled, Labels, Resolving
<1>. QED BY <1>1, <1>2

LEMMA ResolverSettled ==
  ASSUME JournalInv,
         Conflict \/ RemoveOriginal \/ OriginalRemoved \/ FreeBranch \/ AttachTemp
         \/ NoteTemp \/ Resolve \/ RemoveTemp \/ LeaveFallback \/ Restore \/ Readd \/ CheckRestored
  PROVE  Settled'
<1> USE DEF JournalInv, GitInv
<1>1. CASE RaiseHere
  BY <1>1, RaiseHereSettled
<1>2. CASE GiveUp("worker")
  BY <1>2, GiveUpSettled
<1>3. CASE Conflict
  <2>1. CASE row.path
    <3>1. pc'["worker"] = "remove"
      BY <1>3, <2>1, GotoType DEF Conflict, Labels, Resolving
    <3>2. row'.state = "removing_original"
      BY <1>3, <2>1 DEF Conflict, TypeOK, Rows
    <3>. QED BY <3>1, <3>2 DEF Settled
  <2>2. CASE ~row.path
    BY <1>3, <2>2 DEF Conflict, Settled
  <2>. QED BY <2>1, <2>2
<1>4. CASE RemoveOriginal /\ ~RaiseHere
  <2>1. pc'["worker"] = "removed"
    BY <1>4, GotoType DEF RemoveOriginal, Labels, Resolving
  <2>2. row' = row /\ fellBack' = fellBack /\ tree'["temp"] = tree["temp"]
    BY <1>4 DEF RemoveOriginal, Detached, TypeOK, Trees, counts
  <2>. QED BY <2>1, <2>2 DEF Settled
<1>5. CASE OriginalRemoved
  <2>1. pc'["worker"] = "attach"
    BY <1>5, GotoType DEF OriginalRemoved, Labels, Resolving
  <2>2. row'.state = "original_removed" /\ took'
    BY <1>5 DEF OriginalRemoved, TypeOK, Rows
  <2>. QED BY <2>1, <2>2 DEF Settled
<1>6. CASE FreeBranch
  <2>1. fellBack' = fellBack
    BY <1>6 DEF FreeBranch, RaiseHere, counts
  <2>. QED BY <1>6, <2>1 DEF FreeBranch, Settled
<1>7. CASE AttachTemp /\ ~RaiseHere
  <2>1. pc'["worker"] \in {"note", "restore"}
    BY <1>7, GotoType DEF AttachTemp, Labels, Resolving
  <2>2. row' = row /\ fellBack' = fellBack /\ took' = took /\ pc["worker"] = "attach"
    BY <1>7 DEF AttachTemp, local, counts
  <2>3. tree' = tree \/ tree["home"] # "branch"
    BY <1>7 DEF AttachTemp, Attachable, Trees
  <2>. QED BY <2>1, <2>2, <2>3 DEF Settled, Resolving
<1>8. CASE NoteTemp \/ Restore
  <2>1. pc'["worker"] \in {"resolve", "readd"} /\ (pc'["worker"] = "resolve" => pc["worker"] = "note")
    BY <1>8, GotoType DEF NoteTemp, Restore, Labels, Resolving
  <2>2. row'.state # "none" /\ fellBack' = fellBack /\ took' = took
    BY <1>8 DEF NoteTemp, Restore, Journal, TypeOK, Rows, local, counts
  <2>. QED BY <2>1, <2>2 DEF Settled
<1>9. CASE Resolve \/ RemoveTemp
  <2>1. pc["worker"] \in {"resolve", "untemp"} /\ row' = row /\ fellBack' = fellBack /\ took' = took
    BY <1>9 DEF Resolve, RemoveTemp, local, counts
  <2>2. pc'["worker"] \in {"untemp", "restore"} \/ (pc'["worker"] = "leave" /\ ~took)
    <3>1. CASE Resolve
      BY <1>9, <3>1, GotoType DEF Resolve, Labels, Resolving
    <3>2. CASE RemoveTemp
      <4>1. Goto("worker", IF took THEN "restore" ELSE "leave")
        BY <3>2 DEF RemoveTemp
      <4>2. pc'["worker"] = IF took THEN "restore" ELSE "leave"
        BY <4>1, GotoType DEF Labels, Resolving
      <4>. QED BY <4>2
    <3>. QED BY <1>9, <3>1, <3>2
  <2>3. tree'["home"] = tree["home"] /\ tree'["temp"] \in {tree["temp"], "none", "other"}
    BY <1>9 DEF Resolve, RemoveTemp, Detached, TypeOK, Trees
  <2>. QED BY <2>1, <2>2, <2>3 DEF Settled, Resolving
<1>10. CASE LeaveFallback
  BY <1>10 DEF LeaveFallback, Settled, counts
<1>11. CASE Readd /\ ~GiveUp("worker")
  <2>1. pc'["worker"] = "check"
    BY <1>11, GotoType DEF Readd, Labels, Resolving
  <2>2. row' = row /\ fellBack' = fellBack /\ pc["worker"] = "readd"
    BY <1>11 DEF Readd, counts
  <2>3. tree' = tree \/ (tree'["home"] = "branch" /\ tree'["temp"] = tree["temp"])
    BY <1>11 DEF Readd, Attached, TypeOK, Trees
  <2>. QED BY <2>1, <2>2, <2>3 DEF Settled, Resolving
<1>12. CASE CheckRestored /\ ~GiveUp("worker")
  <2>1. tree["temp"] # "branch"
    BY <1>12 DEF CheckRestored, OneCheckout, Trees
  <2>2. Cleared \in Rows
    BY DEF Cleared, TypeOK, Rows, States
  <2>3. CASE Raise(Cleared)
    BY <1>12, <2>1, <2>2, <2>3, RaiseSettled DEF CheckRestored
  <2>4. CASE ~Raise(Cleared)
    <3>1. pc'["worker"] = "idle" /\ tree' = tree
      BY <1>12, <2>4, GotoType DEF CheckRestored, Finish, Labels
    <3>. QED BY <2>1, <3>1, OutsideSettled DEF Labels, Resolving
  <2>. QED BY <2>3, <2>4
<1>. QED BY <1>1, <1>2, <1>3, <1>4, <1>5, <1>6, <1>7, <1>8, <1>9, <1>10, <1>11, <1>12

LEMMA JournalStep == JournalInv /\ [Next]_vars => JournalInv'
<1> SUFFICES ASSUME JournalInv, [Next]_vars PROVE Settled'
  BY GitStep DEF JournalInv
<1>1. CASE WorkerStep
  BY <1>1, ReconcileSettled, AdvanceSettled, ResolverSettled DEF WorkerStep
<1>2. CASE StarterStep
  BY <1>2, ReconcileSettled DEF StarterStep
<1>3. CASE Kill
  BY <1>3, OutsideSettled DEF Kill, JournalInv, Settled, Labels, Resolving
<1>4. CASE StartUp
  <2>1. pc'["worker"] = pc["worker"]
    BY <1>4, GotoType DEF StartUp, StarterLabels, JournalInv, GitInv
  <2>. QED BY <1>4, <2>1 DEF StartUp, JournalInv, Settled, local
<1>5. CASE RetryRoute \/ DoneRoute
  <2>1. row'.state = row.state
    BY <1>5 DEF RetryRoute, DoneRoute, JournalInv, GitInv, TypeOK, Rows
  <2>. QED BY <1>5, <2>1 DEF RetryRoute, DoneRoute, JournalInv, Settled, local
<1>6. CASE UNCHANGED vars
  BY <1>6 DEF vars, JournalInv, Settled
<1>. QED BY <1>1, <1>2, <1>3, <1>4, <1>5, <1>6 DEF Next

\* While the worker is out of the resolver, a closed journal means that no
\* temporary worktree keeps the branch from the workflow's own one, also with
\* a second process that reconciles beside the worker.
THEOREM ClosedJournalIsDone == Spec => []ClosedJournalFreesBranch
<1>1. Init => JournalInv
  BY InitGitInv, InitSettled DEF JournalInv
<1>2. JournalInv => ClosedJournalFreesBranch
  BY DEF JournalInv, Settled, ClosedJournalFreesBranch
<1>. QED BY <1>1, <1>2, JournalStep, PTL DEF Spec

-----------------------------------------------------------------------------
(* Where agents work, when no process starts beside a worker.               *)

LEMMA InitAgent == Init => Alone /\ Fresh /\ Ready
BY DEF Init, Alone, Fresh, Ready

\* A worker moves while no start-up reconciliation runs, and leaves it so.
LEMMA WorkerHasTurn ==
  ASSUME ~Overlap, TypeOK, Alone, WorkerStep
  PROVE  alive /\ pc["starter"] = "idle"
<1>1. CASE Begin
  BY <1>1 DEF Begin
<1>2. CASE ~Begin
  <2>1. alive /\ pc["worker"] # "idle"
    BY <1>2 DEF WorkerStep, EnsureWorktree, StartAgent, StartRepair, AgentEnds, MergeDone,
       Conflict, RemoveOriginal, OriginalRemoved, FreeBranch, AttachTemp, NoteTemp, Resolve,
       RemoveTemp, LeaveFallback, Restore, Readd, CheckRestored,
       StartReconcile, CleanTemp, AttachHome, VerifyHome
  <2>. QED BY <2>1 DEF Alone
<1>. QED BY <1>1, <1>2

\* An advance() that goes on leaves the workflow working.
LEMMA AloneAfter ==
  ASSUME TypeOK, Alone, alive, pc["starter"] = "idle", alive' = alive, NEW label \in Labels,
         Goto("worker", label), label # "idle" => row'.status = "working"
  PROVE  Alone'
<1>1. pc'["worker"] = label /\ pc'["starter"] = pc["starter"]
  BY GotoType
<1>. QED BY <1>1 DEF Alone


\* Most labels of the worker promise nothing about the worktrees.
LEMMA OtherReady ==
  ASSUME pc'["worker"] \notin Phases \cup {"agent", "note", "resolve"}
  PROVE  Ready'
BY DEF Ready

LEMMA RaiseAgent ==
  ASSUME TypeOK, Alone, alive, pc["starter"] = "idle", NEW r, Raise(r), alive' = alive
  PROVE  Alone' /\ Ready'
<1>1. Goto("worker", "idle") /\ "idle" \in Labels
  BY DEF Raise, Labels
<1>2. pc'["worker"] = "idle"
  BY <1>1, GotoType
<1>. QED BY <1>1, <1>2, AloneAfter, OtherReady

LEMMA GiveUpAgent ==
  ASSUME TypeOK, Alone, alive, pc["starter"] = "idle", GiveUp("worker")
  PROVE  Alone' /\ Ready'
<1>1. Goto("worker", "idle") /\ "idle" \in Labels /\ alive' = alive
  BY DEF GiveUp, Labels
<1>2. pc'["worker"] = "idle"
  BY <1>1, GotoType
<1>. QED BY <1>1, <1>2, AloneAfter, OtherReady

\* The reconciliation of a worker does not end in a phase.
LEMMA ReconcileAgent ==
  ASSUME TypeOK, Alone, alive, pc["starter"] = "idle",
         StartReconcile("worker") \/ CleanTemp("worker") \/ AttachHome("worker") \/ VerifyHome("worker")
  PROVE  Alone' /\ Ready'
<1>1. CASE GiveUp("worker")
  BY <1>1, GiveUpAgent
<1>2. CASE ~GiveUp("worker")
  <2>1. PICK label \in {"ensure"} \cup Reconciling : Goto("worker", label)
    BY <1>2 DEF StartReconcile, Reconcile, Settle, After, CleanTemp, AttachHome, VerifyHome, Reconciling
  <2>2. label \in Labels
    BY <2>1 DEF Labels
  <2>3. row'.status = row.status /\ alive' = alive
    BY <1>2 DEF StartReconcile, Reconcile, Settle, Cleared, CleanTemp, AttachHome, VerifyHome, TypeOK, Rows
  <2>4. row.status = "working"
    BY DEF StartReconcile, CleanTemp, AttachHome, VerifyHome, Alone
  <2>5. pc'["worker"] = label
    BY <2>1, <2>2, GotoType
  <2>. QED BY <2>1, <2>2, <2>3, <2>4, <2>5, AloneAfter, OtherReady DEF Reconciling
<1>. QED BY <1>1, <1>2

\* Nobody but the worker writes the path while it works, and what it writes it
\* reads again.
LEMMA FreshStep ==
  ASSUME ~Overlap, TypeOK, Alone, Fresh, [Next]_vars
  PROVE  Fresh'
<1> DEFINE Early == {"start", "ensure"} \cup Reconciling
<1>1. CASE Begin
  BY <1>1 DEF Begin, Fresh
<1>2. CASE StartReconcile("worker") \/ CleanTemp("worker") \/ AttachHome("worker") \/ VerifyHome("worker")
  <2>1. wf' = row' \/ UNCHANGED <<row, wf>>
    BY <1>2 DEF StartReconcile, Reconcile, CleanTemp, AttachHome, VerifyHome, GiveUp, Settle, Reread, local
  <2>2. pc["worker"] \in Early
    BY <1>2 DEF StartReconcile, CleanTemp, AttachHome, VerifyHome, Reconciling
  <2>. QED BY <2>1, <2>2 DEF Fresh
<1>3. CASE WorkerStep /\ ~Begin /\ ~(StartReconcile("worker") \/ CleanTemp("worker") \/ AttachHome("worker") \/ VerifyHome("worker"))
  <2>1. PICK label \in Labels \ Early : Goto("worker", label)
    BY <1>3 DEF WorkerStep, EnsureWorktree, StartAgent, StartRepair, AgentEnds, MergeDone,
       Conflict, RemoveOriginal, OriginalRemoved, FreeBranch, AttachTemp, NoteTemp, Resolve,
       RemoveTemp, LeaveFallback, Restore, Readd, CheckRestored, Finish, RaiseHere, Raise, GiveUp,
       Labels, Reconciling, Resolving, TypeOK
  <2>2. pc'["worker"] = label
    BY <2>1, GotoType
  <2>. QED BY <2>1, <2>2 DEF Fresh
<1>4. CASE StarterStep
  <2>1. pc["worker"] = "idle"
    BY <1>4 DEF StarterStep, StartReconcile, CleanTemp, AttachHome, VerifyHome, Alone
  <2>2. PICK label \in StarterLabels : Goto("starter", label)
    BY <1>4 DEF StarterStep, StartReconcile, Reconcile, CleanTemp, AttachHome, VerifyHome, GiveUp, Settle,
       After, StarterLabels, Reconciling
  <2>3. pc'["worker"] = "idle"
    BY <2>1, <2>2, GotoType
  <2>. QED BY <2>3 DEF Fresh, Reconciling
<1>5. CASE StartUp \/ Kill
  <2>1. pc'["worker"] = "idle"
    <3>1. CASE StartUp
      BY <3>1, GotoType DEF StartUp, StarterLabels, Alone
    <3>. QED BY <1>5, <3>1 DEF Kill
  <2>. QED BY <2>1 DEF Fresh, Reconciling
<1>6. CASE RetryRoute
  <2>1. pc["worker"] = "idle" /\ pc' = pc
    BY <1>6 DEF RetryRoute, Alone
  <2>. QED BY <2>1 DEF Fresh, Reconciling
<1>7. CASE DoneRoute
  <2>1. row'.path = row.path /\ UNCHANGED <<pc, wf>>
    BY <1>7 DEF DoneRoute, local, TypeOK, Rows
  <2>. QED BY <2>1 DEF Fresh
<1>8. CASE UNCHANGED vars
  BY <1>8 DEF vars, Fresh
<1>. QED BY <1>1, <1>2, <1>3, <1>4, <1>5, <1>6, <1>7, <1>8 DEF Next

\* ensure_worktree leaves the branch at home, and its directory on disk.
LEMMA EnsuredPresent ==
  ASSUME TypeOK, MissingRegistered, Ensured
  PROVE  Present("home")'
<1>1. CASE tree["home"] = "branch" /\ "home" \notin gone /\ UNCHANGED <<tree, gone>>
  BY <1>1 DEF Present
<1>2. CASE tree' = Attached("home") /\ UNCHANGED gone
           /\ (tree["home"] = "none" \/ "home" \notin gone)
  <2>1. "home" \notin gone
    BY <1>2 DEF MissingRegistered
  <2>2. tree'["home"] = "branch"
    BY <1>2 DEF Attached, TypeOK, Trees
  <2>. QED BY <1>2, <2>1, <2>2 DEF Present
<1>. QED BY <1>1, <1>2 DEF Ensured

LEMMA AdvanceAgent ==
  ASSUME TypeOK, MissingRegistered, Alone, Fresh, Ready, alive, pc["starter"] = "idle",
         Begin \/ EnsureWorktree \/ StartAgent \/ StartRepair \/ AgentEnds \/ MergeDone
  PROVE  Alone' /\ Ready'
<1>1. CASE RaiseHere
  BY <1>1, RaiseAgent DEF RaiseHere
<1>2. CASE Begin
  <2>1. Goto("worker", "start") /\ "start" \in Labels /\ row'.status = "working" /\ alive' = alive
    BY <1>2 DEF Begin, Labels
  <2>2. pc'["worker"] = "start"
    BY <2>1, GotoType
  <2>. QED BY <2>1, <2>2, AloneAfter, OtherReady
<1>3. CASE EnsureWorktree /\ ~RaiseHere
  <2>1. Goto("worker", phase) /\ phase \in Labels /\ alive' = alive
    BY <1>3 DEF EnsureWorktree, Labels, TypeOK
  <2>2. row'.status = row.status /\ row.status = "working"
    BY <1>3 DEF EnsureWorktree, TypeOK, Rows, Alone
  <2>3. pc'["worker"] = phase
    BY <2>1, GotoType
  <2>4. CASE Dedicated /\ Consumes
    <3>1. row'.path /\ Ensured /\ phase' = phase
      BY <1>3, <2>4 DEF EnsureWorktree, TypeOK, Rows, local
    <3>2. Present("home")'
      BY <3>1, EnsuredPresent
    <3>3. Ready'
      BY <2>3, <3>1, <3>2 DEF Ready, TypeOK
    <3>. QED BY <2>1, <2>2, <3>3, AloneAfter
  <2>5. CASE ~(Dedicated /\ Consumes)
    <3>1. row' = row /\ UNCHANGED <<phase, wf>> /\ pc["worker"] = "ensure"
      BY <1>3, <2>5 DEF EnsureWorktree, local
    <3>2. wf.path = row.path
      BY <3>1 DEF Fresh
    <3>3. Dedicated => ~row.path /\ wf.phase # "development"
      BY <2>5, <3>2 DEF Consumes
    <3>4. ~(phase # "planning" /\ ~Overtaken /\ pc'["worker"] = "development") \/ ~Dedicated
      BY <2>3, <3>3 DEF Overtaken
    <3>5. Ready'
      BY <2>3, <3>1, <3>3, <3>4 DEF Ready, Overtaken, TypeOK
    <3>. QED BY <2>1, <2>2, <3>5, AloneAfter
  <2>. QED BY <2>4, <2>5
<1>4. CASE StartAgent
  <2>1. Goto("worker", "agent") /\ "agent" \in Labels /\ UNCHANGED <<row, tree, gone, alive, phase, wf>>
    BY <1>4 DEF StartAgent, Labels, local
  <2>2. row.status = "working"
    BY <1>4 DEF StartAgent, Alone
  <2>3. pc'["worker"] = "agent"
    BY <2>1, GotoType
  <2>4. Ready'
    BY <1>4, <2>1, <2>3 DEF StartAgent, Ready, Present, Overtaken
  <2>. QED BY <2>1, <2>2, <2>4, AloneAfter
<1>5. CASE StartRepair /\ ~RaiseHere
  <2>1. Goto("worker", "agent") /\ "agent" \in Labels /\ alive' = alive
    BY <1>5 DEF StartRepair, Labels
  <2>2. row'.status = row.status /\ row.status = "working"
    BY <1>5 DEF StartRepair, TypeOK, Rows, Alone
  <2>3. pc'["worker"] = "agent"
    BY <2>1, GotoType
  <2>4. CASE Dedicated /\ ~row.path
    <3>1. row'.path /\ Ensured
      BY <1>5, <2>4 DEF StartRepair, TypeOK, Rows
    <3>2. Present("home")'
      BY <3>1, EnsuredPresent
    <3>3. Ready'
      BY <2>3, <3>1, <3>2 DEF Ready
    <3>. QED BY <2>1, <2>2, <3>3, AloneAfter
  <2>5. CASE ~Dedicated \/ row.path
    <3>1. UNCHANGED <<row, tree, gone>> /\ pc["worker"] = "merge"
      BY <1>5, <2>5 DEF StartRepair
    <3>2. Ready'
      BY <2>3, <2>5, <3>1 DEF Ready, Present
    <3>. QED BY <2>1, <2>2, <3>2, AloneAfter
  <2>. QED BY <2>4, <2>5
<1>6. CASE (AgentEnds \/ MergeDone) /\ ~RaiseHere
  <2>1. Goto("worker", "idle") /\ "idle" \in Labels /\ alive' = alive
    BY <1>6 DEF AgentEnds, MergeDone, Labels
  <2>2. pc'["worker"] = "idle"
    BY <2>1, GotoType
  <2>. QED BY <2>1, <2>2, AloneAfter, OtherReady
<1>. QED BY <1>1, <1>2, <1>3, <1>4, <1>5, <1>6

\* The resolver: an agent gets the temporary worktree once it is attached.
LEMMA ResolverAgent ==
  ASSUME TypeOK, MissingRegistered, Alone, Ready, alive, pc["starter"] = "idle",
         Conflict \/ RemoveOriginal \/ OriginalRemoved \/ FreeBranch \/ AttachTemp
         \/ NoteTemp \/ Resolve \/ RemoveTemp \/ LeaveFallback \/ Restore \/ Readd \/ CheckRestored
  PROVE  Alone' /\ Ready'
<1>1. CASE RaiseHere
  BY <1>1, RaiseAgent DEF RaiseHere
<1>2. CASE GiveUp("worker")
  BY <1>2, GiveUpAgent
<1>3. row.status = "working"
  BY DEF Conflict, RemoveOriginal, OriginalRemoved, FreeBranch, AttachTemp, NoteTemp, Resolve,
     RemoveTemp, LeaveFallback, Restore, Readd, CheckRestored, Alone
<1>4. CASE LeaveFallback \/ (CheckRestored /\ ~GiveUp("worker"))
  <2>1. PICK r : Finish(r)
    BY <1>4 DEF LeaveFallback, CheckRestored
  <2>2. alive' = alive
    BY <1>4 DEF LeaveFallback, CheckRestored
  <2>3. Goto("worker", "idle") /\ "idle" \in Labels
    BY <2>1 DEF Finish, Raise, Labels
  <2>4. pc'["worker"] = "idle"
    BY <2>3, GotoType
  <2>. QED BY <2>2, <2>3, <2>4, AloneAfter, OtherReady
<1>5. CASE AttachTemp /\ ~RaiseHere
  <2>1. CASE Attachable("temp") /\ tree' = Attached("temp") /\ Goto("worker", "note")
             /\ UNCHANGED <<row, gone, alive>>
    <3>1. "temp" \notin gone
      BY <2>1 DEF Attachable, MissingRegistered
    <3>2. tree'["temp"] = "branch"
      BY <2>1 DEF Attached, TypeOK, Trees
    <3>3. "note" \in Labels
      BY DEF Labels, Resolving
    <3>4. pc'["worker"] = "note"
      BY <2>1, <3>3, GotoType
    <3>5. Ready'
      BY <2>1, <3>1, <3>2, <3>4 DEF Ready, Present
    <3>. QED BY <1>3, <2>1, <3>3, <3>5, AloneAfter
  <2>2. CASE Goto("worker", "restore") /\ UNCHANGED <<row, tree, gone, alive>>
    <3>1. "restore" \in Labels
      BY DEF Labels, Resolving
    <3>2. pc'["worker"] = "restore"
      BY <2>2, <3>1, GotoType
    <3>. QED BY <1>3, <2>2, <3>1, <3>2, AloneAfter, OtherReady
  <2>. QED BY <1>5, <2>1, <2>2 DEF AttachTemp
<1>6. CASE NoteTemp
  <2>1. Goto("worker", "resolve") /\ UNCHANGED <<tree, gone, alive>> /\ pc["worker"] = "note"
    BY <1>6 DEF NoteTemp
  <2>2. "resolve" \in Labels
    BY DEF Labels, Resolving
  <2>3. row'.status = row.status
    BY <1>6 DEF NoteTemp, Journal, TypeOK, Rows
  <2>4. pc'["worker"] = "resolve"
    BY <2>1, <2>2, GotoType
  <2>5. Ready'
    BY <2>1, <2>4 DEF Ready, Present
  <2>. QED BY <1>3, <2>1, <2>2, <2>3, <2>5, AloneAfter
<1>7. CASE (Conflict \/ RemoveOriginal \/ OriginalRemoved \/ FreeBranch \/ Resolve \/ RemoveTemp
            \/ Restore \/ Readd) /\ ~RaiseHere /\ ~GiveUp("worker")
  <2>1. PICK label \in Resolving \ {"note", "resolve"} : Goto("worker", label)
    BY <1>7 DEF Conflict, RemoveOriginal, OriginalRemoved, FreeBranch, Resolve, RemoveTemp,
       Restore, Readd, Resolving
  <2>2. label \in Labels
    BY <2>1 DEF Labels
  <2>3. alive' = alive
    BY <1>7 DEF Conflict, RemoveOriginal, OriginalRemoved, FreeBranch, Resolve, RemoveTemp, Restore, Readd
  <2>4. row'.status = row.status
    <3>1. CASE Conflict
      <4>1. \/ row' = row
            \/ row' = [row EXCEPT !.state = "removing_original", !.orig = TRUE, !.temp = TRUE]
        BY <3>1 DEF Conflict
      <4>. QED BY <4>1 DEF TypeOK, Rows
    <3>2. CASE OriginalRemoved \/ Restore
      BY <3>2 DEF OriginalRemoved, Restore, Journal, TypeOK, Rows
    <3>. QED BY <1>7, <3>1, <3>2 DEF RemoveOriginal, FreeBranch, Resolve, RemoveTemp, Readd
  <2>5. pc'["worker"] = label
    BY <2>1, <2>2, GotoType
  <2>. QED BY <1>3, <2>1, <2>2, <2>3, <2>4, <2>5, AloneAfter, OtherReady DEF Resolving
<1>. QED BY <1>1, <1>2, <1>4, <1>5, <1>6, <1>7

\* The start-up reconciliation finds no worker.
LEMMA StarterAgent == ASSUME TypeOK, Alone, StarterStep PROVE Alone' /\ Ready'
<1>1. pc["starter"] # "idle" /\ alive /\ pc["worker"] = "idle"
  BY DEF StarterStep, StartReconcile, CleanTemp, AttachHome, VerifyHome, Alone
<1>2. PICK label \in StarterLabels : Goto("starter", label)
  BY DEF StarterStep, StartReconcile, Reconcile, CleanTemp, AttachHome, VerifyHome, GiveUp, Settle,
     After, StarterLabels, Reconciling
<1>3. pc'["worker"] = "idle"
  BY <1>1, <1>2, GotoType
<1>. QED BY <1>3, OtherReady DEF Alone

LEMMA OutsideAgent ==
  ASSUME ~Overlap, TypeOK, Alone, Ready, StartUp \/ Kill \/ RetryRoute \/ DoneRoute
  PROVE  Alone' /\ Ready'
<1>1. CASE StartUp
  <2>1. pc["worker"] = "idle"
    BY <1>1 DEF StartUp, Alone
  <2>2. pc'["worker"] = "idle"
    BY <1>1, <2>1, GotoType DEF StartUp, StarterLabels
  <2>. QED BY <2>2, OtherReady DEF Alone
<1>2. CASE Kill
  <2>1. pc'["worker"] = "idle"
    BY <1>2 DEF Kill
  <2>. QED BY <2>1, OtherReady DEF Alone
<1>3. CASE RetryRoute
  <2>1. pc["worker"] = "idle" /\ pc' = pc
    BY <1>3 DEF RetryRoute, Alone
  <2>. QED BY <2>1, OtherReady DEF Alone
<1>4. CASE DoneRoute
  <2>1. row'.status = "working" /\ row'.path = row.path
    BY <1>4 DEF DoneRoute, TypeOK, Rows
  <2>2. UNCHANGED <<tree, gone, alive, pc, phase, wf>>
    BY <1>4 DEF DoneRoute, local
  <2>. QED BY <2>1, <2>2 DEF Alone, Ready, Present, Overtaken
<1>. QED BY <1>1, <1>2, <1>3, <1>4

LEMMA AgentStep == ~Overlap /\ AgentInv /\ [Next]_vars => AgentInv'
<1> SUFFICES ASSUME ~Overlap, AgentInv, [Next]_vars PROVE Alone' /\ Ready'
  BY GitStep, FreshStep DEF AgentInv, GitInv
<1>1. CASE WorkerStep
  <2>1. alive /\ pc["starter"] = "idle"
    BY <1>1, WorkerHasTurn DEF AgentInv, GitInv
  <2>. QED BY <1>1, <2>1, ReconcileAgent, AdvanceAgent, ResolverAgent DEF WorkerStep, AgentInv, GitInv
<1>2. CASE StarterStep
  BY <1>2, StarterAgent DEF AgentInv, GitInv
<1>3. CASE StartUp \/ Kill \/ RetryRoute \/ DoneRoute
  BY <1>3, OutsideAgent DEF AgentInv, GitInv
<1>4. CASE UNCHANGED vars
  BY <1>4 DEF vars, AgentInv, Alone, Ready, Present, Overtaken
<1>. QED BY <1>1, <1>2, <1>3, <1>4 DEF Next

\* When no process starts while another one works (the scheduler's process is
\* restarted after it died), an agent that develops, repairs or resolves conflicts
\* for a workflow with a worktree of its own does not work in the primary
\* checkout, and the worktree it works in is registered and on disk, however
\* often the process was killed before: unless a done request came between the
\* two readings of the row.
THEOREM CodingAgentsWorkAtHome == ~Overlap => (Spec => []CodingKeepsOffPrimary)
<1> SUFFICES ASSUME ~Overlap PROVE Spec => []CodingKeepsOffPrimary
  OBVIOUS
<1>1. Init => AgentInv
  BY InitGitInv, InitAgent DEF AgentInv
<1>2. AgentInv /\ [Next]_vars => AgentInv'
  BY AgentStep
<1>3. AgentInv => CodingKeepsOffPrimary
  BY DEF AgentInv, Ready, CodingKeepsOffPrimary, AgentAt, Where, Trees
<1>. QED BY <1>1, <1>2, <1>3, PTL DEF Spec
====
