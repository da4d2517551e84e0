------------------------- MODULE WorktreeTransition -------------------------
(***************************************************************************)
(* The worktree of one autonomous workflow while merge conflicts are       *)
(* resolved: git_workspace.py, with the parts of the orchestrator that     *)
(* enter it.                                                               *)
(*                                                                         *)
(* Git checks a branch out in one worktree at a time, so the resolver      *)
(* removes the workflow's own worktree, attaches the branch to a temporary *)
(* one, lets an agent merge there, and puts the original back.  A journal  *)
(* in the row says how far it got.  A process that dies at any of these    *)
(* steps leaves the journal, the worktree_path column, Git's registry and  *)
(* the disk in disagreement; reconcile_worktree_transition repairs them    *)
(* from what it observes, at start-up and at the top of every advance(),   *)
(* or fails the workflow closed.                                           *)
(***************************************************************************)
EXTENDS Integers

CONSTANTS
  Dedicated,   \* branch_strategy "worktree", with its preferred_worktree_path
  Overlap,     \* a second process may start while the first one works
  MayFail,     \* a Git command may fail for reasons outside the model
  MaxCrashes,  \* bound: how often the process is killed
  MaxRequests  \* bound: retry and done requests

ASSUME ParametersAssumption ==
  /\ {Dedicated, Overlap, MayFail} \subseteq BOOLEAN
  /\ MaxCrashes \in Nat /\ MaxRequests \in Nat

VARIABLES
  row,       \* the workflow's row
  tree,      \* what Git's registry says is checked out where
  gone,      \* registered worktrees whose directory is missing
  alive,     \* the process that runs the scheduler lives
  pc,        \* where advance() and the start-up reconciliation are
  phase,     \* the phase that advance() runs: current_phase as it began
  wf,        \* the row as advance() last read it, until the phase runs
  took,      \* original_removed of the running resolver
  good,      \* the latest resolution was pushed
  crashes,   \* kills so far
  requests,  \* retry and done requests so far
  fellBack   \* ghost: a resolver worked without a worktree to come from

vars == <<row, tree, gone, alive, pc, phase, wf, took, good, crashes, requests,
          fellBack>>
counts == <<crashes, requests, fellBack>>
resolver == <<phase, took, good>>
local == <<resolver, wf>>

Trees == {"main", "home", "temp"}
InFlight == {"removing_original", "original_removed", "temp_attached", "restoring"}
States == InFlight \cup {"none", "recovery_failed"}

\* path: worktree_path is set; orig, temp: so are the paths in the journal.
\* pr_review is part of development here, and the phases without an agent or a
\* worktree (report, wait, acceptance) are passed by.
Phases == {"planning", "development", "merge"}

Rows == [status : {"working", "failed"}, phase : Phases,
         path : BOOLEAN, state : States, orig : BOOLEAN, temp : BOOLEAN]

Reconciling == {"temp", "home", "verify"}
Resolving == {"remove", "removed", "free", "attach", "note", "resolve",
              "untemp", "leave", "restore", "readd", "check"}

Init ==
  /\ row = [status |-> "working", phase |-> "planning", path |-> Dedicated,
            state |-> "none", orig |-> FALSE, temp |-> FALSE]
  /\ tree = [t \in Trees |->
               CASE t = "home" -> IF Dedicated THEN "branch" ELSE "none"
                 [] t = "main" -> IF Dedicated THEN "other" ELSE "branch"
                 [] t = "temp" -> "none"]
  /\ gone = {} /\ alive = TRUE /\ took = FALSE /\ good = FALSE
  /\ phase = row.phase /\ wf = row
  /\ pc = [worker |-> "idle", starter |-> "idle"]
  /\ crashes = 0 /\ requests = 0 /\ fellBack = FALSE

-----------------------------------------------------------------------------
(* Git.                                                                     *)

\* "git worktree add" refuses a registered path, and a branch that another
\* worktree has checked out, present on disk or not.
Attachable(t) == tree[t] = "none" /\ \A u \in Trees : tree[u] # "branch"

Attached(t) == [tree EXCEPT ![t] = "branch"]
Detached(t) == [tree EXCEPT ![t] = "none"]
Present(t) == tree[t] # "none" /\ t \notin gone

-----------------------------------------------------------------------------
(* The journal.                                                             *)

Goto(a, label) == pc' = [pc EXCEPT ![a] = label]

Journal(state) == row' = [row EXCEPT !.state = state]

\* clear_transition_journal(worktree_path=...)
Cleared == [row EXCEPT !.state = "none", !.orig = FALSE, !.temp = FALSE, !.path = TRUE]

\* Mutant: the journal gets the workflow's status.
FailedClosedMixed == [row EXCEPT !.state = "failed", !.status = "failed"]

\* _fail_transition_closed
FailedClosed == [row EXCEPT !.state = "recovery_failed", !.status = "failed"]

\* An exception ends advance().  A transient one leaves the row to the next
\* poll; any other fails the workflow, and its worktree goes unless it holds
\* uncommitted changes.
Raise(r) ==
  /\ Goto("worker", "idle")
  /\ \/ row' = r /\ UNCHANGED <<tree, gone>>
     \/ /\ row' = [r EXCEPT !.status = "failed"]
        /\ \/ UNCHANGED <<tree, gone>>
           \/ /\ r.path /\ Dedicated
              /\ tree' = Detached("home") /\ gone' = gone \ {"home"}

-----------------------------------------------------------------------------
(* reconcile_worktree_transition, by advance() or at start-up.              *)

After(a) == IF a = "worker" THEN "ensure" ELSE "idle"

\* advance() goes by its copy of the row, and reads the row again when the
\* reconciliation returns.
Read(a) == IF a = "worker" THEN wf ELSE row
Reread(a) == wf' = IF a = "worker" THEN row' ELSE wf

\* Mutant: recovery gives up without failing the workflow.
GiveUpOpen(a) ==
  /\ row' = [row EXCEPT !.state = "none"]
  /\ Goto(a, After(a)) /\ Reread(a)
  /\ UNCHANGED <<tree, gone, alive, resolver, counts>>

GiveUp(a) ==
  /\ row' = FailedClosed
  /\ Goto(a, "idle") /\ Reread(a)
  /\ UNCHANGED <<tree, gone, alive, resolver, counts>>

Settle(a) ==
  /\ row' = Cleared
  /\ Goto(a, After(a)) /\ Reread(a)
  /\ UNCHANGED <<tree, gone, alive, resolver, counts>>

\* The home of the workflow: the journal's, the preferred or the current one.
HomeKnown(r) == r.orig \/ Dedicated \/ r.path

\* The journal says that the original worktree is, or is going to be, there.
StillThere(r) ==
  \/ r.state = "removing_original" /\ tree["home"] # "none"
  \/ r.state = "restoring" /\ tree["home"] = "branch"

Reconcile(a) ==
  LET known == HomeKnown(Read(a))
      there == StillThere(Read(a))
  IN \/ (~known \/ MayFail \/ (there /\ tree["home"] # "branch")) /\ GiveUp(a)
     \/ known /\ there /\ tree["home"] = "branch" /\ Settle(a)
     \/ /\ known /\ ~there
        /\ Goto(a, "temp")
        /\ UNCHANGED <<row, tree, gone, alive, local, counts>>

\* Mutant: the phase runs first, as before the journal.
SkipReconcile(a) ==
  /\ alive /\ pc[a] = "start"
  /\ Goto(a, After(a))
  /\ UNCHANGED <<row, tree, gone, alive, local, counts>>

\* A journal that is closed, or has failed, is left alone.
StartReconcile(a) ==
  /\ alive /\ pc[a] = "start"
  /\ \/ Read(a).state \in InFlight /\ Reconcile(a)
     \/ /\ Read(a).state \notin InFlight
        /\ Goto(a, After(a))
        /\ UNCHANGED <<row, tree, gone, alive, resolver, counts>>
        /\ IF Read(a).state = "none" THEN UNCHANGED wf ELSE Reread(a)

\* _reconcile_cleanup_temp_and_restore: the temporary worktree goes first ...
CleanTemp(a) ==
  /\ alive /\ pc[a] = "temp"
  /\ LET found == Read(a).temp /\ tree["temp"] # "none"
     IN \/ found /\ (tree["temp"] = "other" \/ MayFail) /\ GiveUp(a)
        \/ /\ found => tree["temp"] = "branch"
           /\ tree' = IF found THEN Detached("temp") ELSE tree
           /\ gone' = IF found THEN gone \ {"temp"} ELSE gone
           /\ Goto(a, "home")
           /\ UNCHANGED <<row, alive, local, counts>>

\* ... then the original is attached, unless it is registered ...
AttachHome(a) ==
  /\ alive /\ pc[a] = "home"
  /\ \/ /\ tree["home"] # "branch"
        /\ tree["home"] = "other" \/ ~Attachable("home") \/ MayFail
        /\ GiveUp(a)
     \/ /\ tree["home"] = "branch" \/ Attachable("home")
        /\ tree' = Attached("home")
        /\ Goto(a, "verify")
        /\ UNCHANGED <<row, gone, alive, local, counts>>

\* ... and verified by Git's list of worktrees.
VerifyHome(a) ==
  /\ alive /\ pc[a] = "verify"
  /\ \/ (tree["home"] # "branch" \/ MayFail) /\ GiveUp(a)
     \/ tree["home"] = "branch" /\ Settle(a)

-----------------------------------------------------------------------------
(* advance(): reconcile, make sure of the worktree, run the phase.          *)

Begin ==
  /\ alive /\ pc["worker"] = "idle" /\ row.status = "working"
  /\ Overlap \/ pc["starter"] = "idle"
  /\ phase' = row.phase /\ wf' = row
  /\ Goto("worker", "start")
  /\ UNCHANGED <<row, tree, gone, alive, took, good, counts>>

RaiseHere ==
  /\ Raise(row)
  /\ UNCHANGED <<alive, local, counts>>

\* Mutant: only the current path counts, as before preferred paths.
ConsumesCurrent == wf.path

\* Whether ensure_worktree wants a worktree: it has a path, or a phase of
\* _WORKSPACE_CONSUMING_PHASES gives it back its preferred one.  Planning is
\* none, and the phase is that of the row as it was last read.
Consumes == wf.path \/ wf.phase = "development"

\* A worktree on the wrong branch is recreated, a missing one is added.
Ensured ==
  \/ tree["home"] = "branch" /\ "home" \notin gone /\ UNCHANGED <<tree, gone>>
  \/ /\ \/ tree["home"] = "none"
        \/ tree["home"] = "other" /\ "home" \notin gone
     /\ tree["main"] # "branch" /\ tree["temp"] # "branch"
     /\ tree' = Attached("home") /\ UNCHANGED gone

EnsureWorktree ==
  /\ alive /\ pc["worker"] = "ensure"
  /\ \/ RaiseHere
     \/ /\ Dedicated /\ Consumes
        /\ wf.path \/ wf.state \notin InFlight
        /\ Ensured
        /\ row' = [row EXCEPT !.path = TRUE]
        /\ Goto("worker", phase)
        /\ UNCHANGED <<alive, local, counts>>
     \/ /\ ~(Dedicated /\ Consumes)
        /\ wf.state \notin InFlight
        /\ Goto("worker", phase)
        /\ UNCHANGED <<row, tree, gone, alive, local, counts>>

\* _resolve_effective_repo_context: where the agent of a phase works.
Where == IF Dedicated /\ row.path THEN "home" ELSE "main"

StartAgent ==
  /\ alive /\ pc["worker"] \in {"planning", "development"}
  /\ Goto("worker", "agent")
  /\ UNCHANGED <<row, tree, gone, alive, local, counts>>

\* CI failed: the merge phase restores the worktree and lets an agent repair.
StartRepair ==
  /\ alive /\ pc["worker"] = "merge"
  /\ \/ RaiseHere
     \/ /\ Dedicated /\ ~row.path
        /\ Ensured
        /\ row' = [row EXCEPT !.path = TRUE]
        /\ Goto("worker", "agent")
        /\ UNCHANGED <<alive, local, counts>>
     \/ /\ ~Dedicated \/ row.path
        /\ Goto("worker", "agent")
        /\ UNCHANGED <<row, tree, gone, alive, local, counts>>

NextPhase == IF phase = "planning" THEN "development" ELSE "merge"

\* The agent is done, or has left the branch, which fails its run.  A plan that
\* is not approved is made again.
AgentEnds ==
  /\ alive /\ pc["worker"] = "agent"
  /\ \/ RaiseHere
     \/ /\ \/ row' = [row EXCEPT !.phase = NextPhase]
           \/ phase = "planning" /\ UNCHANGED row
        /\ Goto("worker", "idle")
        /\ UNCHANGED <<tree, gone, alive, local, counts>>
     \/ /\ tree' = [tree EXCEPT ![Where] = IF @ = "none" THEN @ ELSE "other"]
        /\ row' = [row EXCEPT !.status = "failed"]
        /\ Goto("worker", "idle")
        /\ UNCHANGED <<gone, alive, local, counts>>

\* The pull request is merged and its worktree cleaned up; the verifier sends
\* the workflow back to development, or a comment to planning.
MergeDone ==
  /\ alive /\ pc["worker"] = "merge"
  /\ \/ /\ \E next \in {"planning", "development"} :
             row' = [row EXCEPT !.path = FALSE, !.phase = next]
        /\ tree' = IF row.path THEN Detached("home") ELSE tree
        /\ gone' = IF row.path THEN gone \ {"home"} ELSE gone
     \/ /\ MayFail /\ row' = [row EXCEPT !.phase = "development"]
        /\ UNCHANGED <<tree, gone>>
  /\ Goto("worker", "idle")
  /\ UNCHANGED <<alive, local, counts>>

-----------------------------------------------------------------------------
(* resolve_merge_conflicts.                                                 *)

\* The pull request conflicts: the intent is journaled before Git is touched.
Conflict ==
  /\ alive /\ pc["worker"] = "merge"
  /\ IF row.path
       THEN /\ row' = [row EXCEPT !.state = "removing_original",
                                  !.orig = TRUE, !.temp = TRUE]
            /\ Goto("worker", "remove")
       ELSE Goto("worker", "free") /\ UNCHANGED row
  /\ took' = FALSE /\ good' = FALSE
  /\ fellBack' = (fellBack \/ ~row.path)
  /\ UNCHANGED <<tree, gone, alive, phase, wf, crashes, requests>>

RemoveOriginal ==
  /\ alive /\ pc["worker"] = "remove"
  /\ \/ MayFail /\ RaiseHere
     \/ /\ tree' = Detached("home") /\ gone' = gone \ {"home"}
        /\ Goto("worker", "removed")
        /\ UNCHANGED <<row, alive, local, counts>>

OriginalRemoved ==
  /\ alive /\ pc["worker"] = "removed"
  /\ row' = [row EXCEPT !.state = "original_removed", !.path = FALSE]
  /\ took' = TRUE
  /\ Goto("worker", "attach")
  /\ UNCHANGED <<tree, gone, alive, phase, wf, good, counts>>

\* Primary fallback: the branch is released there, unless the tree is dirty.
FreeBranch ==
  /\ alive /\ pc["worker"] = "free"
  /\ \/ RaiseHere
     \/ /\ tree' = [tree EXCEPT !["main"] = "other"]
        /\ Goto("worker", "attach")
        /\ UNCHANGED <<row, gone, alive, local, counts>>

AttachTemp ==
  /\ alive /\ pc["worker"] = "attach"
  /\ \/ /\ Attachable("temp")
        /\ tree' = Attached("temp")
        /\ Goto("worker", "note")
        /\ UNCHANGED <<row, gone, alive, local, counts>>
     \/ /\ ~Attachable("temp") \/ MayFail
        /\ IF took
             THEN /\ Goto("worker", "restore")
                  /\ UNCHANGED <<row, tree, gone, alive, local, counts>>
             ELSE RaiseHere

NoteTemp ==
  /\ alive /\ pc["worker"] = "note"
  /\ Journal("temp_attached")
  /\ Goto("worker", "resolve")
  /\ UNCHANGED <<tree, gone, alive, local, counts>>

\* Merge, agent, checks and push: done, or failed, the agent having possibly
\* left the branch.
Resolve ==
  /\ alive /\ pc["worker"] = "resolve"
  /\ \/ good' = TRUE /\ UNCHANGED tree
     \/ good' = FALSE /\ tree' \in {tree, [tree EXCEPT !["temp"] = "other"]}
  /\ Goto("worker", "untemp")
  /\ UNCHANGED <<row, gone, alive, phase, wf, took, counts>>

\* Mutant: the journal is cleared ahead of the clean-up.
ClearThenRemoveTemp ==
  /\ alive /\ pc["worker"] = "untemp"
  /\ row' = Cleared
  /\ \/ tree' = Detached("temp") /\ gone' = gone \ {"temp"}
     \/ MayFail /\ UNCHANGED <<tree, gone>>
  /\ Goto("worker", IF took THEN "restore" ELSE "leave")
  /\ UNCHANGED <<alive, local, counts>>

\* finally: a temporary worktree that cannot be removed is only logged.
RemoveTemp ==
  /\ alive /\ pc["worker"] = "untemp"
  /\ \/ tree' = Detached("temp") /\ gone' = gone \ {"temp"}
     \/ MayFail /\ UNCHANGED <<tree, gone>>
  /\ Goto("worker", IF took THEN "restore" ELSE "leave")
  /\ UNCHANGED <<row, alive, local, counts>>

\* The end of the resolver: the phase is retried, or the exception that led
\* to the finally block goes on.
Finish(r) ==
  \/ good /\ row' = r /\ Goto("worker", "idle") /\ UNCHANGED <<tree, gone>>
  \/ ~good /\ Raise(r)

\* Primary fallback: nothing to restore, and the journal stays as it is.
LeaveFallback ==
  /\ alive /\ pc["worker"] = "leave"
  /\ Finish(row)
  /\ UNCHANGED <<alive, local, counts>>

Restore ==
  /\ alive /\ pc["worker"] = "restore"
  /\ Journal("restoring")
  /\ Goto("worker", "readd")
  /\ UNCHANGED <<tree, gone, alive, local, counts>>

Readd ==
  /\ alive /\ pc["worker"] = "readd"
  /\ \/ (MayFail \/ (~Present("home") /\ ~Attachable("home"))) /\ GiveUp("worker")
     \/ /\ Present("home") \/ Attachable("home")
        /\ tree' = IF Present("home") THEN tree ELSE Attached("home")
        /\ Goto("worker", "check")
        /\ UNCHANGED <<row, gone, alive, local, counts>>

CheckRestored ==
  /\ alive /\ pc["worker"] = "check"
  /\ \/ (MayFail \/ tree["home"] # "branch") /\ GiveUp("worker")
     \/ /\ tree["home"] = "branch"
        /\ Finish(Cleared)
        /\ UNCHANGED <<alive, local, counts>>

-----------------------------------------------------------------------------
(* Processes and operators.                                                 *)

\* SIGKILL.  One that hits "git worktree remove" may leave a registered
\* worktree without its directory.
Interrupted ==
  {t \in {"home", "temp"} :
     /\ tree[t] # "none"
     /\ \/ t = "home" /\ pc["worker"] = "remove"
        \/ t = "temp" /\ (pc["worker"] \in {"untemp", "temp"} \/ pc["starter"] = "temp")}

Kill ==
  /\ alive /\ crashes < MaxCrashes
  /\ alive' = FALSE /\ crashes' = crashes + 1
  /\ pc' = [worker |-> "idle", starter |-> "idle"]
  /\ gone' \in {gone, gone \cup Interrupted}
  /\ took' = FALSE /\ good' = FALSE
  /\ UNCHANGED <<row, tree, phase, wf, requests, fellBack>>

\* init_autonomous_scheduler walks the pending transitions, before it starts
\* the scheduler and without asking for the workflow's lease.
StartUp ==
  /\ pc["starter"] = "idle"
  /\ IF Overlap THEN crashes < MaxCrashes /\ crashes' = crashes + 1
     ELSE ~alive /\ UNCHANGED crashes
  /\ alive' = TRUE
  /\ Goto("starter", "start")
  /\ UNCHANGED <<row, tree, gone, local, requests, fellBack>>

\* The retry route rebinds a failed workflow to its preferred worktree.
RetryRoute ==
  /\ row.status = "failed" /\ requests < MaxRequests
  /\ requests' = requests + 1
  /\ row' = [row EXCEPT !.status = "working", !.path = row.path \/ Dedicated]
  /\ UNCHANGED <<tree, gone, alive, pc, local, crashes, fellBack>>

\* The done route asks for the merge, whatever the status.
DoneRoute ==
  /\ requests < MaxRequests
  /\ requests' = requests + 1
  /\ row' = [row EXCEPT !.status = "working", !.phase = "merge"]
  /\ UNCHANGED <<tree, gone, alive, pc, local, crashes, fellBack>>

WorkerStep ==
  \/ Begin \/ EnsureWorktree \/ StartAgent \/ StartRepair \/ AgentEnds \/ MergeDone
  \/ Conflict \/ RemoveOriginal \/ OriginalRemoved \/ FreeBranch \/ AttachTemp
  \/ NoteTemp \/ Resolve \/ RemoveTemp \/ LeaveFallback \/ Restore \/ Readd \/ CheckRestored
  \/ StartReconcile("worker") \/ CleanTemp("worker") \/ AttachHome("worker") \/ VerifyHome("worker")

StarterStep ==
  \/ StartReconcile("starter") \/ CleanTemp("starter") \/ AttachHome("starter") \/ VerifyHome("starter")

Next == WorkerStep \/ StarterStep \/ StartUp \/ Kill \/ RetryRoute \/ DoneRoute

Spec == Init /\ [][Next]_vars

\* The poll loop comes back, commands and agents end (both have timeouts), and
\* a dead process is started again.
Fairness == WF_vars(WorkerStep) /\ WF_vars(StarterStep) /\ WF_vars(StartUp)

FairSpec == Spec /\ Fairness

-----------------------------------------------------------------------------
(* Properties.                                                              *)

\* Types: the row, Git's registry and the program counters.
TypeOK ==
  /\ row \in Rows
  /\ tree \in [Trees -> {"none", "branch", "other"}]
  /\ gone \subseteq {"home", "temp"}
  /\ phase \in Phases /\ wf \in Rows
  /\ {alive, took, good, fellBack} \subseteq BOOLEAN
  /\ pc \in [worker : {"idle", "start", "ensure", "agent"} \cup Phases \cup Reconciling \cup Resolving,
            starter : {"idle", "start"} \cup Reconciling]
  /\ crashes \in 0..MaxCrashes /\ requests \in 0..MaxRequests

AgentAt(t) == \/ pc["worker"] = "agent" /\ Where = t
              \/ pc["worker"] = "resolve" /\ t = "temp"

\* A done request came between the reading of the phase that runs and that of
\* the row by which ensure_worktree() goes.
Overtaken == phase # wf.phase

\* An agent that develops, repairs or resolves conflicts for a workflow with a
\* worktree of its own does not work in the primary checkout, and the worktree
\* it works in is registered and on disk, wherever a kill, a failed command, a
\* retry or a done request struck before: reconciliation and ensure_worktree give
\* the worktree back or fail closed.  Planning agents are excepted, see
\* PlanningKeepsOffPrimary, and a done request that comes between the two readings
\* of the row, see AgentsKeepOffPrimary.
CodingKeepsOffPrimary ==
  Dedicated /\ phase # "planning" /\ ~Overtaken
    => \A t \in Trees : AgentAt(t) => t # "main" /\ Present(t)

\* A journal that is closed has nothing left to do: while the worker is out
\* of the resolver, no temporary worktree keeps the workflow's branch from
\* its own one.  The primary fallback is excepted: it attaches the temporary
\* worktree before it writes any journal.
ClosedJournalFreesBranch ==
  ~fellBack /\ row.state = "none" /\ pc["worker"] \notin Resolving => tree["temp"] # "branch"

\* The journal is closed only when the workflow is bound to a worktree that
\* Git lists on its branch, by the resolver's finally block and by every path
\* through the reconciliation.
ClosedWhenRestored ==
  [][row.state # "none" /\ row'.state = "none"
       => row'.path /\ tree["home"] = "branch"]_vars

\* A transition that was interrupted, by a kill at any point or by a failure,
\* does not stay open: it is undone, or the workflow fails.
InterruptedSettles ==
  row.state \in InFlight ~> (row.state \notin InFlight \/ row.status = "failed")

-----------------------------------------------------------------------------
(* What comments say and the code does not do.                              *)

\* Planning is listed with the "phases that never touch the workspace".  Its
\* agents work in the primary checkout when a merge has removed the worktree.
PlanningKeepsOffPrimary ==
  Dedicated /\ phase = "planning" => ~AgentAt("main")

\* Reconciling first, "a SIGKILLed transition never lets a later phase fall back
\* to the main checkout": nor does one whose recovery failed, when a done request
\* comes between the two readings of the row.
AgentsKeepOffPrimary ==
  Dedicated /\ phase # "planning" => ~AgentAt("main")

\* "the workflow stays in primary-fallback until it completes the merge": a
\* resolution that succeeded there is not answered by a failed workflow.
ResolvedFallbackGoesOn ==
  [][good /\ pc["worker"] \in {"idle", "start"} => row'.status = "working"]_vars
====
