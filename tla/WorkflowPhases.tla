--------------------------- MODULE WorkflowPhases ---------------------------
(***************************************************************************)
(* The phases of one autonomous workflow: AutonomousOrchestrator.advance() *)
(* and the handlers it dispatches to.                                      *)
(*                                                                         *)
(* advance() reads the row of the workflow, runs the handler of its        *)
(* current_phase, which talks to agents and to GitHub for minutes or       *)
(* hours, and writes the row back.  A handler counts with what it read at  *)
(* its start and writes over what is there at its end; meanwhile operators *)
(* write to the same row through the routes.  A dozen counters in the row  *)
(* bound the retries, and error_message is one of them: its prefix decides *)
(* whether a repair round is new or the continuation of a deferred one.    *)
(*                                                                         *)
(* One scheduler runs the workflow (WorkflowLease, WorkflowScheduler); an  *)
(* agent's answer and GitHub's state are nondeterministic choices.         *)
(***************************************************************************)
EXTENDS Integers, FiniteSets

CONSTANTS
  AutoMerge,       \* auto_merge of the workflow
  FullRounds,      \* require_full_review_rounds of the workflow
  MaxPlanRounds,   \* max_plan_rounds
  MaxReviewRounds, \* max_pr_review_rounds
  TestRetries,     \* MAX_TEST_RETRIES
  DevRetries,      \* MAX_DEV_RETRIES_ON_TEST_FAIL
  CiAttempts,      \* MAX_CI_REPAIR_ATTEMPTS
  CiApiRetries,    \* MAX_CI_REPAIR_TRANSIENT_RETRIES
  CiSameRetries,   \* MAX_CI_REPAIR_NO_CHANGE_RETRIES
  CiDiagnostics,   \* MAX_CI_DIAGNOSTICS_ATTEMPTS
  Escalations,     \* MAX_MERGE_FAIL_DEV_ROUNDS
  SettleRetries,   \* _MERGE_POLICY_SETTLE_RETRY_MAX
  NetRetries,      \* TRANSIENT_RETRY_MAX
  InfraRetries,    \* MAX_VERIFIER_INFRA_RETRIES
  ParseRetries,    \* DETERMINISTIC_PARSE_MAX_RETRIES
  AcceptRounds,    \* MAX_ACCEPTANCE_DEV_ROUNDS
  ManualRetries,   \* MAX_RETRY_COUNT
  MaxRound,        \* bound: dev_round stops counting here
  MaxPr,           \* bound: pull requests created
  MaxEvents,       \* bound: what operators, other authors and crashes do
  Events           \* which of AllEvents may happen

AllEvents == {"pause", "resume", "stop", "extend", "retry", "done", "cancel",
              "feedback", "override", "comment", "push", "outage",
              "unverified", "kill"}

ASSUME CapsAssumption ==
  /\ AutoMerge \in BOOLEAN /\ FullRounds \in BOOLEAN
  /\ {MaxPlanRounds, MaxReviewRounds, CiDiagnostics, InfraRetries,
      ParseRetries, MaxRound} \subseteq Nat \ {0}
  /\ {TestRetries, DevRetries, CiAttempts, CiApiRetries, CiSameRetries,
      Escalations, SettleRetries, NetRetries, AcceptRounds, ManualRetries,
      MaxPr, MaxEvents} \subseteq Nat
  /\ AcceptRounds <= MaxRound
  /\ Events \subseteq AllEvents

VARIABLES
  row,      \* the workflow's row
  pc,       \* what the worker inside advance() is doing
  wf,       \* the row as that worker read it
  last,     \* phase of the latest completed milestone that _do_wait looks at
  done,     \* phases with such a milestone
  asked,    \* the latest completed milestone is requirement_received
  prs,      \* pull requests created so far; they are numbered from 1
  open,     \* the open pull request of the branch, or 0
  merged,   \* the merged ones; a merge commit has the number of its request
  ahead,    \* the branch has commits that main does not contain
  events,   \* number of such events so far
  agreed,   \* ghost: requests whose merge auto_merge, a comment or done asked for
  jumped,   \* ghost: requests that a repair moved from pr_review to merge
  accepted, \* ghost: merge commits confirmed by the verifier or by a human
  reopened, \* ghost: a confirmed workflow was sent back to work
  renewed,  \* ghost: a new comment or an exhausted CI repair took the workflow
            \* back to work with the merge commit of a verdict still recorded
  waived    \* ghost: merge commits there were when acceptance completed the
            \* workflow with its verification switched off

ghosts == <<agreed, jumped, accepted, reopened, renewed, waived>>
github == <<prs, open, merged, ahead>>
marks == <<last, done, asked>>
vars == <<row, pc, wf, last, done, asked, prs, open, merged, ahead, events,
          agreed, jumped, accepted, reopened, renewed, waived>>

-----------------------------------------------------------------------------
(* The row.  status "working" stands for the statuses of PHASE_STATUS_MAP,  *)
(* note for the prefix of error_message: a deferral of a CI repair ("api",  *)
(* "same", "sync"), a recoverable pause, any other text, or none.           *)

PHASE_ORDER == <<"preparation", "planning", "development", "pr_review",
                 "report", "merge", "acceptance">>
Phases == {PHASE_ORDER[i] : i \in 1..7} \cup {"wait", "completed"}
StatusOf(phase) == IF phase = "wait" THEN "waiting" ELSE "working"

Active == {"working", "waiting"}
Statuses == Active \cup {"paused", "failed", "cancelled", "completed", "timeout"}
Deferred == {"api", "same", "sync"}
Notes == Deferred \cup {"none", "policy", "text"}
Verdicts == {"none", "confirmed", "rejected", "indeterminate"}
Requests == 0..MaxPr

Rows ==
  [status : Statuses, phase : Phases, note : Notes, feedback : BOOLEAN,
   round : Nat, dev : 1..MaxRound, pr : Requests,
   test : Nat, skip : Nat, redo : Nat,
   attempts : Nat, api : Nat, same : Nat, diag : Nat, escalated : Nat,
   settle : Nat, net : Nat, retries : Nat,
   verdict : Verdicts, sha : Requests,
   report : [sha : Requests, infra : Nat, parse : BOOLEAN]]

NoReport == [sha |-> 0, infra |-> 0, parse |-> FALSE]

NewRow ==
  [status |-> "working", phase |-> "preparation", note |-> "none",
   feedback |-> FALSE, round |-> 0, dev |-> 1, pr |-> 0,
   test |-> 0, skip |-> 0, redo |-> 0,
   attempts |-> 0, api |-> 0, same |-> 0, diag |-> 0, escalated |-> 0,
   settle |-> 0, net |-> 0, retries |-> 0,
   verdict |-> "none", sha |-> 0, report |-> NoReport]

Steps == {"idle", "enter", "agent", "test", "repair", "merged"}
RunsAgent == pc \in {"agent", "test", "repair"}

Init ==
  /\ row = NewRow /\ wf = NewRow /\ pc = "idle"
  /\ last = "none" /\ done = {} /\ asked = FALSE
  /\ prs = 0 /\ open = 0 /\ merged = {} /\ ahead = FALSE /\ events = 0
  /\ agreed = {} /\ jumped = {} /\ accepted = {}
  /\ reopened = FALSE /\ renewed = FALSE /\ waived = {}

NextDev(n) == IF n < MaxRound THEN n + 1 ELSE n
In(phase, step) == pc = step /\ wf.phase = phase

-----------------------------------------------------------------------------
(* advance(): read the row, dispatch, commit.                               *)

Keep == UNCHANGED <<prs, open, merged, ahead, events, agreed, jumped,
                    accepted, reopened, renewed, waived>>

\* A milestone of the phase is completed.
Completes(phase) ==
  last' = phase /\ done' = done \cup {phase} /\ asked' = FALSE

\* The worker leaves; its snapshot is of no further use.
Leave(r) == row' = r /\ pc' = "idle" /\ wf' = NewRow

Begin ==
  /\ pc = "idle" /\ row.status \in Active
  /\ pc' = "enter" /\ wf' = row
  /\ UNCHANGED row /\ UNCHANGED marks /\ Keep

\* A clean return resets the counter of transient errors, and error_message
\* with it, as the snapshot has them.
Commit(r) ==
  Leave(IF wf.net > 0 THEN [r EXCEPT !.net = 0, !.note = "none"] ELSE r)

\* Mutant: a transition writes the phase's name as the status.
ToRaw(r, phase) == [r EXCEPT !.phase = phase, !.status = phase]

\* PhaseResult.completed, also for the pseudo-phase wait.
To(r, phase) == [r EXCEPT !.phase = phase, !.status = StatusOf(phase)]
Failed(r) == [r EXCEPT !.status = "failed", !.note = "text"]
Paused(r, why) == [r EXCEPT !.status = "paused", !.note = why]
Completed(r, phase) ==
  [r EXCEPT !.status = "completed", !.phase = phase, !.note = "none"]

\* user_feedback is cleared when the prompt the agent got contained it.
Heard(r) == [r EXCEPT !.feedback = r.feedback /\ ~wf.feedback]

\* A transient GitHub error leaves advance() through its except branch.
NetError ==
  /\ pc \in {"enter", "agent", "test", "repair"}
  /\ Leave(IF wf.net < NetRetries
             THEN [row EXCEPT !.net = wf.net + 1, !.note = "text"]
             ELSE [Failed(row) EXCEPT !.net = 0])
  /\ UNCHANGED marks /\ Keep

\* Any other exception: _mark_failed.
Error ==
  /\ pc \in {"enter", "agent", "test", "repair", "merged"}
  /\ Leave([Failed(row) EXCEPT !.net = 0])
  /\ UNCHANGED marks /\ Keep

\* The model provider refuses: the agent's run ends in a pause.
QuotaPause ==
  /\ RunsAgent
  /\ Leave(Paused(row, "policy"))
  /\ UNCHANGED marks /\ Keep

\* A phase without a handler, "completed": nothing is committed.
NoHandler ==
  /\ In("completed", "enter")
  /\ Commit(row)
  /\ UNCHANGED marks /\ Keep

-----------------------------------------------------------------------------
(* Preparation and planning.                                                *)

\* Repository, issue, branch and worktree exist.  A linked issue leaves a
\* milestone that _do_wait does not skip.
Prepare ==
  /\ In("preparation", "enter")
  /\ Commit([To(row, "planning") EXCEPT !.round = 0])
  /\ \/ UNCHANGED marks
     \/ Completes("preparation")
  /\ Keep

StartAgent ==
  /\ pc' = "agent" /\ UNCHANGED <<row, wf>> /\ UNCHANGED marks /\ Keep

EnterPlanning == In("planning", "enter") /\ StartAgent

\* Plan, review and, in the last round, refinement.
PlanFails(status) ==
  LET r == Heard(row) IN
  /\ In("planning", "agent")
  /\ \E n \in {row.round, wf.round + 1} :
       LET s == [r EXCEPT !.round = n, !.status = status, !.note = "text"]
       IN IF status = "failed" THEN Leave(s) ELSE Commit(s)
  /\ UNCHANGED marks /\ Keep

NeedsRefinement(objects) ==
  wf.round + 1 < MaxPlanRounds /\ (FullRounds \/ objects)

Plan(objects) ==
  LET r == [Heard(row) EXCEPT !.round = wf.round + 1] IN
  /\ In("planning", "agent")
  /\ IF NeedsRefinement(objects) THEN Commit(r) ELSE Commit(To(r, "development"))
  /\ Completes("planning") /\ Keep

-----------------------------------------------------------------------------
(* Development and its tests.                                               *)

\* A test or skip retry runs the tests only.
EnterDevelopment ==
  /\ In("development", "enter")
  /\ pc' = (IF wf.test > 0 \/ wf.skip > 0 THEN "test" ELSE "agent")
  /\ UNCHANGED <<row, wf>> /\ UNCHANGED marks /\ Keep

\* run_development_agent and run_test_phase write status=failed themselves;
\* the handler returns retry.
DevelopmentFails ==
  /\ In("development", pc) /\ pc \in {"enter", "agent", "test"}
  /\ Commit(Failed(Heard(row)))
  /\ UNCHANGED marks /\ Keep

Develop ==
  /\ In("development", "agent")
  /\ \/ ahead' = TRUE
     \/ ahead' = ahead
  /\ row' = Heard(row)
  /\ IF row.status = "failed"
       THEN pc' = "idle" /\ wf' = NewRow
       ELSE pc' = "test" /\ wf' = [row' EXCEPT !.phase = "development"]
  /\ Completes("development")
  /\ UNCHANGED <<prs, open, merged, events>> /\ UNCHANGED ghosts

\* Mutant: a retry does not count when the last one was a skip.
RetryTestForgets == [row EXCEPT !.test = IF wf.skip > 0 THEN wf.test ELSE wf.test + 1]

RetryTest == [row EXCEPT !.test = wf.test + 1]

\* The tests failed for good: another development round.
Redo(feedback) ==
  IF wf.redo < DevRetries
    THEN [row EXCEPT !.dev = NextDev(wf.dev), !.redo = wf.redo + 1,
                     !.test = 0, !.skip = 0, !.feedback = @ \/ feedback]
    ELSE Failed(row)

\* The test agent failed, or what it did proves nothing.
TestInconclusive(evidence) ==
  /\ In("development", "test")
  /\ Commit(IF wf.test < TestRetries THEN RetryTest
            ELSE IF evidence THEN Redo(TRUE) ELSE Failed(row))
  /\ UNCHANGED marks /\ Keep

TestSkipped ==
  /\ In("development", "test")
  /\ Commit(IF wf.skip < 1 THEN [row EXCEPT !.skip = wf.skip + 1] ELSE Failed(row))
  /\ UNCHANGED marks /\ Keep

TestUnfixable ==
  /\ In("development", "test")
  /\ Commit(Redo(FALSE))
  /\ UNCHANGED marks /\ Keep

TestPassed ==
  /\ In("development", "test")
  /\ Commit([To(row, "pr_review") EXCEPT !.test = 0, !.skip = 0, !.redo = 0,
                                         !.round = 0])
  /\ Completes("development") /\ Keep

-----------------------------------------------------------------------------
(* CI repair, called from pr_review and from merge with the caller's        *)
(* snapshot w.  back is what the caller's PhaseResult.retry patches.        *)

\* An exhausted repair goes back to development a bounded number of times.
Escalated(w) ==
  IF w.escalated < Escalations
    THEN [To(row, "development") EXCEPT
            !.dev = NextDev(w.dev), !.escalated = w.escalated + 1, !.note = "none",
            !.attempts = 0, !.api = 0, !.same = 0, !.diag = 0]
    ELSE Failed(row)

\* A deferred round keeps its slot, a new one takes the next.
Slot(w) == IF w.note \in {"api", "same"} THEN w.attempts ELSE w.attempts + 1

Counted(r, w) ==
  [r EXCEPT !.api = IF w.note = "api" THEN w.api + 1
                    ELSE IF w.note = "same" THEN w.api ELSE 0,
            !.same = IF w.note = "same" THEN w.same + 1
                     ELSE IF w.note = "api" THEN w.same ELSE 0]

Exhausted(w) ==
  \/ w.note = "api" /\ w.api >= CiApiRetries
  \/ w.note = "same" /\ w.same >= CiSameRetries

\* What _start_ci_repair_round may write when no repair agent runs: a cap is
\* reached, job logs are missing, or the same failure is back.
RepairTurnedBack(w) ==
  IF Exhausted(w)
    THEN {IF w.note = "api" THEN Failed(row) ELSE Escalated(w)}
    ELSE IF Slot(w) > CiAttempts THEN {Escalated(w)}
    ELSE {LET r == [Counted(row, w) EXCEPT !.diag = w.diag + 1] IN
          IF w.diag + 1 >= CiDiagnostics THEN Failed(r)
          ELSE [To(r, "merge") EXCEPT
                  !.note = IF w.note \in {"api", "same"} THEN w.note ELSE "text"]}
         \cup (IF w.attempts > 0 THEN {Escalated(w)} ELSE {})

RepairStarted(w) ==
  [To(Counted(row, w), "merge") EXCEPT
     !.note = "none", !.attempts = Slot(w), !.diag = 0]

Jumps ==
  jumped' = (IF wf.phase = "pr_review" /\ row'.phase = "merge"
               THEN jumped \cup {wf.pr} ELSE jumped)

\* Patch of the caller's retry: pr_review writes its round and the request.
Back(r, w) ==
  IF wf.phase = "pr_review" THEN [r EXCEPT !.round = w.round, !.pr = wf.pr] ELSE r

\* How the row's milestones change on the way out: an escalation completes one
\* of merge, the caller possibly one of its own.
Leaving(r, own) ==
  IF r.phase = "development" THEN Completes("merge")
  ELSE IF own THEN Completes(wf.phase) ELSE UNCHANGED marks

Repo == UNCHANGED <<prs, open, merged, ahead, agreed, accepted, reopened, waived>>

Happens(event) == event \in Events /\ events < MaxEvents /\ events' = events + 1

\* Main has moved: it is merged into the branch and the checks run again.
SyncMain(w, own) ==
  /\ ~Exhausted(w) /\ Happens("push")
  /\ Commit(Back([row EXCEPT !.note = "sync"], w))
  /\ Leaving(row, own)
  /\ Jumps /\ Repo /\ UNCHANGED renewed

NoRepair(w, own) ==
  /\ \E r \in RepairTurnedBack(w) :
       /\ Commit(Back(r, w)) /\ Leaving(r, own)
       /\ renewed' = (renewed \/ (r.phase = "development" /\ row.sha # 0))
  /\ Jumps /\ Repo /\ UNCHANGED events

RunRepair(w) ==
  /\ ~Exhausted(w) /\ Slot(w) <= CiAttempts
  /\ row' = RepairStarted(w) /\ pc' = "repair"
  /\ wf' = [row' EXCEPT !.phase = wf.phase, !.round = w.round, !.pr = wf.pr]
  /\ Completes("merge")
  /\ Jumps /\ Repo /\ UNCHANGED <<events, renewed>>

StartCiRepair(w, own) == SyncMain(w, own) \/ NoRepair(w, own) \/ RunRepair(w)

\* _run_merge_ci_repair after its agent returned.
RepairOutcomes ==
  LET r == Heard(row)
      deferred(note) == [r EXCEPT !.status = "working", !.note = note]
  IN {Failed(r), deferred("same"), deferred("api"),
      [To(r, "merge") EXCEPT !.note = "none"]}

Repair ==
  /\ pc = "repair"
  /\ \E r \in RepairOutcomes : Commit(Back(r, wf))
  /\ UNCHANGED marks /\ Keep

-----------------------------------------------------------------------------
(* Pull request review.                                                     *)

\* Nothing to review although a verifier rejected the merge: repair it in a
\* new development round while there are rounds left.
Rework ==
  IF wf.dev < AcceptRounds
    THEN [To(row, "development") EXCEPT
            !.dev = NextDev(wf.dev), !.round = 0, !.verdict = "none", !.sha = 0,
            !.feedback = TRUE, !.note = "none"]
    ELSE Failed(row)

NothingToReview ==
  /\ In("pr_review", "enter") /\ ~ahead
  /\ IF wf.pr # 0 /\ "rejected" \in {wf.verdict, row.verdict}
       THEN /\ IF wf.dev < AcceptRounds THEN Commit(Rework) ELSE Leave(Rework)
            /\ \/ wf.dev < AcceptRounds /\ Completes("pr_review")
               \/ wf.dev >= AcceptRounds /\ UNCHANGED marks
       ELSE Commit(Completed(row, "completed")) /\ Completes("pr_review")
  /\ Keep

\* A git error while the branch is compared counts as "no changes".
CompareFails ==
  /\ In("pr_review", "enter")
  /\ Commit(Completed(row, "completed")) /\ Completes("pr_review") /\ Keep

\* Scope violation, unsupported reviewer, empty branch name.
ReviewRefused ==
  /\ In("pr_review", "enter")
  /\ Leave(Failed(row)) /\ UNCHANGED marks /\ Keep

\* Push, then create the request, or reuse the open one.  A recorded request
\* that is no longer open is replaced in the first round only, unless the
\* probe fails.
PullRequest(number) ==
  /\ In("pr_review", "enter") /\ ahead
  /\ \/ number = wf.pr /\ wf.pr # 0
     \/ wf.round = 0 /\ wf.pr = 0 /\ open # 0 /\ number = open
     \/ wf.round = 0 /\ open = 0 /\ prs < MaxPr /\ number = prs + 1
     \/ wf.round > 0 /\ number = 0 /\ wf.pr = 0
  /\ prs' = (IF number > prs THEN number ELSE prs)
  /\ open' = (IF number > prs THEN number ELSE open)

ReviewStarts(number) ==
  /\ PullRequest(number)
  /\ wf.note \notin Deferred
  /\ pc' = "agent" /\ wf' = [wf EXCEPT !.pr = number]
  /\ UNCHANGED <<row, merged, ahead, events>> /\ UNCHANGED marks /\ UNCHANGED ghosts

\* A repair was deferred: look at the checks again instead of reviewing.
ReviewDeferred(number) ==
  /\ PullRequest(number)
  /\ wf.note \in Deferred
  /\ Commit([To(row, "report") EXCEPT !.note = "none"])
  /\ UNCHANGED <<merged, ahead, events>> /\ UNCHANGED marks /\ UNCHANGED ghosts

RepairDeferred ==
  /\ In("pr_review", "enter") /\ ahead /\ wf.pr # 0
  /\ wf.note \in Deferred
  /\ StartCiRepair(wf, FALSE)

\* The row with the round reviewed and the request recorded.
Reviewed == [row EXCEPT !.round = wf.round + 1, !.pr = wf.pr]
LastRound(passed) == (passed /\ ~FullRounds) \/ wf.round + 1 >= MaxReviewRounds

\* No usable review; the run that touched protected Git metadata has written
\* failed by itself and returns retry.
ReviewFails ==
  LET r == [Failed(row) EXCEPT !.pr = wf.pr] IN
  /\ In("pr_review", "agent")
  /\ \/ Leave(r)
     \/ Commit(r)
  /\ UNCHANGED marks /\ Keep

\* The review is there, but its fix or its summary failed.
FixFails ==
  /\ In("pr_review", "agent")
  /\ \/ Leave(Failed(Reviewed))
     \/ Commit(Failed(Reviewed))
  /\ Completes("pr_review") /\ Keep

\* The fix of a review that did not pass could not be staged.
FixPauses ==
  /\ In("pr_review", "agent")
  /\ Commit(Paused(Reviewed, "text")) /\ Completes("pr_review") /\ Keep

\* The review asks for changes, the fix is pushed: one more round.
ReviewAgain(passed) ==
  /\ In("pr_review", "agent") /\ ~LastRound(passed)
  /\ Commit(IF passed THEN Reviewed ELSE Heard(Reviewed))
  /\ Completes("pr_review") /\ Keep

\* Mutant: a review that passed goes straight to the merge.
ReviewDoneMerges(passed) ==
  /\ In("pr_review", "agent") /\ LastRound(passed)
  /\ Commit(To(IF passed THEN Reviewed ELSE Heard(Reviewed), "merge"))
  /\ Completes("pr_review") /\ Keep

ReviewDone(passed) ==
  /\ In("pr_review", "agent") /\ LastRound(passed)
  /\ Commit(To(IF passed THEN Reviewed ELSE Heard(Reviewed), "report"))
  /\ Completes("pr_review") /\ Keep

\* Checks fail after the last round.  The repair decides on the row as it is
\* after a fix, as the handler read it otherwise.
ReviewRepairs(passed) ==
  /\ In("pr_review", "agent") /\ LastRound(passed) /\ wf.pr # 0
  /\ StartCiRepair([wf EXCEPT !.round = @ + 1,
                              !.note = IF passed THEN @ ELSE row.note], TRUE)

-----------------------------------------------------------------------------
(* Report and wait.                                                         *)

Report ==
  /\ In("report", "enter")
  /\ Commit(To(row, "wait"))
  /\ Completes("report") /\ Keep

\* Feedback, or a rejected delivery that a human sent back.
SentBack == wf.feedback \/ (wf.verdict = "rejected" /\ asked)

\* Mutant: the verdict is not looked at.
ResumePhaseOfMilestone == IF last = "none" THEN "development" ELSE last

\* Where the feedback is taken up: a rejected delivery in development, any
\* other in the phase of the latest completed milestone.
ResumePhase == IF wf.verdict = "rejected" \/ last = "none" THEN "development" ELSE last

\* Mutant: the merge commit of the last verdict stays recorded.
WaitResumesKeepsSha ==
  /\ In("wait", "enter") /\ SentBack
  /\ Commit([To(row, ResumePhase) EXCEPT
               !.dev = NextDev(wf.dev), !.round = 0, !.feedback = TRUE, !.note = "none"])
  /\ jumped' = (IF ResumePhase = "merge" THEN jumped \cup {wf.pr} ELSE jumped)
  /\ UNCHANGED marks
  /\ UNCHANGED <<prs, open, merged, ahead, events, agreed, accepted, reopened, renewed, waived>>

WaitResumes ==
  /\ In("wait", "enter") /\ SentBack
  /\ Commit([To(row, ResumePhase) EXCEPT
               !.dev = NextDev(wf.dev), !.round = 0, !.feedback = TRUE,
               !.sha = 0, !.note = "none"])
  /\ jumped' = (IF ResumePhase = "merge" THEN jumped \cup {wf.pr} ELSE jumped)
  /\ UNCHANGED marks
  /\ UNCHANGED <<prs, open, merged, ahead, events, agreed, accepted, reopened, renewed, waived>>

Waits == In("wait", "enter") /\ ~SentBack /\ ~(AutoMerge /\ wf.pr # 0)

\* auto_merge, or a comment on the issue that says the work is done.
WaitMerges ==
  /\ In("wait", "enter") /\ ~SentBack
  /\ Commit(To(row, "merge"))
  /\ agreed' = agreed \cup {row.pr, wf.pr}
  /\ UNCHANGED marks
  /\ UNCHANGED <<prs, open, merged, ahead, events, jumped, accepted, reopened, renewed, waived>>

NoComment ==
  /\ Waits
  /\ Commit([row EXCEPT !.status = "waiting"])
  /\ UNCHANGED marks /\ Keep

\* A comment with new requirements: back to planning.
NewRequirement ==
  /\ Waits /\ Happens("comment")
  /\ Commit([To(row, "planning") EXCEPT !.round = 0, !.dev = NextDev(wf.dev)])
  /\ renewed' = (renewed \/ row.sha # 0)
  /\ asked' = TRUE /\ UNCHANGED <<last, done>>
  /\ UNCHANGED <<prs, open, merged, ahead, agreed, jumped, accepted, reopened, waived>>

-----------------------------------------------------------------------------
(* Merge and acceptance.                                                    *)

\* The head is not verifiable, main was merged in, checks are pending, a
\* conflict was resolved: look again.
MergeLater ==
  /\ In("merge", "enter") /\ wf.pr # 0
  /\ Commit(row)
  /\ UNCHANGED marks /\ Keep

MergeRefused ==
  /\ In("merge", "enter") /\ wf.pr # 0
  /\ Leave(Failed(row))
  /\ UNCHANGED marks /\ Keep

MergeRepairs == In("merge", "enter") /\ wf.pr # 0 /\ StartCiRepair(wf, FALSE)

\* A branch policy rejects the merge: give it time, then ask a human.
MergePolicy ==
  /\ In("merge", "enter") /\ wf.pr # 0
  /\ IF wf.settle < SettleRetries
       THEN Commit([row EXCEPT !.settle = wf.settle + 1])
       ELSE Leave([Paused(row, "policy") EXCEPT !.settle = 0])
  /\ UNCHANGED marks /\ Keep

\* gh merges the request; one that is merged already stays so.
MergeRequest ==
  /\ In("merge", "enter")
  /\ wf.pr \in {0, open} \cup merged
  /\ merged' = merged \cup ({wf.pr} \ {0})
  /\ open' = (IF open = wf.pr THEN 0 ELSE open)
  /\ ahead' = (ahead /\ open # wf.pr)
  /\ pc' = "merged"
  /\ IF wf.pr = 0 THEN UNCHANGED marks ELSE Completes("merge")
  /\ UNCHANGED <<row, wf, prs, events>> /\ UNCHANGED ghosts

\* Worktree and branch are cleaned up, or left to the sweep.
MergeDone ==
  /\ In("merge", "merged")
  /\ Commit(To(row, "acceptance"))
  /\ \/ Completes("merge")
     \/ UNCHANGED marks
  /\ Keep

\* The merge commit to verify: the recorded one before the request's.
MergeSha == IF wf.sha # 0 THEN wf.sha ELSE IF wf.pr \in merged THEN wf.pr ELSE 0

AcceptConfirmed ==
  /\ In("acceptance", "enter") /\ wf.verdict = "confirmed"
  /\ Commit([row EXCEPT !.phase = "acceptance", !.status = "completed"])
  /\ UNCHANGED marks /\ Keep

\* config.json switches the verification off; the handler asks it first.
AcceptUnverified ==
  /\ In("acceptance", "enter") /\ Happens("unverified")
  /\ Commit([row EXCEPT !.phase = "acceptance", !.status = "completed"])
  /\ waived' = waived \cup merged
  /\ UNCHANGED marks
  /\ UNCHANGED <<prs, open, merged, ahead, agreed, jumped, accepted, reopened, renewed>>

\* No merge commit, or a lookup that fails and looks like none.
AcceptLater ==
  /\ In("acceptance", "enter") /\ wf.verdict # "confirmed" /\ wf.sha = 0
  /\ \/ MergeSha = 0 /\ UNCHANGED events
     \/ MergeSha # 0 /\ Happens("outage")
  /\ Commit(row)
  /\ UNCHANGED marks
  /\ UNCHANGED <<prs, open, merged, ahead>> /\ UNCHANGED ghosts

Settled == wf.verdict # "none" /\ wf.report.sha = MergeSha /\ wf.report.infra = 0

\* Mutant: a settled verdict, whichever, ends the workflow.
AcceptReplayedEnds ==
  /\ In("acceptance", "enter") /\ wf.verdict # "confirmed" /\ MergeSha # 0
  /\ Settled
  /\ Commit(Completed(row, "acceptance"))
  /\ UNCHANGED marks /\ Keep

AcceptReplayed ==
  /\ In("acceptance", "enter") /\ wf.verdict # "confirmed" /\ MergeSha # 0
  /\ Settled
  /\ Leave([Paused(row, "text") EXCEPT !.verdict = wf.verdict])
  /\ UNCHANGED marks /\ Keep

\* An issue without criteria is verified anew although it is settled.
EnterAcceptance ==
  /\ In("acceptance", "enter") /\ wf.verdict # "confirmed" /\ MergeSha # 0
  /\ pc' = "agent" /\ wf' = [wf EXCEPT !.sha = MergeSha]
  /\ UNCHANGED row /\ UNCHANGED marks /\ Keep

Verified(verdict, infra, parse) ==
  [row EXCEPT !.verdict = verdict, !.sha = wf.sha,
              !.report = [sha |-> wf.sha, infra |-> infra, parse |-> parse]]

\* The verifier or a probe did not work.  Failures are counted per merge
\* commit; output that cannot be parsed twice in a row has its own limit.
PriorInfra == IF wf.report.sha = wf.sha THEN wf.report.infra ELSE 0
InfraLimit(parse) ==
  IF parse /\ wf.report.sha = wf.sha /\ wf.report.parse THEN ParseRetries ELSE InfraRetries

VerifierFails(parse) ==
  LET r == Verified("indeterminate", PriorInfra + 1, parse) IN
  /\ In("acceptance", "agent")
  /\ IF PriorInfra + 1 < InfraLimit(parse)
       THEN Commit([r EXCEPT !.note = "text"])
       ELSE Leave(Paused(r, "text"))
  /\ UNCHANGED marks /\ Keep

VerifierDoubts(verdict) ==
  /\ In("acceptance", "agent")
  /\ Leave(Paused(Verified(verdict, 0, FALSE), "text"))
  /\ UNCHANGED marks /\ Keep

VerifierConfirms ==
  /\ In("acceptance", "agent")
  /\ Commit(Completed(Verified("confirmed", 0, FALSE), "acceptance"))
  /\ accepted' = accepted \cup {wf.sha}
  /\ UNCHANGED marks
  /\ UNCHANGED <<prs, open, merged, ahead, events, agreed, jumped, reopened, renewed, waived>>

-----------------------------------------------------------------------------
(* The routes write to the row while a worker is inside advance().          *)

Writes(r) == row' = r /\ UNCHANGED <<pc, wf>> /\ UNCHANGED github

Pause ==
  /\ Happens("pause") /\ row.status # "paused"
  /\ Writes([row EXCEPT !.status = "paused"])
  /\ UNCHANGED marks /\ UNCHANGED ghosts

\* Also the scheduler's own resume once the provider's window has reset.
Resume ==
  /\ Happens("resume") /\ row.status = "paused"
  /\ Writes([row EXCEPT !.status = StatusOf(row.phase),
                        !.note = IF @ = "policy" THEN "none" ELSE @])
  /\ UNCHANGED marks /\ UNCHANGED ghosts

Stop ==
  /\ Happens("stop")
  /\ Writes([row EXCEPT !.status = "cancelled"])
  /\ UNCHANGED marks /\ UNCHANGED ghosts

ExtendPlanningTimeout ==
  /\ Happens("extend") /\ row.status = "timeout"
  /\ Writes([row EXCEPT !.status = StatusOf(row.phase), !.note = "none"])
  /\ UNCHANGED marks /\ UNCHANGED ghosts

Retry ==
  /\ Happens("retry") /\ row.status \in {"failed", "timeout"}
  /\ row.retries < ManualRetries
  /\ Writes([row EXCEPT !.status = StatusOf(row.phase), !.note = "none",
                        !.retries = @ + 1, !.attempts = 0, !.api = 0, !.same = 0,
                        !.diag = 0, !.escalated = 0, !.settle = 0])
  /\ UNCHANGED marks /\ UNCHANGED ghosts

\* The operator wants what there is, and what a worker is just creating,
\* merged.
MarkDone ==
  /\ Happens("done")
  /\ Writes(To(row, "merge"))
  /\ agreed' = agreed \cup {row.pr, wf.pr, open}
                      \cup (IF pc = "enter" THEN {prs + 1} ELSE {})
  /\ reopened' = (reopened \/ row.verdict = "confirmed")
  /\ UNCHANGED marks /\ UNCHANGED <<jumped, accepted, renewed, waived>>

\* The milestones after one the operator chose are cancelled.
CancelMilestone(feedback) ==
  /\ Happens("cancel") /\ (pc # "idle" \/ row.phase # "preparation")
  /\ Writes([To(row, "wait") EXCEPT !.feedback = feedback])
  /\ \E kept \in SUBSET done :
       /\ done' = kept
       /\ \/ kept = {} /\ last' = "none"
          \/ last' \in kept
  /\ asked' = TRUE
  /\ reopened' = (reopened \/ row.verdict = "confirmed")
  /\ UNCHANGED <<agreed, jumped, accepted, renewed, waived>>

ResumeWithFeedback ==
  /\ Happens("feedback") /\ row.status \in {"waiting", "paused"}
  /\ Writes([To(row, "wait") EXCEPT !.feedback = TRUE, !.sha = 0, !.note = "none"])
  /\ reopened' = (reopened \/ row.verdict = "confirmed")
  /\ UNCHANGED marks /\ UNCHANGED <<agreed, jumped, accepted, renewed, waived>>

Override ==
  /\ Happens("override") /\ row.phase = "acceptance" /\ row.status = "paused"
  /\ row.verdict \in {"indeterminate", "rejected"}
  /\ Writes([Completed(row, "acceptance") EXCEPT
               !.verdict = "confirmed", !.report = [NoReport EXCEPT !.sha = row.sha]])
  /\ accepted' = accepted \cup {IF row.sha # 0 THEN row.sha ELSE row.pr}
  /\ UNCHANGED marks /\ UNCHANGED <<agreed, jumped, reopened, renewed, waived>>

\* The process dies or loses the workflow's lease; a later worker starts over.
Kill ==
  /\ Happens("kill") /\ pc # "idle"
  /\ pc' = "idle" /\ wf' = NewRow
  /\ UNCHANGED row /\ UNCHANGED marks /\ UNCHANGED github /\ UNCHANGED ghosts

-----------------------------------------------------------------------------
Advance ==
  \/ Begin \/ NetError \/ Error \/ QuotaPause \/ NoHandler
  \/ Prepare \/ EnterPlanning
  \/ \E status \in {"failed", "timeout"} : PlanFails(status)
  \/ \E objects \in BOOLEAN : Plan(objects)
  \/ EnterDevelopment \/ DevelopmentFails \/ Develop
  \/ \E evidence \in BOOLEAN : TestInconclusive(evidence)
  \/ TestSkipped \/ TestUnfixable \/ TestPassed
  \/ Repair
  \/ NothingToReview \/ CompareFails \/ ReviewRefused \/ RepairDeferred
  \/ \E number \in Requests : ReviewStarts(number) \/ ReviewDeferred(number)
  \/ ReviewFails \/ FixFails \/ FixPauses
  \/ \E passed \in BOOLEAN :
       ReviewAgain(passed) \/ ReviewDone(passed) \/ ReviewRepairs(passed)
  \/ Report \/ WaitResumes \/ WaitMerges \/ NoComment
  \/ MergeLater \/ MergeRefused \/ MergeRepairs \/ MergePolicy
  \/ MergeRequest \/ MergeDone
  \/ AcceptConfirmed \/ AcceptUnverified \/ AcceptLater \/ AcceptReplayed \/ EnterAcceptance
  \/ \E parse \in BOOLEAN : VerifierFails(parse)
  \/ \E verdict \in {"rejected", "indeterminate"} : VerifierDoubts(verdict)
  \/ VerifierConfirms

Operators ==
  \/ NewRequirement \/ Pause \/ Resume \/ Stop \/ ExtendPlanningTimeout \/ Retry
  \/ MarkDone \/ ResumeWithFeedback \/ Override \/ Kill
  \/ \E feedback \in BOOLEAN : CancelMilestone(feedback)

Next == Advance \/ Operators

Spec == Init /\ [][Next]_vars

\* The poll loop keeps starting advance() on an active workflow, and every
\* agent and every call to GitHub has a timeout.
FairSpec == Spec /\ WF_vars(Advance)

-----------------------------------------------------------------------------
(* The row has its columns' types, and requests their numbers.              *)
TypeOK ==
  /\ row \in Rows /\ wf \in Rows /\ pc \in Steps
  /\ last \in Phases \cup {"none"} /\ done \subseteq Phases /\ asked \in BOOLEAN
  /\ prs \in Requests /\ open \in Requests /\ merged \subseteq Requests
  /\ ahead \in BOOLEAN /\ events \in 0..MaxEvents
  /\ agreed \subseteq 0..MaxPr + 1 /\ jumped \subseteq Requests
  /\ accepted \subseteq Requests
  /\ reopened \in BOOLEAN /\ renewed \in BOOLEAN /\ waived \subseteq Requests

(* A pull request is merged only when auto_merge, a comment or an operator  *)
(* asked for the merge of that request, or when a CI repair or a resume     *)
(* with feedback took the workflow to the merge phase.  A request that      *)
(* replaces a merged one needs a decision of its own.                       *)
MergeWasDecided == merged \subseteq agreed \cup jumped

(* Without the exception: _do_wait is where a merge is decided.  Not so     *)
(* when _start_ci_repair_round, called by pr_review, writes                 *)
(* current_phase = merge.                                                   *)
MergeNeedsConsent == merged \subseteq agreed

Newest == CHOOSE n \in merged : \A m \in merged : m <= n

(* The verifier is never run on a merge that a later one has superseded:    *)
(* every path from a verdict back to work forgets the recorded merge        *)
(* commit, except those that a new comment and the escalation of a CI       *)
(* repair take (renewed).                                                   *)
VerifiesNewestMerge ==
  In("acceptance", "agent") => wf.sha \in merged /\ (wf.sha = Newest \/ renewed)

(* A workflow that acceptance completed has its newest merge confirmed by   *)
(* the verifier or by a human, or completed over that very merge while the  *)
(* verification was switched off (waived), unless it was confirmed before   *)
(* and sent back to work, when the old verdict is kept (reopened), or went  *)
(* back with the old merge commit (renewed).                                *)
CompletedIsVerified ==
  row.status = "completed" /\ row.phase = "acceptance" /\ merged # {}
    => Newest \in accepted \cup waived \/ reopened \/ renewed

(* With finitely many interventions the workflow runs finitely many agents: *)
(* the counters in the row, several of which share error_message and reset  *)
(* each other, leave no cycle through an agent.                             *)
AgentRunsStop == <>[]~RunsAgent

(* A delivery that the verifier rejected and an operator sent back with     *)
(* feedback gets a development agent, or leaves the active statuses.        *)
RejectionReworked ==
  (/\ row.feedback /\ row.verdict = "rejected" /\ pc = "idle"
   /\ row.phase = "wait" /\ row.status = "waiting")
    ~> (In("development", "agent") \/ row.status \notin Active)

(* Any feedback on a waiting workflow takes it back to work.  Not so when   *)
(* the latest completed milestone is report's own: wait resumes at report,  *)
(* which returns to wait.                                                   *)
FeedbackLeavesWait ==
  (row.feedback /\ row.phase = "wait" /\ row.status = "waiting")
    ~> (row.phase \notin {"wait", "report"} \/ row.status \notin Active)
====
