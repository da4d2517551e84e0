----------------------- MODULE WorkflowPhases_proofs -----------------------
(***************************************************************************)
(* Proofs about WorkflowPhases, for any caps, any number of requests and    *)
(* any Events.                                                             *)
(*                                                                         *)
(* The first half proves the types action by action and, with them, that   *)
(* every step is one of some twenty Outcomes, which say what a step does    *)
(* to a request, its recorded merge commit, the verdict and the ghosts,     *)
(* and leave out the counters.  The invariants are proved about Outcomes:   *)
(*                                                                         *)
(*   TypeInv     types, and the phases a milestone may name;                *)
(*   RequestInv  how requests are numbered, and that a worker has the       *)
(*               request that the row has, or the one it is creating;       *)
(*   MergeInv    what is merged, or a worker may merge, was decided;        *)
(*   VerdictInv  a recorded merge commit and a confirmed verdict are about  *)
(*               the newest request.                                        *)
(***************************************************************************)
EXTENDS WorkflowPhases, TLAPS

LEMMA Caps ==
  /\ MaxRound \in Nat \ {0} /\ MaxPr \in Nat /\ MaxEvents \in Nat
  /\ Events \subseteq AllEvents
BY CapsAssumption

Worked == Phases \ {"wait", "acceptance", "completed"}

MarksOK == last \in Worked \cup {"none"} /\ done \subseteq Worked /\ asked \in BOOLEAN

RestOK ==
  /\ prs \in Requests /\ open \in Requests /\ merged \subseteq Requests
  /\ ahead \in BOOLEAN /\ events \in 0..MaxEvents
  /\ agreed \subseteq 0..MaxPr + 1 /\ jumped \subseteq Requests
  /\ accepted \subseteq Requests
  /\ reopened \in BOOLEAN /\ renewed \in BOOLEAN /\ waived \subseteq Requests

TypeInv == row \in Rows /\ wf \in Rows /\ pc \in Steps /\ MarksOK /\ RestOK

Same(r, s) == r.pr = s.pr /\ r.sha = s.sha /\ r.verdict = s.verdict
Alike(r, s) == Same(r, s) /\ r.phase = s.phase /\ r.status = s.status

PhaseNames == Phases = {"preparation", "planning", "development", "pr_review",
                        "report", "merge", "acceptance", "wait", "completed"}

LEMMA PhasesAre == PhaseNames
<1>1. Phases = {PHASE_ORDER[i] : i \in 1..7} \cup {"wait", "completed"}
  BY DEF Phases
<1>2. 1..7 = {1, 2, 3, 4, 5, 6, 7}
  OBVIOUS
<1>3. /\ PHASE_ORDER[1] = "preparation" /\ PHASE_ORDER[2] = "planning"
      /\ PHASE_ORDER[3] = "development" /\ PHASE_ORDER[4] = "pr_review"
      /\ PHASE_ORDER[5] = "report" /\ PHASE_ORDER[6] = "merge"
      /\ PHASE_ORDER[7] = "acceptance"
  BY DEF PHASE_ORDER
<1> QED
  BY <1>1, <1>2, <1>3 DEF PhaseNames

LEMMA NewRowType == NewRow \in Rows
BY Caps, PhasesAre DEF NewRow, NoReport, Rows, Statuses, Active, Notes, Deferred, Verdicts,
                 Requests, PhaseNames

LEMMA StatusOfType == ASSUME NEW phase PROVE StatusOf(phase) \in Active
BY DEF StatusOf, Active

LEMMA ToType ==
  ASSUME NEW r \in Rows, NEW phase \in Phases
  PROVE  /\ To(r, phase) \in Rows
         /\ Same(To(r, phase), r)
         /\ To(r, phase).phase = phase /\ To(r, phase).status \in Active
BY StatusOfType DEF To, Rows, Statuses, Same

LEMMA FailedType ==
  ASSUME NEW r \in Rows
  PROVE  /\ Failed(r) \in Rows /\ Same(Failed(r), r)
         /\ Failed(r).phase = r.phase /\ Failed(r).status = "failed"
BY DEF Failed, Rows, Statuses, Notes, Same

LEMMA PausedType ==
  ASSUME NEW r \in Rows, NEW why \in {"policy", "text"}
  PROVE  /\ Paused(r, why) \in Rows /\ Same(Paused(r, why), r)
         /\ Paused(r, why).phase = r.phase /\ Paused(r, why).status = "paused"
BY DEF Paused, Rows, Statuses, Notes, Same

LEMMA CompletedType ==
  ASSUME NEW r \in Rows, NEW phase \in Phases
  PROVE  /\ Completed(r, phase) \in Rows /\ Same(Completed(r, phase), r)
         /\ Completed(r, phase).phase = phase
         /\ Completed(r, phase).status = "completed"
BY DEF Completed, Rows, Statuses, Notes, Same

LEMMA HeardType ==
  ASSUME NEW r \in Rows, wf \in Rows
  PROVE  Heard(r) \in Rows /\ Alike(Heard(r), r)
<1>1. (r.feedback /\ ~wf.feedback) \in BOOLEAN
  OBVIOUS
<1> DEFINE b == r.feedback /\ ~wf.feedback
<1>2. b \in BOOLEAN
  BY <1>1
<1> HIDE DEF b
<1>3. [r EXCEPT !.feedback = b] \in Rows /\ Alike([r EXCEPT !.feedback = b], r)
  BY <1>2 DEF Rows, Alike, Same
<1> QED
  BY <1>3 DEF Heard, b

LEMMA CommitAs ==
  ASSUME NEW r \in Rows, Commit(r)
  PROVE  row' \in Rows /\ Alike(row', r) /\ pc' = "idle" /\ wf' = NewRow
BY DEF Commit, Leave, Rows, Alike, Same, Notes

LEMMA LeaveAs ==
  ASSUME NEW r \in Rows, Leave(r)
  PROVE  row' \in Rows /\ Alike(row', r) /\ pc' = "idle" /\ wf' = NewRow
BY DEF Leave, Alike, Same

LEMMA KeepRest == ASSUME RestOK, Keep PROVE RestOK'
BY DEF RestOK, Keep

LEMMA KeepMarks == ASSUME MarksOK, UNCHANGED marks PROVE MarksOK'
BY DEF MarksOK, marks

LEMMA CompletesMarks ==
  ASSUME MarksOK, NEW phase \in Worked, Completes(phase) PROVE MarksOK'
BY DEF MarksOK, Completes

LEMMA HappensType == ASSUME NEW e, events \in 0..MaxEvents, Happens(e) PROVE events' \in 0..MaxEvents
BY Caps DEF Happens

LEMMA NextDevType == ASSUME NEW n \in 1..MaxRound PROVE NextDev(n) \in 1..MaxRound
BY Caps DEF NextDev

-----------------------------------------------------------------------------
After == {"wait", "merge", "acceptance"}

Quiet == UNCHANGED <<prs, open, merged, agreed, jumped, accepted, reopened, renewed, waived>>
Ends == pc # "idle" /\ pc' = "idle" /\ wf' = NewRow
Unfinished ==
  row'.status = "completed" /\ row'.phase = "acceptance" =>
    row.status = "completed" /\ row.phase = "acceptance"

Quits ==
  /\ Ends /\ Same(row', row) /\ Unfinished /\ Quiet
  /\ row'.phase # row.phase =>
       wf.phase \notin After /\ row'.phase \notin {"merge", "acceptance"}

LEMMA QuitsWith ==
  ASSUME TypeInv, NEW r \in Rows, Commit(r) \/ Leave(r), pc # "idle", Keep, MarksOK',
         Same(r, row),
         r.status = "completed" /\ r.phase = "acceptance" =>
           row.status = "completed" /\ row.phase = "acceptance",
         r.phase # row.phase =>
           wf.phase \notin After /\ r.phase \notin {"merge", "acceptance"}
  PROVE  TypeInv' /\ Quits
<1>1. row' \in Rows /\ Alike(row', r) /\ pc' = "idle" /\ wf' = NewRow
  BY CommitAs, LeaveAs
<1>2. TypeInv'
  BY <1>1, KeepRest, NewRowType DEF TypeInv, Steps
<1>3. Quits
  BY <1>1 DEF Quits, Ends, Same, Alike, Unfinished, Quiet, Keep
<1> QED
  BY <1>2, <1>3

LEMMA Interruptions ==
  ASSUME TypeInv, NetError \/ Error \/ QuotaPause \/ NoHandler PROVE TypeInv' /\ Quits
<1>0. row \in Rows /\ wf \in Rows /\ MarksOK /\ pc \in Steps
  BY DEF TypeInv
<1>1. CASE NetError
  <2> DEFINE r == IF wf.net < NetRetries
                    THEN [row EXCEPT !.net = wf.net + 1, !.note = "text"]
                    ELSE [Failed(row) EXCEPT !.net = 0]
  <2>1. Leave(r) /\ Keep /\ UNCHANGED marks /\ pc # "idle"
    BY <1>1 DEF NetError
  <2>a. wf.net + 1 \in Nat
    BY <1>0 DEF Rows
  <2>b. ASSUME wf.net < NetRetries
        PROVE  r \in Rows /\ Same(r, row) /\ r.phase = row.phase /\ r.status = row.status
    <3> DEFINE n == wf.net + 1
    <3>1. n \in Nat
      BY <2>a
    <3>2. r = [row EXCEPT !.net = n, !.note = "text"]
      BY <2>b
    <3> HIDE DEF n, r
    <3> QED
      BY <1>0, <3>1, <3>2 DEF Rows, Notes, Same
  <2>2. r \in Rows /\ Same(r, row) /\ r.phase = row.phase /\ r.status \in {row.status, "failed"}
    <3>1. CASE ~(wf.net < NetRetries)
      BY <1>0, <3>1, FailedType DEF Rows, Same
    <3> QED
      BY <2>b, <3>1
  <2> HIDE DEF r
  <2>3. r.status = "completed" => row.status = "completed"
    BY <2>2
  <2>4. MarksOK'
    BY <1>0, <2>1, KeepMarks
  <2> QED
    BY <2>1, <2>2, <2>3, <2>4, QuitsWith
<1>2. CASE Error
  <2> DEFINE r == [Failed(row) EXCEPT !.net = 0]
  <2>1. Leave(r) /\ Keep /\ UNCHANGED marks /\ pc # "idle"
    BY <1>2 DEF Error
  <2>2. r \in Rows /\ Same(r, row) /\ r.phase = row.phase /\ r.status = "failed"
    BY <1>0 DEF Failed, Rows, Statuses, Notes, Same
  <2> QED
    BY <1>0, <2>1, <2>2, KeepMarks, QuitsWith
<1>3. CASE QuotaPause
  <2>1. Leave(Paused(row, "policy")) /\ Keep /\ UNCHANGED marks /\ pc # "idle"
    BY <1>3 DEF QuotaPause, RunsAgent
  <2> QED
    BY <1>0, <2>1, PausedType, KeepMarks, QuitsWith
<1>4. CASE NoHandler
  <2>1. Commit(row) /\ Keep /\ UNCHANGED marks /\ pc # "idle"
    BY <1>4 DEF NoHandler, In
  <2> QED
    BY <1>0, <2>1, KeepMarks, QuitsWith DEF Same
<1> QED
  BY <1>1, <1>2, <1>3, <1>4

Works ==
  /\ pc # "idle" /\ pc' \in {"agent", "test"} /\ wf.phase \in {"planning", "development"}
  /\ Alike(row', row) /\ wf'.phase = wf.phase
  /\ wf'.pr \in {wf.pr, row.pr} /\ wf'.sha \in {wf.sha, row.sha}
  /\ Quiet

LEMMA PlanningSteps ==
  ASSUME TypeInv,
         \/ Prepare \/ EnterPlanning
         \/ \E status \in {"failed", "timeout"} : PlanFails(status)
         \/ \E objects \in BOOLEAN : Plan(objects)
  PROVE  TypeInv' /\ (Quits \/ Works)
<1>0. row \in Rows /\ wf \in Rows /\ MarksOK /\ pc \in Steps
  BY DEF TypeInv
<1>1. CASE Prepare
  <2> DEFINE r == [To(row, "planning") EXCEPT !.round = 0]
  <2>1. Commit(r) /\ Keep /\ In("preparation", "enter")
        /\ (UNCHANGED marks \/ Completes("preparation"))
    BY <1>1 DEF Prepare
  <2>2. r \in Rows /\ Same(r, row) /\ r.phase = "planning"
    BY <1>0, ToType, PhasesAre DEF Rows, Same, PhaseNames
  <2>3. MarksOK'
    BY <1>0, <2>1, KeepMarks, CompletesMarks, PhasesAre DEF Worked, PhaseNames
  <2> QED
    BY <1>0, <2>1, <2>2, <2>3, QuitsWith DEF In, After
<1>2. CASE EnterPlanning
  <2>1. /\ pc = "enter" /\ wf.phase = "planning" /\ pc' = "agent" /\ UNCHANGED <<row, wf>>
        /\ UNCHANGED marks /\ Keep
    BY <1>2 DEF EnterPlanning, StartAgent, In
  <2>2. TypeInv'
    BY <1>0, <2>1, KeepMarks, KeepRest DEF TypeInv, Steps
  <2> QED
    BY <2>1, <2>2 DEF Works, Alike, Same, Quiet, Keep
<1>3. ASSUME NEW status \in {"failed", "timeout"}, PlanFails(status) PROVE TypeInv' /\ Quits
  <2>1. PICK n \in {row.round, wf.round + 1} :
          LET s == [Heard(row) EXCEPT !.round = n, !.status = status, !.note = "text"]
          IN Commit(s) \/ Leave(s)
    BY <1>3 DEF PlanFails
  <2> DEFINE s == [Heard(row) EXCEPT !.round = n, !.status = status, !.note = "text"]
  <2>2. In("planning", "agent") /\ UNCHANGED marks /\ Keep
    BY <1>3 DEF PlanFails
  <2>3. n \in Nat
    BY <1>0, <2>1 DEF Rows
  <2>4. s \in Rows /\ Same(s, row) /\ s.phase = row.phase /\ s.status = status
    <3>1. Heard(row) \in Rows /\ Same(Heard(row), row) /\ Heard(row).phase = row.phase
      BY <1>0, HeardType DEF Alike
    <3>2. status \in Statuses
      BY DEF Statuses
    <3> QED
      BY <2>3, <3>1, <3>2 DEF Rows, Same, Notes
  <2>5. Commit(s) \/ Leave(s)
    BY <2>1
  <2> HIDE DEF s
  <2>6. s.status # "completed" /\ pc # "idle"
    BY <2>2, <2>4 DEF In
  <2>7. MarksOK'
    BY <1>0, <2>2, KeepMarks
  <2> QED
    BY <2>2, <2>4, <2>5, <2>6, <2>7, QuitsWith
<1>4. ASSUME NEW objects \in BOOLEAN, Plan(objects) PROVE TypeInv' /\ Quits
  <2> DEFINE r == [Heard(row) EXCEPT !.round = wf.round + 1]
  <2>1. In("planning", "agent") /\ Completes("planning") /\ Keep
        /\ (Commit(r) \/ Commit(To(r, "development")))
    BY <1>4 DEF Plan
  <2>2. r \in Rows /\ Alike(r, row)
    BY <1>0, HeardType DEF Rows, Same, Alike
  <2>3. /\ To(r, "development") \in Rows /\ Same(To(r, "development"), row)
        /\ To(r, "development").phase = "development"
    BY <2>2, ToType, PhasesAre DEF Same, Alike, PhaseNames
  <2>4. MarksOK'
    BY <1>0, <2>1, CompletesMarks, PhasesAre DEF Worked, PhaseNames
  <2> HIDE DEF r
  <2>5. CASE Commit(r)
    BY <1>0, <2>1, <2>2, <2>4, <2>5, QuitsWith DEF In, Alike
  <2>6. CASE Commit(To(r, "development"))
    BY <1>0, <2>1, <2>3, <2>4, <2>6, QuitsWith DEF In, After
  <2> QED
    BY <2>1, <2>5, <2>6
<1> QED
  BY <1>1, <1>2, <1>3, <1>4

LEMMA FailedHeard ==
  ASSUME NEW r \in Rows, wf \in Rows
  PROVE  /\ Failed(Heard(r)) \in Rows /\ Same(Failed(Heard(r)), r)
         /\ Failed(Heard(r)).phase = r.phase /\ Failed(Heard(r)).status = "failed"
<1>1. Heard(r) \in Rows /\ Alike(Heard(r), r)
  BY HeardType
<1> HIDE DEF Heard
<1> QED
  BY <1>1, FailedType DEF Alike, Same

\* What the tests leave of the row, unless they pass.
LEMMA TestOutcomes ==
  ASSUME row \in Rows, wf \in Rows, NEW feedback \in BOOLEAN,
         NEW r \in {RetryTest, Redo(feedback), Failed(row),
                    [row EXCEPT !.skip = wf.skip + 1]}
  PROVE  r \in Rows /\ Same(r, row) /\ r.phase = row.phase /\ r.status \in {row.status, "failed"}
<1> DEFINE Good(s) == /\ s \in Rows /\ Same(s, row) /\ s.phase = row.phase
                      /\ s.status \in {row.status, "failed"}
<1>0. /\ wf.test + 1 \in Nat /\ wf.redo + 1 \in Nat /\ wf.skip + 1 \in Nat
      /\ wf.dev \in 1..MaxRound /\ row.feedback \in BOOLEAN
  BY DEF Rows
<1>1. Good(RetryTest)
  BY <1>0 DEF RetryTest, Rows, Same
<1>2. Good(Failed(row))
  BY FailedType
<1>3. Good([row EXCEPT !.skip = wf.skip + 1])
  BY <1>0 DEF Rows, Same
<1>4. Good(Redo(feedback))
  <2>1. ASSUME wf.redo < DevRetries PROVE Good(Redo(feedback))
    <3> DEFINE n == NextDev(wf.dev)
               k == wf.redo + 1
               b == row.feedback \/ feedback
    <3>1. n \in 1..MaxRound /\ k \in Nat
      BY <1>0, NextDevType
    <3>2. b \in BOOLEAN
      BY <1>0
    <3>3. Redo(feedback) = [row EXCEPT !.dev = n, !.redo = k, !.test = 0, !.skip = 0,
                                       !.feedback = b]
      BY <2>1 DEF Redo
    <3> HIDE DEF n, k, b
    <3> DEFINE s == [row EXCEPT !.dev = n, !.redo = k, !.test = 0, !.skip = 0, !.feedback = b]
    <3>4. s \in Rows
      BY <3>1, <3>2 DEF Rows
    <3>5. Same(s, row) /\ s.phase = row.phase /\ s.status = row.status
      BY DEF Rows, Same
    <3> QED
      BY <3>3, <3>4, <3>5
  <2>2. ASSUME ~(wf.redo < DevRetries) PROVE Good(Redo(feedback))
    BY <1>2, <2>2 DEF Redo
  <2> QED
    BY <2>1, <2>2
<1> HIDE DEF Good
<1>5. Good(r)
  BY <1>1, <1>2, <1>3, <1>4
<1> QED
  BY <1>5 DEF Good

LEMMA DevelopmentSteps ==
  ASSUME TypeInv,
         \/ EnterDevelopment \/ DevelopmentFails \/ Develop
         \/ \E evidence \in BOOLEAN : TestInconclusive(evidence)
         \/ TestSkipped \/ TestUnfixable \/ TestPassed
  PROVE  TypeInv' /\ (Quits \/ Works)
<1>0. row \in Rows /\ wf \in Rows /\ MarksOK /\ RestOK /\ pc \in Steps
  BY DEF TypeInv
<1>1. CASE EnterDevelopment
  <2>1. /\ pc = "enter" /\ wf.phase = "development" /\ pc' \in {"agent", "test"}
        /\ UNCHANGED <<row, wf>> /\ UNCHANGED marks /\ Keep
    BY <1>1 DEF EnterDevelopment, In
  <2>2. TypeInv'
    BY <1>0, <2>1, KeepMarks, KeepRest DEF TypeInv, Steps
  <2> QED
    BY <2>1, <2>2 DEF Works, Alike, Same, Quiet, Keep
<1>2. CASE DevelopmentFails
  <2>1. Commit(Failed(Heard(row))) /\ UNCHANGED marks /\ Keep /\ pc # "idle"
    BY <1>2 DEF DevelopmentFails
  <2> QED
    BY <1>0, <2>1, FailedHeard, KeepMarks, QuitsWith
<1>3. CASE Develop
  <2>1. /\ pc = "agent" /\ wf.phase = "development" /\ row' = Heard(row)
        /\ Completes("development") /\ ahead' \in BOOLEAN
        /\ UNCHANGED <<prs, open, merged, events>> /\ UNCHANGED ghosts
    BY <1>0, <1>3 DEF Develop, In, RestOK
  <2>2. row' \in Rows /\ Alike(row', row)
    BY <1>0, <2>1, HeardType
  <2>3. MarksOK'
    BY <1>0, <2>1, CompletesMarks, PhasesAre DEF Worked, PhaseNames
  <2>4. RestOK'
    BY <1>0, <2>1 DEF RestOK, ghosts
  <2>5. CASE row.status = "failed"
    <3>1. pc' = "idle" /\ wf' = NewRow
      BY <1>3, <2>5 DEF Develop
    <3> QED
      BY <2>1, <2>2, <2>3, <2>4, <3>1, NewRowType
      DEF TypeInv, Steps, Quits, Ends, Alike, Same, Unfinished, Quiet, ghosts
  <2>6. CASE row.status # "failed"
    <3>1. pc' = "test" /\ wf' = [row' EXCEPT !.phase = "development"]
      BY <1>3, <2>6 DEF Develop
    <3>2. wf' \in Rows /\ wf'.phase = "development" /\ Same(wf', row')
      BY <2>2, <3>1, PhasesAre DEF Rows, Same, PhaseNames
    <3> QED
      BY <2>1, <2>2, <2>3, <2>4, <3>1, <3>2
      DEF TypeInv, Steps, Works, Alike, Same, Quiet, ghosts
  <2> QED
    BY <2>5, <2>6
<1>4. ASSUME NEW feedback \in BOOLEAN,
             NEW r \in {RetryTest, Redo(feedback), Failed(row),
                        [row EXCEPT !.skip = wf.skip + 1]},
             Commit(r), In("development", "test"), UNCHANGED marks, Keep
      PROVE  TypeInv' /\ Quits
  <2>1. /\ r \in Rows /\ Same(r, row) /\ r.phase = row.phase
        /\ r.status \in {row.status, "failed"}
    BY <1>0, <1>4, TestOutcomes
  <2>2. MarksOK' /\ pc # "idle"
    BY <1>0, <1>4, KeepMarks DEF In
  <2>3. r.status = "completed" => row.status = "completed"
    BY <2>1
  <2> QED
    BY <1>4, <2>1, <2>2, <2>3, QuitsWith
<1>5. ASSUME NEW evidence \in BOOLEAN, TestInconclusive(evidence) PROVE TypeInv' /\ Quits
  <2>1. In("development", "test") /\ UNCHANGED marks /\ Keep
    BY <1>5 DEF TestInconclusive
  <2>2. Commit(RetryTest) \/ Commit(Redo(TRUE)) \/ Commit(Failed(row))
    BY <1>5 DEF TestInconclusive
  <2> QED
    BY <1>4, <2>1, <2>2
<1>6. CASE TestSkipped
  <2>1. In("development", "test") /\ UNCHANGED marks /\ Keep
    BY <1>6 DEF TestSkipped
  <2>2. Commit([row EXCEPT !.skip = wf.skip + 1]) \/ Commit(Failed(row))
    BY <1>6 DEF TestSkipped
  <2> QED
    BY <1>4, <2>1, <2>2
<1>7. CASE TestUnfixable
  BY <1>4, <1>7 DEF TestUnfixable
<1>8. CASE TestPassed
  <2> DEFINE r == [To(row, "pr_review") EXCEPT !.test = 0, !.skip = 0, !.redo = 0, !.round = 0]
  <2>1. Commit(r) /\ Keep /\ In("development", "test") /\ Completes("development")
    BY <1>8 DEF TestPassed
  <2>2. r \in Rows /\ Same(r, row) /\ r.phase = "pr_review"
    <3> DEFINE t == To(row, "pr_review")
    <3>1. t \in Rows /\ Same(t, row) /\ t.phase = "pr_review"
      BY <1>0, ToType, PhasesAre DEF PhaseNames
    <3> HIDE DEF t
    <3>2. /\ [t EXCEPT !.test = 0, !.skip = 0, !.redo = 0, !.round = 0] \in Rows
          /\ Same([t EXCEPT !.test = 0, !.skip = 0, !.redo = 0, !.round = 0], t)
          /\ [t EXCEPT !.test = 0, !.skip = 0, !.redo = 0, !.round = 0].phase = t.phase
      BY <3>1 DEF Rows, Same
    <3> QED
      BY <3>1, <3>2 DEF t, Same
  <2>3. MarksOK'
    BY <1>0, <2>1, CompletesMarks, PhasesAre DEF Worked, PhaseNames
  <2> QED
    BY <1>0, <2>1, <2>2, <2>3, QuitsWith DEF In, After
<1> QED
  BY <1>1, <1>2, <1>3, <1>5, <1>6, <1>7, <1>8

\* Delivered work is taken up again, without the merge commit.
Forgets ==
  /\ Ends /\ wf.phase \in {"pr_review", "wait"}
  /\ row'.pr = row.pr /\ row'.sha = 0 /\ row'.verdict \in {row.verdict, "none"}
  /\ row'.phase \in Worked /\ row'.status # "completed"
  /\ jumped' = (IF row'.phase = "merge" THEN jumped \cup {wf.pr} ELSE jumped)
  /\ UNCHANGED <<prs, open, merged, agreed, accepted, reopened, renewed, waived>>

LEMMA ReworkType ==
  ASSUME row \in Rows, wf \in Rows, wf.dev < AcceptRounds
  PROVE  /\ Rework \in Rows /\ Rework.pr = row.pr /\ Rework.sha = 0
         /\ Rework.verdict = "none" /\ Rework.phase = "development"
         /\ Rework.status # "completed"
<1> DEFINE t == To(row, "development")
           n == NextDev(wf.dev)
<1>1. t \in Rows /\ Same(t, row) /\ t.phase = "development" /\ t.status # "completed"
  BY ToType, PhasesAre DEF PhaseNames, Active
<1>2. n \in 1..MaxRound
  BY NextDevType DEF Rows
<1>3. Rework = [t EXCEPT !.dev = n, !.round = 0, !.verdict = "none", !.sha = 0,
                         !.feedback = TRUE, !.note = "none"]
  BY DEF Rework
<1>4. 0 \in Requests
  BY Caps DEF Requests
<1> HIDE DEF t, n
<1>5. [t EXCEPT !.dev = n, !.round = 0, !.verdict = "none", !.sha = 0,
                !.feedback = TRUE, !.note = "none"] \in Rows
  BY <1>1, <1>2, <1>4 DEF Rows, Verdicts, Notes
<1> QED
  BY <1>1, <1>3, <1>5 DEF Same, Rows

LEMMA ReviewSkipped ==
  ASSUME TypeInv, NothingToReview \/ CompareFails \/ ReviewRefused
  PROVE  TypeInv' /\ (Quits \/ Forgets)
<1>0. row \in Rows /\ wf \in Rows /\ MarksOK /\ RestOK /\ pc \in Steps
  BY DEF TypeInv
<1>1. In("pr_review", "enter") /\ Keep
  BY DEF NothingToReview, CompareFails, ReviewRefused
<1>2. ASSUME UNCHANGED marks \/ Completes("pr_review") PROVE MarksOK'
  BY <1>0, <1>2, KeepMarks, CompletesMarks, PhasesAre DEF Worked, PhaseNames
<1>3. ASSUME Commit(Completed(row, "completed")), Completes("pr_review")
      PROVE  TypeInv' /\ Quits
  BY <1>0, <1>1, <1>2, <1>3, CompletedType, QuitsWith, PhasesAre DEF In, After, PhaseNames
<1>4. ASSUME Leave(Failed(row)), UNCHANGED marks PROVE TypeInv' /\ Quits
  BY <1>0, <1>1, <1>2, <1>4, FailedType, QuitsWith DEF In
<1>5. ASSUME Commit(Rework), Completes("pr_review"), wf.dev < AcceptRounds
      PROVE  TypeInv' /\ Forgets
  <2>1. /\ Rework \in Rows /\ Rework.pr = row.pr /\ Rework.sha = 0
        /\ Rework.verdict = "none" /\ Rework.phase = "development"
        /\ Rework.status # "completed"
    BY <1>0, <1>5, ReworkType
  <2>2. row' \in Rows /\ Alike(row', Rework) /\ pc' = "idle" /\ wf' = NewRow
    BY <1>5, <2>1, CommitAs
  <2>3. TypeInv'
    BY <1>0, <1>1, <1>2, <1>5, <2>2, KeepRest, NewRowType DEF TypeInv, Steps
  <2> QED
    BY <1>1, <2>1, <2>2, <2>3, PhasesAre
    DEF Forgets, Ends, In, Alike, Same, Keep, Worked, PhaseNames
<1>6. CASE NothingToReview
  <2>1. CASE wf.pr # 0 /\ "rejected" \in {wf.verdict, row.verdict}
    <3>1. CASE wf.dev < AcceptRounds
      <4>1. Commit(Rework) /\ Completes("pr_review")
        BY <1>0, <1>6, <2>1, <3>1, Caps, CapsAssumption DEF NothingToReview, Rows
      <4> QED
        BY <1>5, <3>1, <4>1
    <3>2. CASE ~(wf.dev < AcceptRounds)
      <4>1. Leave(Rework) /\ UNCHANGED marks
        BY <1>6, <2>1, <3>2 DEF NothingToReview
      <4>2. Rework = Failed(row)
        BY <3>2 DEF Rework
      <4> QED
        BY <1>4, <4>1, <4>2
    <3> QED
      BY <3>1, <3>2
  <2>2. CASE ~(wf.pr # 0 /\ "rejected" \in {wf.verdict, row.verdict})
    BY <1>3, <1>6, <2>2 DEF NothingToReview
  <2> QED
    BY <2>1, <2>2
<1>7. CASE CompareFails
  BY <1>3, <1>7 DEF CompareFails
<1>8. CASE ReviewRefused
  BY <1>4, <1>8 DEF ReviewRefused
<1> QED
  BY <1>6, <1>7, <1>8

\* The request a review works on.
Takes(number) ==
  /\ pc = "enter" /\ wf.phase = "pr_review"
  /\ \/ number = wf.pr /\ wf.pr # 0
     \/ wf.pr = 0 /\ open # 0 /\ number = open
     \/ open = 0 /\ prs < MaxPr /\ number = prs + 1
     \/ number = 0 /\ wf.pr = 0
  /\ prs' = (IF number > prs THEN number ELSE prs)
  /\ open' = (IF number > prs THEN number ELSE open)
  /\ UNCHANGED <<merged, agreed, jumped, accepted, reopened, renewed, waived>>

LEMMA ReviewBegins ==
  ASSUME TypeInv, NEW number \in Requests, ReviewStarts(number) \/ ReviewDeferred(number)
  PROVE  /\ TypeInv' /\ Takes(number)
         /\ \/ row' = row /\ pc' = "agent" /\ wf' = [wf EXCEPT !.pr = number]
            \/ /\ Ends /\ Same(row', row) /\ row'.phase = "report"
               /\ row'.status # "completed"
<1>0. row \in Rows /\ wf \in Rows /\ MarksOK /\ RestOK /\ pc \in Steps
  BY DEF TypeInv
<1>1. PullRequest(number) /\ UNCHANGED <<merged, ahead, events>> /\ UNCHANGED marks /\ UNCHANGED ghosts
  BY DEF ReviewStarts, ReviewDeferred
<1>2. Takes(number)
  BY <1>1 DEF PullRequest, Takes, In, ghosts
<1>3. prs' \in Requests /\ open' \in Requests
  BY <1>0, <1>2 DEF Takes, RestOK
<1>4. RestOK'
  BY <1>0, <1>1, <1>3 DEF RestOK, ghosts
<1>5. MarksOK'
  BY <1>0, <1>1, KeepMarks
<1>6. CASE ReviewStarts(number)
  <2>1. row' = row /\ pc' = "agent" /\ wf' = [wf EXCEPT !.pr = number]
    BY <1>6 DEF ReviewStarts
  <2>2. wf' \in Rows
    BY <1>0, <2>1 DEF Rows
  <2> QED
    BY <1>0, <1>2, <1>4, <1>5, <2>1, <2>2 DEF TypeInv, Steps
<1>7. CASE ReviewDeferred(number)
  <2> DEFINE t == To(row, "report")
             r == [t EXCEPT !.note = "none"]
  <2>1. Commit(r)
    BY <1>7 DEF ReviewDeferred
  <2>2. t \in Rows /\ Same(t, row) /\ t.phase = "report" /\ t.status # "completed"
    BY <1>0, ToType, PhasesAre DEF PhaseNames, Active
  <2> HIDE DEF t
  <2>3. r \in Rows /\ Same(r, row) /\ r.phase = "report" /\ r.status # "completed"
    BY <2>2 DEF Rows, Same, Notes
  <2> HIDE DEF r
  <2>4. row' \in Rows /\ Alike(row', r) /\ pc' = "idle" /\ wf' = NewRow
    BY <2>1, <2>3, CommitAs
  <2>5. TypeInv'
    BY <1>4, <1>5, <2>4, NewRowType DEF TypeInv, Steps
  <2>6. Ends /\ Same(row', row) /\ row'.phase = "report" /\ row'.status # "completed"
    BY <1>2, <2>3, <2>4 DEF Ends, Takes, Same, Alike
  <2> QED
    BY <1>2, <2>5, <2>6
<1> QED
  BY <1>6, <1>7

-----------------------------------------------------------------------------
BackPr == IF wf.phase = "pr_review" THEN wf.pr ELSE row.pr

\* A repair is looked at and no agent runs.
TurnsBack ==
  /\ Ends /\ pc \in {"enter", "agent"} /\ wf.phase \in {"pr_review", "merge"}
  /\ row'.pr = BackPr /\ row'.sha = row.sha /\ row'.verdict = row.verdict
  /\ Unfinished /\ row'.phase \in {row.phase, "merge", "development"}
  /\ Jumps /\ renewed' \in {renewed, TRUE}
  /\ row'.phase # row.phase /\ row'.phase = "development" /\ row.sha # 0 => renewed'
  /\ UNCHANGED <<prs, open, merged, agreed, accepted, reopened, waived>>

\* A repair agent starts.
RunsRepair ==
  /\ pc \in {"enter", "agent"} /\ wf.phase \in {"pr_review", "merge"} /\ pc' = "repair"
  /\ Same(row', row) /\ row'.phase = "merge" /\ row'.status # "completed"
  /\ wf'.phase = wf.phase /\ wf'.pr = wf.pr /\ wf'.sha = row.sha
  /\ Jumps
  /\ UNCHANGED <<prs, open, merged, agreed, accepted, reopened, renewed, waived>>

\* The worker leaves after a review or a repair, with the request recorded.
Repaired ==
  /\ Ends /\ pc = "repair"
  /\ row'.pr = BackPr /\ row'.sha = row.sha /\ row'.verdict = row.verdict
  /\ Unfinished /\ row'.phase \in {row.phase, "merge"} /\ Quiet

Reviews ==
  /\ Ends /\ pc = "agent" /\ wf.phase = "pr_review"
  /\ row'.pr = wf.pr /\ row'.sha = row.sha /\ row'.verdict = row.verdict
  /\ Unfinished /\ row'.phase \in {row.phase, "report"} /\ Quiet

LEMMA EscalatedType ==
  ASSUME row \in Rows, NEW w \in Rows
  PROVE  /\ Escalated(w) \in Rows /\ Same(Escalated(w), row)
         /\ Escalated(w).phase \in {row.phase, "development"}
         /\ Escalated(w).status # "completed"
<1>1. ASSUME ~(w.escalated < Escalations) PROVE Escalated(w) = Failed(row)
  BY <1>1 DEF Escalated
<1>2. ASSUME w.escalated < Escalations
      PROVE  /\ Escalated(w) \in Rows /\ Same(Escalated(w), row)
             /\ Escalated(w).phase = "development" /\ Escalated(w).status # "completed"
  <2> DEFINE t == To(row, "development")
             n == NextDev(w.dev)
             k == w.escalated + 1
             r == [t EXCEPT !.dev = n, !.escalated = k, !.note = "none",
                            !.attempts = 0, !.api = 0, !.same = 0, !.diag = 0]
  <2>1. t \in Rows /\ Same(t, row) /\ t.phase = "development" /\ t.status # "completed"
    BY ToType, PhasesAre DEF PhaseNames, Active
  <2>2. n \in 1..MaxRound /\ k \in Nat
    BY NextDevType DEF Rows
  <2>3. Escalated(w) = r
    BY <1>2 DEF Escalated
  <2> HIDE DEF t, n, k
  <2>4. r \in Rows /\ Same(r, t) /\ r.phase = t.phase /\ r.status = t.status
    BY <2>1, <2>2 DEF Rows, Same, Notes
  <2> QED
    BY <2>1, <2>3, <2>4 DEF Same
<1> QED
  BY <1>1, <1>2, FailedType

LEMMA CountedType ==
  ASSUME NEW r \in Rows, NEW w \in Rows
  PROVE  Counted(r, w) \in Rows /\ Alike(Counted(r, w), r)
<1> DEFINE a == IF w.note = "api" THEN w.api + 1 ELSE IF w.note = "same" THEN w.api ELSE 0
           b == IF w.note = "same" THEN w.same + 1 ELSE IF w.note = "api" THEN w.same ELSE 0
<1>1. a \in Nat /\ b \in Nat
  BY DEF Rows
<1>2. Counted(r, w) = [r EXCEPT !.api = a, !.same = b]
  BY DEF Counted
<1> HIDE DEF a, b
<1>3. [r EXCEPT !.api = a, !.same = b] \in Rows
  BY <1>1 DEF Rows
<1>4. Alike([r EXCEPT !.api = a, !.same = b], r)
  BY DEF Rows, Alike, Same
<1> QED
  BY <1>2, <1>3, <1>4

LEMMA TurnedBackType ==
  ASSUME row \in Rows, NEW w \in Rows, NEW r \in RepairTurnedBack(w)
  PROVE  /\ r \in Rows /\ Same(r, row)
         /\ r.phase \in {row.phase, "merge", "development"} /\ r.status # "completed"
<1> DEFINE c == Counted(row, w)
           k == w.diag + 1
           d == [c EXCEPT !.diag = k]
           t == To(d, "merge")
           note == IF w.note \in {"api", "same"} THEN w.note ELSE "text"
           l == [t EXCEPT !.note = note]
<1>1. c \in Rows /\ Alike(c, row)
  BY CountedType
<1>2. k \in Nat
  BY DEF Rows
<1> HIDE DEF c, k
<1>3. d \in Rows /\ Alike(d, row)
  BY <1>1, <1>2 DEF Rows, Alike, Same
<1> HIDE DEF d
<1>4. t \in Rows /\ Same(t, row) /\ t.phase = "merge" /\ t.status # "completed"
  BY <1>3, ToType, PhasesAre DEF PhaseNames, Alike, Same, Active
<1> HIDE DEF t
<1>5. note \in Notes
  BY DEF Notes, Deferred
<1> HIDE DEF note
<1>6. l \in Rows /\ Same(l, row) /\ l.phase = "merge" /\ l.status # "completed"
  BY <1>4, <1>5 DEF Rows, Same
<1> HIDE DEF l
<1>7. r \in {Failed(row), Escalated(w), Failed(d), l}
  BY DEF RepairTurnedBack, l, t, note, d, k, c
<1>8. /\ Failed(d) \in Rows /\ Same(Failed(d), row) /\ Failed(d).phase = row.phase
      /\ Failed(d).status = "failed"
  BY <1>3, FailedType DEF Same, Alike
<1> QED
  BY <1>6, <1>7, <1>8, FailedType, EscalatedType

LEMMA BackType ==
  ASSUME NEW r \in Rows, NEW w \in Rows, wf \in Rows
  PROVE  /\ Back(r, w) \in Rows
         /\ Back(r, w).pr = IF wf.phase = "pr_review" THEN wf.pr ELSE r.pr
         /\ Back(r, w).sha = r.sha /\ Back(r, w).verdict = r.verdict
         /\ Back(r, w).phase = r.phase /\ Back(r, w).status = r.status
BY DEF Back, Rows

LEMMA RepairStartedType ==
  ASSUME row \in Rows, NEW w \in Rows
  PROVE  /\ RepairStarted(w) \in Rows /\ Same(RepairStarted(w), row)
         /\ RepairStarted(w).phase = "merge" /\ RepairStarted(w).status # "completed"
<1> DEFINE c == Counted(row, w)
           t == To(c, "merge")
           k == Slot(w)
           r == [t EXCEPT !.note = "none", !.attempts = k, !.diag = 0]
<1>1. c \in Rows /\ Alike(c, row)
  BY CountedType
<1> HIDE DEF c
<1>2. t \in Rows /\ Same(t, row) /\ t.phase = "merge" /\ t.status # "completed"
  BY <1>1, ToType, PhasesAre DEF PhaseNames, Alike, Same, Active
<1>3. k \in Nat
  BY DEF Slot, Rows
<1>4. RepairStarted(w) = r
  BY DEF RepairStarted, c
<1> HIDE DEF t, k
<1>5. r \in Rows /\ Same(r, t) /\ r.phase = t.phase /\ r.status = t.status
  BY <1>2, <1>3 DEF Rows, Same, Notes
<1> QED
  BY <1>2, <1>4, <1>5 DEF Same

LEMMA RepairSteps ==
  ASSUME TypeInv, NEW w \in Rows, NEW own \in BOOLEAN, StartCiRepair(w, own),
         pc \in {"enter", "agent"}, wf.phase \in {"pr_review", "merge"},
         own => wf.phase = "pr_review"
  PROVE  TypeInv' /\ (TurnsBack \/ RunsRepair)
<1>0. row \in Rows /\ wf \in Rows /\ MarksOK /\ RestOK /\ pc \in Steps
  BY DEF TypeInv
<1>1. ASSUME NEW r, Leaving(r, own) \/ Completes("merge") PROVE MarksOK'
  <2>1. {"merge", "pr_review"} \subseteq Worked
    BY PhasesAre DEF Worked, PhaseNames
  <2>2. Completes("merge") \/ Completes("pr_review") \/ UNCHANGED marks
    BY <1>1 DEF Leaving
  <2> QED
    BY <1>0, <2>1, <2>2, CompletesMarks, KeepMarks
<1>2. ASSUME Jumps, Repo, renewed' \in BOOLEAN, events' \in 0..MaxEvents PROVE RestOK'
  <2>1. jumped' \subseteq Requests
    BY <1>0, <1>2 DEF Jumps, RestOK, Rows
  <2> QED
    BY <1>0, <1>2, <2>1 DEF Repo, RestOK
<1>3. ASSUME NEW r \in Rows, Commit(Back(r, w)), Jumps, Repo, Same(r, row),
             Leaving(r, own) \/ Leaving(row, own),
             r.phase \in {row.phase, "merge", "development"},
             r.status = "completed" => r.status = row.status /\ r.phase = row.phase,
             renewed' \in {renewed, TRUE}, events' \in 0..MaxEvents,
             r.phase # row.phase /\ r.phase = "development" /\ row.sha # 0 => renewed'
      PROVE  TypeInv' /\ TurnsBack
  <2> DEFINE b == Back(r, w)
  <2>1. /\ b \in Rows /\ b.pr = (IF wf.phase = "pr_review" THEN wf.pr ELSE r.pr)
        /\ b.sha = r.sha /\ b.verdict = r.verdict /\ b.phase = r.phase /\ b.status = r.status
    BY <1>0, BackType
  <2> HIDE DEF b
  <2>2. Commit(b)
    BY <1>3 DEF b
  <2>3. row' \in Rows /\ Alike(row', b) /\ pc' = "idle" /\ wf' = NewRow
    BY <2>1, <2>2, CommitAs
  <2>4. MarksOK'
    BY <1>1, <1>3
  <2>5. renewed' \in BOOLEAN
    BY <1>0, <1>3 DEF RestOK
  <2>6. TypeInv'
    BY <1>2, <1>3, <2>3, <2>4, <2>5, NewRowType DEF TypeInv, Steps
  <2>7. row'.pr = BackPr /\ row'.sha = row.sha /\ row'.verdict = row.verdict
        /\ row'.phase = r.phase /\ row'.status = r.status
    BY <1>3, <2>1, <2>3 DEF Alike, Same, BackPr
  <2>8. Unfinished
    BY <1>3, <2>7 DEF Unfinished
  <2> QED
    BY <1>3, <2>3, <2>6, <2>7, <2>8 DEF TurnsBack, Ends, Repo
<1>4. CASE SyncMain(w, own)
  <2> DEFINE r == [row EXCEPT !.note = "sync"]
  <2>1. Commit(Back(r, w)) /\ Leaving(row, own) /\ Jumps /\ Repo /\ UNCHANGED renewed
    BY <1>4 DEF SyncMain
  <2>2. events' \in 0..MaxEvents
    BY <1>0, <1>4, HappensType DEF SyncMain, RestOK
  <2>3. r \in Rows /\ Same(r, row) /\ r.phase = row.phase /\ r.status = row.status
    BY <1>0 DEF Rows, Same, Notes, Deferred
  <2> HIDE DEF r
  <2> QED
    BY <1>3, <2>1, <2>2, <2>3
<1>5. CASE NoRepair(w, own)
  <2>1. PICK r \in RepairTurnedBack(w) :
          /\ Commit(Back(r, w)) /\ Leaving(r, own)
          /\ renewed' = (renewed \/ (r.phase = "development" /\ row.sha # 0))
    BY <1>5 DEF NoRepair
  <2>2. Jumps /\ Repo /\ UNCHANGED events
    BY <1>5 DEF NoRepair
  <2>3. /\ r \in Rows /\ Same(r, row)
        /\ r.phase \in {row.phase, "merge", "development"} /\ r.status # "completed"
    BY <1>0, TurnedBackType
  <2>4. /\ renewed' \in {renewed, TRUE} /\ events' \in 0..MaxEvents
        /\ r.phase # row.phase /\ r.phase = "development" /\ row.sha # 0 => renewed'
    BY <1>0, <2>1, <2>2 DEF RestOK
  <2> QED
    BY <1>3, <2>1, <2>2, <2>3, <2>4
<1>6. CASE RunRepair(w)
  <2>1. /\ row' = RepairStarted(w) /\ pc' = "repair"
        /\ wf' = [row' EXCEPT !.phase = wf.phase, !.round = w.round, !.pr = wf.pr]
        /\ Completes("merge") /\ Jumps /\ Repo /\ UNCHANGED <<events, renewed>>
    BY <1>6 DEF RunRepair
  <2>2. row' \in Rows /\ Same(row', row) /\ row'.phase = "merge" /\ row'.status # "completed"
    BY <1>0, <2>1, RepairStartedType
  <2>3. /\ wf' \in Rows /\ wf'.phase = wf.phase /\ wf'.pr = wf.pr /\ wf'.sha = row'.sha
    BY <1>0, <2>1, <2>2 DEF Rows
  <2>4. RestOK'
    BY <1>0, <1>2, <2>1 DEF RestOK
  <2>5. TypeInv'
    BY <1>1, <2>1, <2>2, <2>3, <2>4 DEF TypeInv, Steps
  <2> QED
    BY <2>1, <2>2, <2>3, <2>5 DEF RunsRepair, Same, Repo
<1> QED
  BY <1>4, <1>5, <1>6 DEF StartCiRepair

LEMMA RepairCalls ==
  ASSUME TypeInv,
         RepairDeferred \/ MergeRepairs \/ \E passed \in BOOLEAN : ReviewRepairs(passed)
  PROVE  TypeInv' /\ (TurnsBack \/ RunsRepair)
<1>0. row \in Rows /\ wf \in Rows
  BY DEF TypeInv
<1>1. CASE RepairDeferred \/ MergeRepairs
  <2>1. StartCiRepair(wf, FALSE) /\ pc = "enter" /\ wf.phase \in {"pr_review", "merge"}
    BY <1>1 DEF RepairDeferred, MergeRepairs, In
  <2> QED
    BY <1>0, <2>1, RepairSteps
<1>2. ASSUME NEW passed \in BOOLEAN, ReviewRepairs(passed)
      PROVE  TypeInv' /\ (TurnsBack \/ RunsRepair)
  <2> DEFINE n == wf.round + 1
             note == IF passed THEN wf.note ELSE row.note
             w == [wf EXCEPT !.round = n, !.note = note]
  <2>1. n \in Nat /\ note \in Notes
    BY <1>0 DEF Rows
  <2>2. w = [wf EXCEPT !.round = @ + 1, !.note = IF passed THEN @ ELSE row.note]
    BY <1>0 DEF Rows
  <2>3. StartCiRepair(w, TRUE) /\ pc = "agent" /\ wf.phase = "pr_review"
    BY <1>2, <2>2 DEF ReviewRepairs, In
  <2> HIDE DEF n, note
  <2>4. w \in Rows
    BY <1>0, <2>1 DEF Rows
  <2> HIDE DEF w
  <2> QED
    BY <2>3, <2>4, RepairSteps
<1> QED
  BY <1>1, <1>2

LEMMA RepairEnds == ASSUME TypeInv, Repair PROVE TypeInv' /\ Repaired
<1>0. row \in Rows /\ wf \in Rows /\ MarksOK
  BY DEF TypeInv
<1> DEFINE h == Heard(row)
           deferred(note) == [h EXCEPT !.status = "working", !.note = note]
           t == To(h, "merge")
<1>1. h \in Rows /\ Alike(h, row)
  BY <1>0, HeardType
<1>2. PICK r \in {Failed(h), deferred("same"), deferred("api"), [t EXCEPT !.note = "none"]} :
        Commit(Back(r, wf))
  BY DEF Repair, RepairOutcomes
<1>3. pc = "repair" /\ UNCHANGED marks /\ Keep
  BY DEF Repair
<1> HIDE DEF h
<1>4. t \in Rows /\ Same(t, row) /\ t.phase = "merge" /\ t.status # "completed"
  BY <1>1, ToType, PhasesAre DEF PhaseNames, Alike, Same, Active
<1> HIDE DEF t
<1>5. r \in Rows /\ Same(r, row) /\ r.phase \in {row.phase, "merge"} /\ r.status # "completed"
  <2>1. CASE r = Failed(h)
    BY <1>1, <2>1, FailedType DEF Alike, Same
  <2>2. ASSUME NEW note \in {"same", "api"}, r = deferred(note)
        PROVE  r \in Rows /\ Same(r, row) /\ r.phase = row.phase /\ r.status # "completed"
    <3>1. note \in Notes /\ "working" \in Statuses
      BY DEF Notes, Deferred, Statuses, Active
    <3>2. r = [h EXCEPT !.status = "working", !.note = note]
      BY <2>2
    <3>3. r \in Rows /\ Same(r, h) /\ r.phase = h.phase /\ r.status = "working"
      BY <1>1, <3>1, <3>2 DEF Rows, Same
    <3> QED
      BY <1>1, <3>3 DEF Same, Alike
  <2>3. CASE r = [t EXCEPT !.note = "none"]
    BY <1>4, <2>3 DEF Rows, Same, Notes
  <2> QED
    BY <1>2, <2>1, <2>2, <2>3
<1> DEFINE b == Back(r, wf)
<1>6. /\ b \in Rows /\ b.pr = (IF wf.phase = "pr_review" THEN wf.pr ELSE r.pr)
      /\ b.sha = r.sha /\ b.verdict = r.verdict /\ b.phase = r.phase /\ b.status = r.status
  BY <1>0, <1>5, BackType
<1>7. Commit(b)
  BY <1>2
<1> HIDE DEF b
<1>8. row' \in Rows /\ Alike(row', b) /\ pc' = "idle" /\ wf' = NewRow
  BY <1>6, <1>7, CommitAs
<1>9. TypeInv'
  BY <1>0, <1>3, <1>8, KeepMarks, KeepRest, NewRowType DEF TypeInv, Steps
<1> QED
  BY <1>3, <1>5, <1>6, <1>8, <1>9
  DEF Repaired, Ends, Alike, Same, BackPr, Unfinished, Quiet, Keep

LEMMA ReviewEnds ==
  ASSUME TypeInv,
         \/ ReviewFails \/ FixFails \/ FixPauses
         \/ \E passed \in BOOLEAN : ReviewAgain(passed) \/ ReviewDone(passed)
  PROVE  TypeInv' /\ Reviews
<1>0. row \in Rows /\ wf \in Rows /\ MarksOK
  BY DEF TypeInv
<1>1. pc = "agent" /\ wf.phase = "pr_review" /\ Keep /\ (UNCHANGED marks \/ Completes("pr_review"))
  BY DEF ReviewFails, FixFails, FixPauses, ReviewAgain, ReviewDone, In
<1>2. MarksOK'
  BY <1>0, <1>1, KeepMarks, CompletesMarks, PhasesAre DEF Worked, PhaseNames
<1> DEFINE Good(r) == /\ r \in Rows /\ r.pr = wf.pr /\ r.sha = row.sha /\ r.verdict = row.verdict
                      /\ r.status = "completed" => r.status = row.status /\ r.phase = row.phase
                      /\ r.phase \in {row.phase, "report"}
<1>3. ASSUME NEW r, Good(r), Leave(r) \/ Commit(r) PROVE TypeInv' /\ Reviews
  <2>1. row' \in Rows /\ Alike(row', r) /\ pc' = "idle" /\ wf' = NewRow
    BY <1>3, CommitAs, LeaveAs
  <2>2. TypeInv'
    BY <1>1, <1>2, <2>1, KeepRest, NewRowType DEF TypeInv, Steps
  <2> QED
    BY <1>1, <1>3, <2>1, <2>2
    DEF Reviews, Ends, Alike, Same, Unfinished, Quiet, Keep
<1>4. Good(Reviewed) /\ Reviewed.phase = row.phase
  <2> DEFINE n == wf.round + 1
  <2>1. n \in Nat
    BY <1>0 DEF Rows
  <2>2. Reviewed = [row EXCEPT !.round = n, !.pr = wf.pr]
    BY DEF Reviewed
  <2> HIDE DEF n
  <2> QED
    BY <1>0, <2>1, <2>2 DEF Rows
<1>5. Good(Failed(Reviewed))
  BY <1>4, FailedType DEF Same
<1>6. Good([Failed(row) EXCEPT !.pr = wf.pr])
  <2> DEFINE f == Failed(row)
  <2>1. f \in Rows /\ Same(f, row) /\ f.phase = row.phase /\ f.status = "failed"
    BY <1>0, FailedType
  <2> HIDE DEF f
  <2>2. Good([f EXCEPT !.pr = wf.pr])
    BY <1>0, <2>1 DEF Rows, Same
  <2> QED
    BY <2>2 DEF f
<1>7. Good(Paused(Reviewed, "text"))
  BY <1>4, PausedType DEF Same
<1>8. Good(Heard(Reviewed)) /\ Heard(Reviewed).phase = row.phase
  BY <1>0, <1>4, HeardType DEF Same, Alike
<1>9. /\ Good(To(Reviewed, "report")) /\ Good(To(Heard(Reviewed), "report"))
  BY <1>4, <1>8, ToType, PhasesAre DEF Same, PhaseNames, Active
<1> HIDE DEF Good
<1>10. CASE ReviewFails
  BY <1>3, <1>6, <1>10 DEF ReviewFails
<1>11. CASE FixFails
  BY <1>3, <1>5, <1>11 DEF FixFails
<1>12. CASE FixPauses
  BY <1>3, <1>7, <1>12 DEF FixPauses
<1>13. ASSUME NEW passed \in BOOLEAN, ReviewAgain(passed) PROVE TypeInv' /\ Reviews
  BY <1>3, <1>4, <1>8, <1>13 DEF ReviewAgain
<1>14. ASSUME NEW passed \in BOOLEAN, ReviewDone(passed) PROVE TypeInv' /\ Reviews
  BY <1>3, <1>9, <1>14 DEF ReviewDone
<1> QED
  BY <1>10, <1>11, <1>12, <1>13, <1>14

-----------------------------------------------------------------------------
Decides ==
  /\ Ends /\ wf.phase = "wait" /\ Same(row', row)
  /\ row'.phase = "merge" /\ row'.status # "completed"
  /\ agreed' = agreed \cup {row.pr, wf.pr}
  /\ UNCHANGED <<prs, open, merged, jumped, accepted, reopened, renewed, waived>>

Renews ==
  /\ Ends /\ wf.phase = "wait" /\ Same(row', row)
  /\ row'.phase = "planning" /\ row'.status # "completed"
  /\ renewed' = (renewed \/ row.sha # 0)
  /\ UNCHANGED <<prs, open, merged, agreed, jumped, accepted, reopened, waived>>

LEMMA ResumesType ==
  ASSUME row \in Rows, wf \in Rows, NEW phase \in Phases
  PROVE  LET r == [To(row, phase) EXCEPT
                     !.dev = NextDev(wf.dev), !.round = 0, !.feedback = TRUE,
                     !.sha = 0, !.note = "none"]
         IN /\ r \in Rows /\ r.pr = row.pr /\ r.sha = 0 /\ r.verdict = row.verdict
            /\ r.phase = phase /\ r.status # "completed"
<1> DEFINE t == To(row, phase)
           n == NextDev(wf.dev)
<1>1. t \in Rows /\ Same(t, row) /\ t.phase = phase /\ t.status # "completed"
  BY ToType DEF Active
<1>2. n \in 1..MaxRound /\ 0 \in Requests
  BY NextDevType, Caps DEF Rows, Requests
<1> HIDE DEF t, n
<1> DEFINE r == [t EXCEPT !.dev = n, !.round = 0, !.feedback = TRUE, !.sha = 0, !.note = "none"]
<1>3. r \in Rows
  BY <1>1, <1>2 DEF Rows, Notes
<1>4. /\ r.pr = row.pr /\ r.sha = 0 /\ r.verdict = row.verdict
      /\ r.phase = phase /\ r.status # "completed"
  BY <1>1 DEF Same, Rows
<1> QED
  BY <1>3, <1>4 DEF t, n

LEMMA WaitSteps ==
  ASSUME TypeInv, Report \/ WaitResumes \/ WaitMerges \/ NoComment \/ NewRequirement
  PROVE  TypeInv' /\ (Quits \/ Forgets \/ Decides \/ Renews)
<1>0. row \in Rows /\ wf \in Rows /\ MarksOK /\ RestOK /\ pc \in Steps
  BY DEF TypeInv
<1>1. CASE Report
  <2>1. In("report", "enter") /\ Commit(To(row, "wait")) /\ Completes("report") /\ Keep
    BY <1>1 DEF Report
  <2>2. MarksOK'
    BY <1>0, <2>1, CompletesMarks, PhasesAre DEF Worked, PhaseNames
  <2>3. /\ To(row, "wait") \in Rows /\ Same(To(row, "wait"), row)
        /\ To(row, "wait").phase = "wait"
    BY <1>0, ToType, PhasesAre DEF PhaseNames
  <2> QED
    BY <2>1, <2>2, <2>3, QuitsWith DEF In, After
<1>2. CASE WaitResumes
  <2> DEFINE r == [To(row, ResumePhase) EXCEPT
                     !.dev = NextDev(wf.dev), !.round = 0, !.feedback = TRUE,
                     !.sha = 0, !.note = "none"]
  <2>1. /\ In("wait", "enter") /\ Commit(r) /\ UNCHANGED marks
        /\ jumped' = (IF ResumePhase = "merge" THEN jumped \cup {wf.pr} ELSE jumped)
        /\ UNCHANGED <<prs, open, merged, ahead, events, agreed, accepted, reopened, renewed, waived>>
    BY <1>2 DEF WaitResumes
  <2>2. ResumePhase \in Worked /\ ResumePhase \in Phases
    BY <1>0, PhasesAre DEF ResumePhase, MarksOK, Worked, PhaseNames
  <2>3. /\ r \in Rows /\ r.pr = row.pr /\ r.sha = 0 /\ r.verdict = row.verdict
        /\ r.phase = ResumePhase /\ r.status # "completed"
    BY <1>0, <2>2, ResumesType
  <2> HIDE DEF r
  <2>4. row' \in Rows /\ Alike(row', r) /\ pc' = "idle" /\ wf' = NewRow
    BY <2>1, <2>3, CommitAs
  <2>5. wf.pr \in Requests
    BY <1>0 DEF Rows
  <2>6. RestOK'
    BY <1>0, <2>1, <2>5 DEF RestOK
  <2>7. TypeInv'
    BY <1>0, <2>1, <2>4, <2>6, KeepMarks, NewRowType DEF TypeInv, Steps
  <2> QED
    BY <2>1, <2>2, <2>3, <2>4, <2>7 DEF Forgets, Ends, In, Alike, Same
<1>3. CASE WaitMerges
  <2>1. /\ In("wait", "enter") /\ Commit(To(row, "merge")) /\ UNCHANGED marks
        /\ agreed' = agreed \cup {row.pr, wf.pr}
        /\ UNCHANGED <<prs, open, merged, ahead, events, jumped, accepted, reopened, renewed, waived>>
    BY <1>3 DEF WaitMerges
  <2>2. /\ To(row, "merge") \in Rows /\ Same(To(row, "merge"), row)
        /\ To(row, "merge").phase = "merge" /\ To(row, "merge").status # "completed"
    BY <1>0, ToType, PhasesAre DEF PhaseNames, Active
  <2>3. row' \in Rows /\ Alike(row', To(row, "merge")) /\ pc' = "idle" /\ wf' = NewRow
    BY <2>1, <2>2, CommitAs
  <2>4. {row.pr, wf.pr} \subseteq 0..MaxPr + 1
    BY <1>0, Caps DEF Rows, Requests
  <2>5. RestOK'
    BY <1>0, <2>1, <2>4 DEF RestOK
  <2>6. TypeInv'
    BY <1>0, <2>1, <2>3, <2>5, KeepMarks, NewRowType DEF TypeInv, Steps
  <2> QED
    BY <2>1, <2>2, <2>3, <2>6 DEF Decides, Ends, In, Alike, Same
<1>4. CASE NoComment
  <2> DEFINE r == [row EXCEPT !.status = "waiting"]
  <2>1. In("wait", "enter") /\ Commit(r) /\ UNCHANGED marks /\ Keep
    BY <1>4 DEF NoComment, Waits
  <2>2. r \in Rows /\ Same(r, row) /\ r.phase = row.phase /\ r.status = "waiting"
    BY <1>0 DEF Rows, Same, Statuses, Active
  <2> HIDE DEF r
  <2>3. MarksOK' /\ pc # "idle"
    BY <1>0, <2>1, KeepMarks DEF In
  <2> QED
    BY <2>1, <2>2, <2>3, QuitsWith
<1>5. CASE NewRequirement
  <2> DEFINE t == To(row, "planning")
             n == NextDev(wf.dev)
             r == [t EXCEPT !.round = 0, !.dev = n]
  <2>1. /\ In("wait", "enter") /\ Commit(r) /\ asked' = TRUE /\ UNCHANGED <<last, done>>
        /\ renewed' = (renewed \/ row.sha # 0)
        /\ UNCHANGED <<prs, open, merged, ahead, agreed, jumped, accepted, reopened, waived>>
    BY <1>5 DEF NewRequirement, Waits
  <2>2. t \in Rows /\ Same(t, row) /\ t.phase = "planning" /\ t.status # "completed"
    BY <1>0, ToType, PhasesAre DEF PhaseNames, Active
  <2>3. n \in 1..MaxRound
    BY <1>0, NextDevType DEF Rows
  <2> HIDE DEF t, n
  <2>4. r \in Rows /\ Same(r, row) /\ r.phase = "planning" /\ r.status # "completed"
    BY <2>2, <2>3 DEF Rows, Same
  <2> HIDE DEF r
  <2>5. row' \in Rows /\ Alike(row', r) /\ pc' = "idle" /\ wf' = NewRow
    BY <2>1, <2>4, CommitAs
  <2>6. events' \in 0..MaxEvents
    BY <1>0, <1>5, HappensType DEF NewRequirement, RestOK
  <2>7. RestOK'
    BY <1>0, <2>1, <2>6 DEF RestOK
  <2>8. MarksOK'
    BY <1>0, <2>1 DEF MarksOK
  <2>9. TypeInv'
    BY <1>0, <2>5, <2>7, <2>8, NewRowType DEF TypeInv, Steps
  <2> QED
    BY <2>1, <2>4, <2>5, <2>9 DEF Renews, Ends, In, Alike, Same
<1> QED
  BY <1>1, <1>2, <1>3, <1>4, <1>5

-----------------------------------------------------------------------------
Delivers ==
  /\ Ends /\ pc = "merged" /\ wf.phase = "merge" /\ Same(row', row)
  /\ row'.phase = "acceptance" /\ row'.status # "completed" /\ Quiet

LEMMA MergeSteps ==
  ASSUME TypeInv, MergeLater \/ MergeRefused \/ MergePolicy \/ MergeRequest \/ MergeDone
  PROVE  TypeInv' /\ (Quits \/ MergeRequest \/ Delivers)
<1>0. row \in Rows /\ wf \in Rows /\ MarksOK /\ RestOK /\ pc \in Steps
  BY DEF TypeInv
<1>1. CASE MergeLater
  BY <1>0, <1>1, KeepMarks, QuitsWith DEF MergeLater, In, Same
<1>2. CASE MergeRefused
  BY <1>0, <1>2, KeepMarks, FailedType, QuitsWith DEF MergeRefused, In
<1>3. CASE MergePolicy
  <2> DEFINE k == wf.settle + 1
             a == [row EXCEPT !.settle = k]
             p == Paused(row, "policy")
             b == [p EXCEPT !.settle = 0]
  <2>1. (Commit(a) \/ Leave(b)) /\ In("merge", "enter") /\ UNCHANGED marks /\ Keep
    BY <1>3 DEF MergePolicy
  <2>2. k \in Nat
    BY <1>0 DEF Rows
  <2>3. p \in Rows /\ Same(p, row) /\ p.phase = row.phase /\ p.status = "paused"
    BY <1>0, PausedType
  <2> HIDE DEF k, p
  <2>4. a \in Rows /\ Same(a, row) /\ a.phase = row.phase /\ a.status = row.status
    BY <1>0, <2>2 DEF Rows, Same
  <2>5. b \in Rows /\ Same(b, row) /\ b.phase = row.phase /\ b.status = "paused"
    BY <1>0, <2>3 DEF Rows, Same
  <2> HIDE DEF a, b
  <2>6. MarksOK' /\ pc # "idle"
    BY <1>0, <2>1, KeepMarks DEF In
  <2>7. CASE Commit(a)
    BY <2>1, <2>4, <2>6, <2>7, QuitsWith
  <2>8. CASE Leave(b)
    BY <2>1, <2>5, <2>6, <2>8, QuitsWith
  <2> QED
    BY <2>1, <2>7, <2>8
<1>4. CASE MergeRequest
  <2>1. /\ merged' = merged \cup ({wf.pr} \ {0})
        /\ open' = (IF open = wf.pr THEN 0 ELSE open)
        /\ ahead' = (ahead /\ open # wf.pr) /\ pc' = "merged"
        /\ UNCHANGED <<row, wf, prs, events>> /\ UNCHANGED ghosts
        /\ (UNCHANGED marks \/ Completes("merge"))
    BY <1>4 DEF MergeRequest
  <2>2. MarksOK'
    BY <1>0, <2>1, KeepMarks, CompletesMarks, PhasesAre DEF Worked, PhaseNames
  <2>3. wf.pr \in Requests /\ 0 \in Requests
    BY <1>0, Caps DEF Rows, Requests
  <2>4. ahead' \in BOOLEAN
    BY <1>0, <2>1 DEF RestOK
  <2>5. RestOK'
    BY <1>0, <2>1, <2>3, <2>4 DEF RestOK, ghosts
  <2> QED
    BY <1>0, <1>4, <2>1, <2>2, <2>5 DEF TypeInv, Steps
<1>5. CASE MergeDone
  <2> DEFINE r == To(row, "acceptance")
  <2>1. /\ In("merge", "merged") /\ Commit(r) /\ Keep
        /\ (Completes("merge") \/ UNCHANGED marks)
    BY <1>5 DEF MergeDone
  <2>2. r \in Rows /\ Same(r, row) /\ r.phase = "acceptance" /\ r.status # "completed"
    BY <1>0, ToType, PhasesAre DEF PhaseNames, Active
  <2> HIDE DEF r
  <2>3. row' \in Rows /\ Alike(row', r) /\ pc' = "idle" /\ wf' = NewRow
    BY <2>1, <2>2, CommitAs
  <2>4. MarksOK'
    BY <1>0, <2>1, KeepMarks, CompletesMarks, PhasesAre DEF Worked, PhaseNames
  <2>5. TypeInv'
    BY <1>0, <2>1, <2>3, <2>4, KeepRest, NewRowType DEF TypeInv, Steps
  <2> QED
    BY <2>1, <2>2, <2>3, <2>5 DEF Delivers, Ends, In, Alike, Same, Quiet, Keep
<1> QED
  BY <1>1, <1>2, <1>3, <1>4, <1>5

\* The row says confirmed: the workflow is completed without a verifier.
Accepts ==
  /\ Ends /\ pc = "enter" /\ wf.phase = "acceptance" /\ wf.verdict = "confirmed"
  /\ Same(row', row) /\ row'.phase = "acceptance" /\ Quiet

\* The verification is switched off.
Waives ==
  /\ Ends /\ pc = "enter" /\ wf.phase = "acceptance"
  /\ Same(row', row) /\ row'.phase = "acceptance"
  /\ waived' = waived \cup merged
  /\ UNCHANGED <<prs, open, merged, agreed, jumped, accepted, reopened, renewed>>

\* A verdict that does not confirm.
Judges ==
  /\ Ends /\ wf.phase = "acceptance"
  /\ row'.pr = row.pr /\ row'.phase = row.phase /\ row'.verdict # "confirmed"
  /\ row'.sha = row.sha \/ (pc = "agent" /\ row'.sha = wf.sha)
  /\ row'.status = "completed" => row.status = "completed"
  /\ Quiet

Confirms ==
  /\ Ends /\ pc = "agent" /\ wf.phase = "acceptance"
  /\ row'.pr = row.pr /\ row'.sha = wf.sha
  /\ row'.verdict = "confirmed" /\ row'.phase = "acceptance"
  /\ accepted' = accepted \cup {wf.sha}
  /\ UNCHANGED <<prs, open, merged, agreed, jumped, reopened, renewed, waived>>

LEMMA VerifiedType ==
  ASSUME row \in Rows, wf \in Rows, NEW verdict \in Verdicts, NEW infra \in Nat,
         NEW parse \in BOOLEAN
  PROVE  LET r == Verified(verdict, infra, parse) IN
         /\ r \in Rows /\ r.pr = row.pr /\ r.sha = wf.sha /\ r.verdict = verdict
         /\ r.phase = row.phase /\ r.status = row.status
<1> DEFINE report == [sha |-> wf.sha, infra |-> infra, parse |-> parse]
           n == wf.sha
<1>1. report \in [sha : Requests, infra : Nat, parse : BOOLEAN] /\ n \in Requests
  BY DEF Rows
<1>2. Verified(verdict, infra, parse) =
        [row EXCEPT !.verdict = verdict, !.sha = n, !.report = report]
  BY DEF Verified
<1> HIDE DEF report, n
<1>3. LET r == [row EXCEPT !.verdict = verdict, !.sha = n, !.report = report] IN
      /\ r \in Rows /\ r.pr = row.pr /\ r.sha = n /\ r.verdict = verdict
      /\ r.phase = row.phase /\ r.status = row.status
  BY <1>1 DEF Rows
<1> QED
  BY <1>2, <1>3 DEF n

LEMMA AcceptanceSteps ==
  ASSUME TypeInv,
         \/ AcceptConfirmed \/ AcceptUnverified \/ AcceptLater \/ AcceptReplayed
         \/ EnterAcceptance
         \/ \E parse \in BOOLEAN : VerifierFails(parse)
         \/ \E verdict \in {"rejected", "indeterminate"} : VerifierDoubts(verdict)
         \/ VerifierConfirms
  PROVE  TypeInv' /\ (Quits \/ Accepts \/ Waives \/ Judges \/ EnterAcceptance \/ Confirms)
<1>0. row \in Rows /\ wf \in Rows /\ MarksOK /\ RestOK /\ pc \in Steps
  BY DEF TypeInv
<1>1. CASE AcceptConfirmed
  <2> DEFINE r == [row EXCEPT !.phase = "acceptance", !.status = "completed"]
  <2>1. /\ In("acceptance", "enter") /\ wf.verdict = "confirmed" /\ Commit(r)
        /\ UNCHANGED marks /\ Keep
    BY <1>1 DEF AcceptConfirmed
  <2>a. "acceptance" \in Phases /\ "completed" \in Statuses
    BY PhasesAre DEF Statuses, PhaseNames
  <2>2. r \in Rows /\ Same(r, row) /\ r.phase = "acceptance"
    BY <1>0, <2>a DEF Rows, Same
  <2> HIDE DEF r
  <2>3. row' \in Rows /\ Alike(row', r) /\ pc' = "idle" /\ wf' = NewRow
    BY <2>1, <2>2, CommitAs
  <2>4. TypeInv'
    BY <1>0, <2>1, <2>3, KeepMarks, KeepRest, NewRowType DEF TypeInv, Steps
  <2> QED
    BY <2>1, <2>2, <2>3, <2>4 DEF Accepts, Ends, In, Alike, Same, Quiet, Keep
<1>9. CASE AcceptUnverified
  <2> DEFINE r == [row EXCEPT !.phase = "acceptance", !.status = "completed"]
  <2>1. /\ In("acceptance", "enter") /\ Commit(r) /\ UNCHANGED marks
        /\ waived' = waived \cup merged
        /\ UNCHANGED <<prs, open, merged, ahead, agreed, jumped, accepted, reopened, renewed>>
    BY <1>9 DEF AcceptUnverified
  <2>a. "acceptance" \in Phases /\ "completed" \in Statuses
    BY PhasesAre DEF Statuses, PhaseNames
  <2>2. r \in Rows /\ Same(r, row) /\ r.phase = "acceptance"
    BY <1>0, <2>a DEF Rows, Same
  <2> HIDE DEF r
  <2>3. row' \in Rows /\ Alike(row', r) /\ pc' = "idle" /\ wf' = NewRow
    BY <2>1, <2>2, CommitAs
  <2>4. events' \in 0..MaxEvents
    BY <1>0, <1>9, HappensType DEF AcceptUnverified, RestOK
  <2>5. RestOK'
    BY <1>0, <2>1, <2>4 DEF RestOK
  <2>6. TypeInv'
    BY <1>0, <2>1, <2>3, <2>5, KeepMarks, NewRowType DEF TypeInv, Steps
  <2> QED
    BY <2>1, <2>2, <2>3, <2>6 DEF Waives, Ends, In, Alike, Same
<1>2. CASE AcceptLater
  <2>1. /\ In("acceptance", "enter") /\ Commit(row) /\ UNCHANGED marks
        /\ UNCHANGED <<prs, open, merged, ahead>> /\ UNCHANGED ghosts
    BY <1>2 DEF AcceptLater
  <2>2. events' \in 0..MaxEvents
    BY <1>0, <1>2, HappensType DEF AcceptLater, RestOK
  <2>3. row' \in Rows /\ Alike(row', row) /\ pc' = "idle" /\ wf' = NewRow
    BY <1>0, <2>1, CommitAs
  <2>4. RestOK'
    BY <1>0, <2>1, <2>2 DEF RestOK, ghosts
  <2>5. TypeInv'
    BY <1>0, <2>1, <2>3, <2>4, KeepMarks, NewRowType DEF TypeInv, Steps
  <2> QED
    BY <2>1, <2>3, <2>5 DEF Quits, Ends, In, Alike, Same, Unfinished, Quiet, ghosts
<1>3. ASSUME NEW r \in Rows, Commit(r) \/ Leave(r), UNCHANGED marks, Keep,
             wf.phase = "acceptance", pc # "idle",
             r.pr = row.pr, r.phase = row.phase, r.verdict # "confirmed",
             r.sha = row.sha \/ (pc = "agent" /\ r.sha = wf.sha),
             r.status = "completed" => row.status = "completed"
      PROVE  TypeInv' /\ Judges
  <2>1. row' \in Rows /\ Alike(row', r) /\ pc' = "idle" /\ wf' = NewRow
    BY <1>3, CommitAs, LeaveAs
  <2>2. TypeInv'
    BY <1>0, <1>3, <2>1, KeepMarks, KeepRest, NewRowType DEF TypeInv, Steps
  <2> QED
    BY <1>3, <2>1, <2>2 DEF Judges, Ends, Alike, Same, Quiet, Keep
<1>4. CASE AcceptReplayed
  <2> DEFINE p == Paused(row, "text")
             v == wf.verdict
             r == [p EXCEPT !.verdict = v]
  <2>1. /\ In("acceptance", "enter") /\ v # "confirmed" /\ Leave(r) /\ UNCHANGED marks /\ Keep
    BY <1>4 DEF AcceptReplayed
  <2>2. p \in Rows /\ Same(p, row) /\ p.phase = row.phase /\ p.status = "paused"
    BY <1>0, PausedType
  <2>3. v \in Verdicts
    BY <1>0 DEF Rows
  <2> HIDE DEF p, v
  <2>4. /\ r \in Rows /\ r.pr = row.pr /\ r.sha = row.sha /\ r.verdict = v
        /\ r.phase = row.phase /\ r.status = "paused"
    BY <2>2, <2>3 DEF Rows, Same
  <2> HIDE DEF r
  <2>5. wf.phase = "acceptance" /\ pc # "idle"
    BY <2>1 DEF In
  <2>6. r.verdict # "confirmed" /\ r.status # "completed"
    BY <2>1, <2>4
  <2> QED
    BY <1>3, <2>1, <2>4, <2>5, <2>6
<1>5. CASE EnterAcceptance
  <2>1. /\ pc = "enter" /\ pc' = "agent" /\ wf' = [wf EXCEPT !.sha = MergeSha]
        /\ UNCHANGED row /\ UNCHANGED marks /\ Keep
    BY <1>5 DEF EnterAcceptance, In
  <2>2. MergeSha \in Requests
    BY <1>0, Caps DEF MergeSha, Rows, Requests
  <2>3. wf' \in Rows
    BY <1>0, <2>1, <2>2 DEF Rows
  <2> QED
    BY <1>0, <1>5, <2>1, <2>3, KeepMarks, KeepRest DEF TypeInv, Steps
<1>6. ASSUME NEW parse \in BOOLEAN, VerifierFails(parse) PROVE TypeInv' /\ Judges
  <2> DEFINE v == Verified("indeterminate", PriorInfra + 1, parse)
             q == [v EXCEPT !.note = "text"]
  <2>1. In("acceptance", "agent") /\ UNCHANGED marks /\ Keep
        /\ (Commit(q) \/ Leave(Paused(v, "text")))
    BY <1>6 DEF VerifierFails
  <2>2. PriorInfra + 1 \in Nat
    BY <1>0 DEF PriorInfra, Rows
  <2>3. "indeterminate" \in Verdicts
    BY DEF Verdicts
  <2>4. /\ v \in Rows /\ v.pr = row.pr /\ v.sha = wf.sha /\ v.verdict = "indeterminate"
        /\ v.phase = row.phase /\ v.status = row.status
    BY <1>0, <2>2, <2>3, VerifiedType
  <2> HIDE DEF v
  <2>5. /\ q \in Rows /\ q.pr = row.pr /\ q.sha = wf.sha /\ q.verdict = "indeterminate"
        /\ q.phase = row.phase /\ q.status = row.status
    BY <2>4 DEF Rows, Notes
  <2>6. /\ Paused(v, "text") \in Rows /\ Same(Paused(v, "text"), v)
        /\ Paused(v, "text").phase = row.phase /\ Paused(v, "text").status = "paused"
    BY <2>4, PausedType
  <2> DEFINE p == Paused(v, "text")
  <2>7. /\ p \in Rows /\ p.pr = row.pr /\ p.sha = wf.sha /\ p.verdict = "indeterminate"
        /\ p.phase = row.phase /\ p.status = "paused"
    BY <2>4, <2>6 DEF Same
  <2>8. Commit(q) \/ Leave(p)
    BY <2>1
  <2> HIDE DEF p, q
  <2>9. wf.phase = "acceptance" /\ pc = "agent"
    BY <2>1 DEF In
  <2>10. CASE Commit(q)
    BY <1>3, <2>1, <2>5, <2>9, <2>10
  <2>11. CASE Leave(p)
    BY <1>3, <2>1, <2>7, <2>9, <2>11
  <2> QED
    BY <2>8, <2>10, <2>11
<1>7. ASSUME NEW verdict \in {"rejected", "indeterminate"}, VerifierDoubts(verdict)
      PROVE  TypeInv' /\ Judges
  <2> DEFINE v == Verified(verdict, 0, FALSE)
             p == Paused(v, "text")
  <2>1. In("acceptance", "agent") /\ UNCHANGED marks /\ Keep /\ Leave(p)
    BY <1>7 DEF VerifierDoubts
  <2>2. verdict \in Verdicts
    BY DEF Verdicts
  <2>3. /\ v \in Rows /\ v.pr = row.pr /\ v.sha = wf.sha /\ v.verdict = verdict
        /\ v.phase = row.phase /\ v.status = row.status
    BY <1>0, <2>2, VerifiedType
  <2> HIDE DEF v
  <2>4. p \in Rows /\ Same(p, v) /\ p.phase = row.phase /\ p.status = "paused"
    BY <2>3, PausedType
  <2> HIDE DEF p
  <2>5. wf.phase = "acceptance" /\ pc = "agent"
    BY <2>1 DEF In
  <2>6. p.pr = row.pr /\ p.sha = wf.sha /\ p.verdict # "confirmed" /\ p.status # "completed"
    BY <2>3, <2>4 DEF Same
  <2> QED
    BY <1>3, <2>1, <2>4, <2>5, <2>6
<1>8. CASE VerifierConfirms
  <2> DEFINE v == Verified("confirmed", 0, FALSE)
             c == Completed(v, "acceptance")
  <2>1. /\ In("acceptance", "agent") /\ Commit(c) /\ UNCHANGED marks
        /\ accepted' = accepted \cup {wf.sha}
        /\ UNCHANGED <<prs, open, merged, ahead, events, agreed, jumped, reopened, renewed, waived>>
    BY <1>8 DEF VerifierConfirms
  <2>2. "confirmed" \in Verdicts
    BY DEF Verdicts
  <2>3. /\ v \in Rows /\ v.pr = row.pr /\ v.sha = wf.sha /\ v.verdict = "confirmed"
    BY <1>0, <2>2, VerifiedType
  <2> HIDE DEF v
  <2>4. c \in Rows /\ Same(c, v) /\ c.phase = "acceptance"
    BY <2>3, CompletedType, PhasesAre DEF PhaseNames
  <2> HIDE DEF c
  <2>5. row' \in Rows /\ Alike(row', c) /\ pc' = "idle" /\ wf' = NewRow
    BY <2>1, <2>4, CommitAs
  <2>6. wf.sha \in Requests
    BY <1>0 DEF Rows
  <2>7. RestOK'
    BY <1>0, <2>1, <2>6 DEF RestOK
  <2>8. TypeInv'
    BY <1>0, <2>1, <2>5, <2>7, KeepMarks, NewRowType DEF TypeInv, Steps
  <2> QED
    BY <2>1, <2>3, <2>4, <2>5, <2>8 DEF Confirms, Ends, In, Alike, Same
<1> QED
  BY <1>1, <1>2, <1>4, <1>5, <1>6, <1>7, <1>8, <1>9

-----------------------------------------------------------------------------
Begins ==
  /\ pc = "idle" /\ row.status # "completed" /\ row' = row /\ pc' = "enter" /\ wf' = row
  /\ Quiet

LEMMA BeginStep == ASSUME TypeInv, Begin PROVE TypeInv' /\ Begins
<1>1. /\ pc = "idle" /\ row.status \in Active /\ pc' = "enter" /\ wf' = row
      /\ UNCHANGED row /\ UNCHANGED marks /\ Keep
  BY DEF Begin
<1>2. TypeInv'
  BY <1>1, KeepMarks, KeepRest DEF TypeInv, Steps
<1> QED
  BY <1>1, <1>2 DEF Begins, Quiet, Keep, Active

\* An operator changes nothing but the status and counters.
Nudges ==
  /\ UNCHANGED <<pc, wf>> /\ Same(row', row) /\ row'.phase = row.phase
  /\ row'.status # "completed" /\ Quiet

\* An operator wants the merge.
Orders ==
  /\ UNCHANGED <<pc, wf>> /\ Same(row', row) /\ row'.phase = "merge"
  /\ row'.status # "completed"
  /\ agreed' = agreed \cup {row.pr, wf.pr, open}
                      \cup (IF pc = "enter" THEN {prs + 1} ELSE {})
  /\ reopened' = (reopened \/ row.verdict = "confirmed")
  /\ UNCHANGED <<prs, open, merged, jumped, accepted, renewed, waived>>

\* An operator sends the workflow back to wait.
SendsBack ==
  /\ UNCHANGED <<pc, wf>> /\ row'.pr = row.pr /\ row'.verdict = row.verdict
  /\ row'.sha \in {0, row.sha} /\ row'.phase = "wait" /\ row'.status # "completed"
  /\ reopened' = (reopened \/ row.verdict = "confirmed")
  /\ UNCHANGED <<prs, open, merged, agreed, jumped, accepted, renewed, waived>>

Overrides ==
  /\ UNCHANGED <<pc, wf>> /\ row.phase = "acceptance" /\ row'.phase = "acceptance"
  /\ row'.pr = row.pr /\ row'.sha = row.sha /\ row'.verdict = "confirmed"
  /\ accepted' = accepted \cup {IF row.sha # 0 THEN row.sha ELSE row.pr}
  /\ UNCHANGED <<prs, open, merged, agreed, jumped, reopened, renewed, waived>>

Dies == pc # "idle" /\ pc' = "idle" /\ wf' = NewRow /\ row' = row /\ Quiet

LEMMA StatusSteps ==
  ASSUME TypeInv, Pause \/ Resume \/ Stop \/ ExtendPlanningTimeout \/ Retry
  PROVE  TypeInv' /\ Nudges
<1>0. row \in Rows /\ wf \in Rows /\ MarksOK /\ RestOK /\ pc \in Steps
  BY DEF TypeInv
<1>1. /\ UNCHANGED <<pc, wf>> /\ UNCHANGED github /\ UNCHANGED marks /\ UNCHANGED ghosts
      /\ events' \in 0..MaxEvents
  BY <1>0, HappensType
  DEF Pause, Resume, Stop, ExtendPlanningTimeout, Retry, Writes, RestOK
<1> DEFINE s == StatusOf(row.phase)
<1>2. s \in Statuses /\ s # "completed"
  BY StatusOfType DEF Statuses, Active
<1> HIDE DEF s
<1>3. row' \in Rows /\ Same(row', row) /\ row'.phase = row.phase /\ row'.status # "completed"
  <2>1. CASE Pause
    <3>1. row' = [row EXCEPT !.status = "paused"]
      BY <2>1 DEF Pause, Writes
    <3> QED
      BY <1>0, <3>1 DEF Rows, Same, Statuses
  <2>2. CASE Resume
    <3> DEFINE n == IF row.note = "policy" THEN "none" ELSE row.note
    <3>1. row' = [row EXCEPT !.status = s, !.note = n]
      BY <1>0, <2>2 DEF Resume, Writes, s, Rows
    <3>2. n \in Notes
      BY <1>0 DEF Rows, Notes
    <3> HIDE DEF n
    <3> QED
      BY <1>0, <1>2, <3>1, <3>2 DEF Rows, Same
  <2>3. CASE Stop
    <3>1. row' = [row EXCEPT !.status = "cancelled"]
      BY <2>3 DEF Stop, Writes
    <3> QED
      BY <1>0, <3>1 DEF Rows, Same, Statuses
  <2>4. CASE ExtendPlanningTimeout
    <3>1. row' = [row EXCEPT !.status = s, !.note = "none"]
      BY <2>4 DEF ExtendPlanningTimeout, Writes, s
    <3> QED
      BY <1>0, <1>2, <3>1 DEF Rows, Same, Notes
  <2>5. CASE Retry
    <3> DEFINE k == row.retries + 1
    <3>1. row' = [row EXCEPT !.status = s, !.note = "none",
                        !.retries = k, !.attempts = 0, !.api = 0, !.same = 0,
                        !.diag = 0, !.escalated = 0, !.settle = 0]
      BY <1>0, <2>5 DEF Retry, Writes, s, Rows
    <3>2. k \in Nat
      BY <1>0 DEF Rows
    <3> HIDE DEF k
    <3> QED
      BY <1>0, <1>2, <3>1, <3>2 DEF Rows, Same, Notes
  <2> QED
    BY <2>1, <2>2, <2>3, <2>4, <2>5
<1>4. RestOK'
  BY <1>0, <1>1 DEF RestOK, github, ghosts
<1>5. TypeInv'
  BY <1>0, <1>1, <1>3, <1>4, KeepMarks DEF TypeInv
<1> QED
  BY <1>1, <1>3, <1>5 DEF Nudges, Quiet, github, ghosts

LEMMA OperatorSteps ==
  ASSUME TypeInv,
         \/ MarkDone \/ ResumeWithFeedback \/ Override \/ Kill
         \/ \E feedback \in BOOLEAN : CancelMilestone(feedback)
  PROVE  TypeInv' /\ (Orders \/ SendsBack \/ Overrides \/ Dies)
<1>0. row \in Rows /\ wf \in Rows /\ MarksOK /\ RestOK /\ pc \in Steps
  BY DEF TypeInv
<1>1. CASE MarkDone
  <2>1. /\ row' = To(row, "merge") /\ UNCHANGED <<pc, wf>> /\ UNCHANGED github
        /\ agreed' = agreed \cup {row.pr, wf.pr, open}
                      \cup (IF pc = "enter" THEN {prs + 1} ELSE {})
        /\ reopened' = (reopened \/ row.verdict = "confirmed")
        /\ UNCHANGED marks /\ UNCHANGED <<jumped, accepted, renewed, waived>>
        /\ events' \in 0..MaxEvents
    BY <1>0, <1>1, HappensType DEF MarkDone, Writes, RestOK
  <2>2. row' \in Rows /\ Same(row', row) /\ row'.phase = "merge" /\ row'.status # "completed"
    BY <1>0, <2>1, ToType, PhasesAre DEF PhaseNames, Active
  <2>3. {row.pr, wf.pr, open, prs + 1} \subseteq 0..MaxPr + 1
    BY <1>0, Caps DEF Rows, Requests, RestOK
  <2>4. agreed' \subseteq 0..MaxPr + 1 /\ reopened' \in BOOLEAN
    BY <1>0, <2>1, <2>3 DEF RestOK
  <2>5. RestOK'
    BY <1>0, <2>1, <2>4 DEF RestOK, github
  <2>6. TypeInv'
    BY <1>0, <2>1, <2>2, <2>5, KeepMarks DEF TypeInv
  <2> QED
    BY <2>1, <2>2, <2>6 DEF Orders, github
<1>2. CASE ResumeWithFeedback
  <2> DEFINE t == To(row, "wait")
             r == [t EXCEPT !.feedback = TRUE, !.sha = 0, !.note = "none"]
  <2>1. /\ row' = r /\ UNCHANGED <<pc, wf>> /\ UNCHANGED github
        /\ reopened' = (reopened \/ row.verdict = "confirmed")
        /\ UNCHANGED marks /\ UNCHANGED <<agreed, jumped, accepted, renewed, waived>>
        /\ events' \in 0..MaxEvents
    BY <1>0, <1>2, HappensType DEF ResumeWithFeedback, Writes, RestOK
  <2>2. t \in Rows /\ Same(t, row) /\ t.phase = "wait" /\ t.status # "completed"
    BY <1>0, ToType, PhasesAre DEF PhaseNames, Active
  <2>3. 0 \in Requests
    BY Caps DEF Requests
  <2> HIDE DEF t
  <2>4. /\ r \in Rows /\ r.pr = row.pr /\ r.verdict = row.verdict /\ r.sha = 0
        /\ r.phase = "wait" /\ r.status # "completed"
    BY <2>2, <2>3 DEF Rows, Same, Notes
  <2> HIDE DEF r
  <2>5. RestOK'
    BY <1>0, <2>1 DEF RestOK, github
  <2>6. TypeInv'
    BY <1>0, <2>1, <2>4, <2>5, KeepMarks DEF TypeInv
  <2> QED
    BY <2>1, <2>4, <2>6 DEF SendsBack, github
<1>3. CASE Override
  <2> DEFINE c == Completed(row, "acceptance")
             report == [NoReport EXCEPT !.sha = row.sha]
             r == [c EXCEPT !.verdict = "confirmed", !.report = report]
  <2>1. /\ row' = r /\ UNCHANGED <<pc, wf>> /\ UNCHANGED github /\ row.phase = "acceptance"
        /\ accepted' = accepted \cup {IF row.sha # 0 THEN row.sha ELSE row.pr}
        /\ UNCHANGED marks /\ UNCHANGED <<agreed, jumped, reopened, renewed, waived>>
        /\ events' \in 0..MaxEvents
    BY <1>0, <1>3, HappensType DEF Override, Writes, RestOK
  <2>2. c \in Rows /\ Same(c, row) /\ c.phase = "acceptance"
    BY <1>0, CompletedType, PhasesAre DEF PhaseNames
  <2>3. report \in [sha : Requests, infra : Nat, parse : BOOLEAN]
    BY <1>0 DEF NoReport, Rows
  <2> HIDE DEF c, report
  <2>4. /\ r \in Rows /\ r.pr = row.pr /\ r.sha = row.sha /\ r.verdict = "confirmed"
        /\ r.phase = "acceptance"
    BY <2>2, <2>3 DEF Rows, Same, Verdicts
  <2> HIDE DEF r
  <2>5. row.sha \in Requests /\ row.pr \in Requests
    BY <1>0 DEF Rows
  <2>6. RestOK'
    BY <1>0, <2>1, <2>5 DEF RestOK, github
  <2>7. TypeInv'
    BY <1>0, <2>1, <2>4, <2>6, KeepMarks DEF TypeInv
  <2> QED
    BY <2>1, <2>4, <2>7 DEF Overrides, github
<1>4. CASE Kill
  <2>1. /\ pc # "idle" /\ pc' = "idle" /\ wf' = NewRow /\ UNCHANGED row /\ UNCHANGED marks
        /\ UNCHANGED github /\ UNCHANGED ghosts /\ events' \in 0..MaxEvents
    BY <1>0, <1>4, HappensType DEF Kill, RestOK
  <2>2. RestOK'
    BY <1>0, <2>1 DEF RestOK, github, ghosts
  <2>3. TypeInv'
    BY <1>0, <2>1, <2>2, KeepMarks, NewRowType DEF TypeInv, Steps
  <2> QED
    BY <2>1, <2>3 DEF Dies, Quiet, github, ghosts
<1>5. ASSUME NEW feedback \in BOOLEAN, CancelMilestone(feedback) PROVE TypeInv' /\ SendsBack
  <2> DEFINE t == To(row, "wait")
             r == [t EXCEPT !.feedback = feedback]
  <2>1. /\ row' = r /\ UNCHANGED <<pc, wf>> /\ UNCHANGED github
        /\ reopened' = (reopened \/ row.verdict = "confirmed")
        /\ asked' = TRUE /\ UNCHANGED <<agreed, jumped, accepted, renewed, waived>>
        /\ events' \in 0..MaxEvents
    BY <1>0, <1>5, HappensType DEF CancelMilestone, Writes, RestOK
  <2>2. PICK kept \in SUBSET done :
          done' = kept /\ ((kept = {} /\ last' = "none") \/ last' \in kept)
    BY <1>5 DEF CancelMilestone
  <2>3. MarksOK'
    BY <1>0, <2>1, <2>2 DEF MarksOK
  <2>4. t \in Rows /\ Same(t, row) /\ t.phase = "wait" /\ t.status # "completed"
    BY <1>0, ToType, PhasesAre DEF PhaseNames, Active
  <2> HIDE DEF t
  <2>5. r \in Rows /\ Same(r, row) /\ r.phase = "wait" /\ r.status # "completed"
    BY <2>4 DEF Rows, Same
  <2> HIDE DEF r
  <2>6. RestOK'
    BY <1>0, <2>1 DEF RestOK, github
  <2>7. TypeInv'
    BY <1>0, <2>1, <2>3, <2>5, <2>6 DEF TypeInv
  <2> QED
    BY <2>1, <2>5, <2>7 DEF SendsBack, Same, github
<1> QED
  BY <1>1, <1>2, <1>3, <1>4, <1>5

-----------------------------------------------------------------------------
\* A review takes a request; the worker goes on to the agent or, when a repair
\* was deferred, leaves for the report.
StartsReview(number) ==
  /\ Takes(number)
  /\ \/ row' = row /\ pc' = "agent" /\ wf' = [wf EXCEPT !.pr = number]
     \/ /\ Ends /\ Same(row', row) /\ row'.phase = "report"
        /\ row'.status # "completed"

\* All that a step may do to what the safety properties are about.
Outcome ==
  \/ Begins \/ Quits \/ Works \/ Forgets
  \/ \E number \in Requests : StartsReview(number)
  \/ TurnsBack \/ RunsRepair \/ Repaired \/ Reviews
  \/ Decides \/ Renews \/ MergeRequest \/ Delivers
  \/ Accepts \/ Waives \/ Judges \/ EnterAcceptance \/ Confirms
  \/ Nudges \/ Orders \/ SendsBack \/ Overrides \/ Dies

LEMMA AdvanceSteps == ASSUME TypeInv, Advance PROVE TypeInv' /\ Outcome
<1>1. CASE Begin
  BY <1>1, BeginStep DEF Outcome
<1>2. CASE NetError \/ Error \/ QuotaPause \/ NoHandler
  BY <1>2, Interruptions DEF Outcome
<1>3. CASE \/ Prepare \/ EnterPlanning
           \/ \E status \in {"failed", "timeout"} : PlanFails(status)
           \/ \E objects \in BOOLEAN : Plan(objects)
  BY <1>3, PlanningSteps DEF Outcome
<1>4. CASE \/ EnterDevelopment \/ DevelopmentFails \/ Develop
           \/ \E evidence \in BOOLEAN : TestInconclusive(evidence)
           \/ TestSkipped \/ TestUnfixable \/ TestPassed
  BY <1>4, DevelopmentSteps DEF Outcome
<1>5. CASE Repair
  BY <1>5, RepairEnds DEF Outcome
<1>6. CASE NothingToReview \/ CompareFails \/ ReviewRefused
  BY <1>6, ReviewSkipped DEF Outcome
<1>7. CASE RepairDeferred \/ MergeRepairs \/ \E passed \in BOOLEAN : ReviewRepairs(passed)
  BY <1>7, RepairCalls DEF Outcome
<1>8. ASSUME NEW number \in Requests, ReviewStarts(number) \/ ReviewDeferred(number)
      PROVE  TypeInv' /\ Outcome
  BY <1>8, ReviewBegins DEF Outcome, StartsReview
<1>9. CASE \/ ReviewFails \/ FixFails \/ FixPauses
           \/ \E passed \in BOOLEAN : ReviewAgain(passed) \/ ReviewDone(passed)
  BY <1>9, ReviewEnds DEF Outcome
<1>10. CASE Report \/ WaitResumes \/ WaitMerges \/ NoComment
  BY <1>10, WaitSteps DEF Outcome
<1>11. CASE MergeLater \/ MergeRefused \/ MergePolicy \/ MergeRequest \/ MergeDone
  BY <1>11, MergeSteps DEF Outcome
<1>12. CASE \/ AcceptConfirmed \/ AcceptUnverified \/ AcceptLater \/ AcceptReplayed
            \/ EnterAcceptance
            \/ \E parse \in BOOLEAN : VerifierFails(parse)
            \/ \E verdict \in {"rejected", "indeterminate"} : VerifierDoubts(verdict)
            \/ VerifierConfirms
  BY <1>12, AcceptanceSteps DEF Outcome
<1> QED
  BY <1>1, <1>2, <1>3, <1>4, <1>5, <1>6, <1>7, <1>8, <1>9, <1>10, <1>11, <1>12 DEF Advance

LEMMA NextSteps == ASSUME TypeInv, Next PROVE TypeInv' /\ Outcome
<1>1. CASE Advance
  BY <1>1, AdvanceSteps
<1>2. CASE NewRequirement
  BY <1>2, WaitSteps DEF Outcome
<1>3. CASE Pause \/ Resume \/ Stop \/ ExtendPlanningTimeout \/ Retry
  BY <1>3, StatusSteps DEF Outcome
<1>4. CASE \/ MarkDone \/ ResumeWithFeedback \/ Override \/ Kill
           \/ \E feedback \in BOOLEAN : CancelMilestone(feedback)
  BY <1>4, OperatorSteps DEF Outcome
<1> QED
  BY <1>1, <1>2, <1>3, <1>4 DEF Next, Operators

LEMMA InitTypes == Init => TypeInv
<1> SUFFICES ASSUME Init PROVE TypeInv
  OBVIOUS
<1>1. row \in Rows /\ wf \in Rows
  BY NewRowType DEF Init
<1>2. MarksOK /\ pc \in Steps
  BY DEF Init, MarksOK, Steps
<1>3. /\ prs \in Requests /\ open \in Requests /\ events \in 0..MaxEvents
      /\ merged \subseteq Requests /\ agreed \subseteq 0..MaxPr + 1
      /\ jumped \subseteq Requests /\ accepted \subseteq Requests
  BY Caps DEF Init, Requests
<1>4. ahead \in BOOLEAN /\ reopened \in BOOLEAN /\ renewed \in BOOLEAN /\ waived \subseteq Requests
  BY DEF Init
<1> QED
  BY <1>1, <1>2, <1>3, <1>4 DEF TypeInv, RestOK

LEMMA StutterTypes == ASSUME TypeInv, UNCHANGED vars PROVE TypeInv'
BY DEF TypeInv, MarksOK, RestOK, vars

LEMMA TypeInvHolds == Spec => []TypeInv
<1>1. TypeInv /\ [Next]_vars => TypeInv'
  BY NextSteps, StutterTypes
<1> QED
  BY <1>1, InitTypes, PTL DEF Spec

\* The row keeps its columns' types, whatever a worker writes over it, and
\* requests their numbers.
THEOREM TypeCorrect == Spec => []TypeOK
<1>1. TypeInv => TypeOK
  BY DEF TypeInv, TypeOK, MarksOK, RestOK, Worked
<1> QED
  BY <1>1, TypeInvHolds, PTL

-----------------------------------------------------------------------------
Requested ==
  /\ row.pr <= prs /\ open \in 0..prs
  /\ merged \subseteq 1..row.pr
  /\ 1..prs \subseteq merged \cup {open}

InHand ==
  pc # "idle" =>
    /\ row.pr <= wf.pr /\ wf.pr <= prs
    /\ row.pr \in {0, wf.pr} \cup merged
    /\ pc = "enter" \/ wf.phase # "pr_review" => row.pr = wf.pr
    /\ pc = "merged" => wf.phase = "merge" /\ wf.pr \in {0} \cup merged
    /\ pc = "repair" => wf.phase \in {"pr_review", "merge"}

RequestInv == TypeInv /\ Requested /\ InHand

LEMMA Fields ==
  ASSUME TypeInv
  PROVE  /\ prs \in Nat /\ open \in Nat /\ row.pr \in Nat /\ wf.pr \in Nat
         /\ row.sha \in Nat /\ wf.sha \in Nat
         /\ reopened \in BOOLEAN /\ renewed \in BOOLEAN /\ waived \subseteq Requests
         /\ merged \subseteq Nat
BY Caps DEF TypeInv, RestOK, Rows, Requests

LEMMA NewRowIs ==
  /\ NewRow.phase = "preparation" /\ NewRow.pr = 0 /\ NewRow.sha = 0
  /\ NewRow.verdict = "none"
BY DEF NewRow

LEMMA NewWf == ASSUME TypeInv, wf' = NewRow PROVE wf'.phase = "preparation" /\ wf'.pr = 0 /\ wf'.sha = 0
BY NewRowIs

\* The worker leaves and nothing happens to the requests.
LEMMA RequestsLeft ==
  ASSUME RequestInv, Ends, row'.pr \in {row.pr, wf.pr}, UNCHANGED <<prs, open, merged>>
  PROVE  Requested' /\ InHand'
BY Fields DEF RequestInv, Requested, InHand, Ends

\* Nothing happens to the worker or the requests.
LEMMA RequestsKept ==
  ASSUME RequestInv, UNCHANGED <<pc, wf, prs, open, merged>>, row'.pr = row.pr
  PROVE  Requested' /\ InHand'
BY DEF RequestInv, Requested, InHand

LEMMA RequestSteps == ASSUME RequestInv, Outcome PROVE Requested' /\ InHand'
<1>0. TypeInv /\ Requested /\ InHand
  BY DEF RequestInv
<1>1. CASE Begins
  BY <1>0, <1>1, Fields DEF Begins, Requested, InHand, Quiet
<1>2. CASE Quits \/ Forgets \/ Decides \/ Renews \/ Delivers
           \/ Accepts \/ Waives \/ Judges \/ Confirms
  BY <1>2, RequestsLeft
  DEF Quits, Forgets, Decides, Renews, Delivers, Accepts, Waives, Judges, Confirms, Same, Quiet
<1>3. CASE TurnsBack \/ Repaired \/ Reviews
  BY <1>3, RequestsLeft DEF TurnsBack, Repaired, Reviews, BackPr, Quiet
<1>4. CASE Nudges \/ Orders \/ SendsBack \/ Overrides
  BY <1>4, RequestsKept DEF Nudges, Orders, SendsBack, Overrides, Same, Quiet
<1>5. CASE Dies
  BY <1>0, <1>5 DEF Dies, Requested, InHand, Quiet
<1>6. CASE Works
  BY <1>0, <1>6, Fields DEF Works, Alike, Same, Requested, InHand, Quiet
<1>7. CASE RunsRepair
  BY <1>0, <1>7, Fields DEF RunsRepair, Same, Requested, InHand
<1>8. CASE EnterAcceptance
  <2>1. /\ wf' = [wf EXCEPT !.sha = MergeSha] /\ row' = row /\ pc = "enter" /\ pc' = "agent"
        /\ wf.phase = "acceptance" /\ UNCHANGED <<prs, open, merged>>
    BY <1>8 DEF EnterAcceptance, In, Keep
  <2>2. wf'.pr = wf.pr /\ wf'.phase = wf.phase
    BY <1>0, <2>1 DEF TypeInv, Rows
  <2> QED
    BY <1>0, <2>1, <2>2, Fields DEF Requested, InHand
<1>9. CASE MergeRequest
  <2>1. /\ pc = "enter" /\ wf.phase = "merge" /\ row.pr = wf.pr
        /\ merged' = merged \cup ({wf.pr} \ {0})
        /\ open' = (IF open = wf.pr THEN 0 ELSE open)
        /\ pc' = "merged" /\ UNCHANGED <<row, wf, prs>>
    BY <1>0, <1>9 DEF MergeRequest, In, InHand
  <2>2. Requested'
    <3>1. row'.pr <= prs' /\ open' \in 0..prs'
      BY <1>0, <2>1, Fields DEF Requested
    <3>2. merged' \subseteq 1..row'.pr
      <4> SUFFICES ASSUME NEW n \in merged' PROVE n \in 1..row'.pr
        OBVIOUS
      <4> QED
        BY <1>0, <2>1, Fields DEF Requested
    <3>3. 1..prs' \subseteq merged' \cup {open'}
      <4> SUFFICES ASSUME NEW n \in 1..prs PROVE n \in merged' \cup {open'}
        BY <2>1
      <4> QED
        BY <1>0, <2>1, Fields DEF Requested
    <3> QED
      BY <3>1, <3>2, <3>3 DEF Requested
  <2>3. InHand'
    BY <1>0, <2>1, Fields DEF InHand
  <2> QED
    BY <2>2, <2>3
<1>10. ASSUME NEW number \in Requests, StartsReview(number) PROVE Requested' /\ InHand'
  <2>1. /\ pc = "enter" /\ wf.phase = "pr_review" /\ row.pr = wf.pr /\ number \in Nat
        /\ row'.pr = row.pr /\ merged' = merged
    BY <1>0, <1>10, Caps DEF StartsReview, Takes, InHand, Same, Requests
  <2>2. number \in 0..prs \/ (number = prs + 1 /\ open = 0)
    BY <1>0, <1>10, <2>1, Fields DEF StartsReview, Takes, Requested, InHand
  <2>3. Requested' /\ number <= prs' /\ row.pr <= number /\ row.pr \in {0, number} \cup merged
    <3>1. CASE number \in 0..prs
      <4>1. prs' = prs /\ open' = open
        BY <1>0, <1>10, <3>1, Fields DEF StartsReview, Takes
      <4>2. number = wf.pr \/ wf.pr = 0
        BY <1>0, <1>10, <3>1, Fields DEF StartsReview, Takes
      <4> QED
        BY <1>0, <2>1, <3>1, <4>1, <4>2, Fields DEF Requested
    <3>2. CASE number = prs + 1 /\ open = 0
      <4>1. prs' = prs + 1 /\ open' = prs + 1
        BY <1>0, <1>10, <3>2, Fields DEF StartsReview, Takes
      <4> QED
        BY <1>0, <2>1, <3>2, <4>1, Fields DEF Requested
    <3> QED
      BY <2>2, <3>1, <3>2
  <2>4. CASE row' = row /\ pc' = "agent" /\ wf' = [wf EXCEPT !.pr = number]
    <3>1. wf'.pr = number /\ wf'.phase = "pr_review"
      BY <1>0, <2>1, <2>4 DEF TypeInv, Rows
    <3> QED
      BY <2>1, <2>3, <2>4, <3>1 DEF InHand
  <2>5. CASE Ends
    BY <2>3, <2>5 DEF InHand, Ends
  <2> QED
    BY <1>10, <2>4, <2>5 DEF StartsReview
<1> QED
  BY <1>1, <1>2, <1>3, <1>4, <1>5, <1>6, <1>7, <1>8, <1>9, <1>10, Zenon DEF Outcome

LEMMA RequestInvHolds == Spec => []RequestInv
<1>1. Init => RequestInv
  <2> SUFFICES ASSUME Init PROVE RequestInv
    OBVIOUS
  <2>1. Requested
    BY NewRowIs DEF Init, Requested
  <2> QED
    BY <2>1, InitTypes DEF RequestInv, InHand, Init
<1>2. RequestInv /\ [Next]_vars => RequestInv'
  <2> SUFFICES ASSUME RequestInv, [Next]_vars PROVE RequestInv'
    OBVIOUS
  <2>1. CASE Next
    BY <2>1, NextSteps, RequestSteps DEF RequestInv
  <2>2. CASE UNCHANGED vars
    BY <2>2, StutterTypes, RequestsKept DEF RequestInv, vars
  <2> QED
    BY <2>1, <2>2
<1> QED
  BY <1>1, <1>2, PTL DEF Spec

-----------------------------------------------------------------------------
Decided == agreed \cup jumped \cup {0}

Cleared ==
  /\ row.phase = "merge" =>
       /\ row.pr \in Decided
       /\ pc # "idle" => wf.pr \in Decided
       /\ In("pr_review", "enter") => {open, prs + 1} \subseteq Decided
  /\ pc # "idle" /\ (wf.phase = "merge" \/ pc = "repair") => wf.pr \in Decided

MergeInv == RequestInv /\ merged \subseteq Decided /\ Cleared

\* A worker that leaves the row out of the merge phase.
LEMMA ClearedElsewhere ==
  ASSUME pc' = "idle", row'.phase = "merge" => row'.pr \in Decided' PROVE Cleared'
BY DEF Cleared, In

LEMMA ClearedKept ==
  ASSUME Cleared, UNCHANGED <<pc, wf, open, prs>>, Decided \subseteq Decided',
         row'.phase = "merge" => row.phase = "merge" /\ row'.pr = row.pr
  PROVE  Cleared'
BY DEF Cleared, In

LEMMA DecidedGrows ==
  ASSUME Outcome PROVE Decided \subseteq Decided'
<1>1. ASSUME NEW number \in Requests, StartsReview(number) PROVE UNCHANGED <<agreed, jumped>>
  BY <1>1 DEF StartsReview, Takes
<1>2. CASE MergeRequest \/ EnterAcceptance
  BY <1>2 DEF MergeRequest, EnterAcceptance, ghosts, Keep, Decided
<1>3. CASE Begins \/ Quits \/ Works \/ Repaired \/ Reviews \/ Delivers \/ Accepts \/ Waives \/ Judges
           \/ Nudges \/ Dies
  BY <1>3
  DEF Begins, Quits, Works, Repaired, Reviews, Delivers, Accepts, Waives, Judges, Nudges, Dies, Quiet,
      Decided
<1>4. CASE Forgets \/ TurnsBack \/ RunsRepair
  BY <1>4 DEF Forgets, TurnsBack, RunsRepair, Jumps, Decided
<1>5. CASE Decides \/ Renews \/ Confirms \/ Orders \/ SendsBack \/ Overrides
  BY <1>5 DEF Decides, Renews, Confirms, Orders, SendsBack, Overrides, Decided
<1> QED
  BY <1>1, <1>2, <1>3, <1>4, <1>5, Zenon DEF Outcome, Decided

LEMMA MergeRequestIs ==
  ASSUME TypeInv, MergeRequest
  PROVE  /\ pc = "enter" /\ wf.phase = "merge"
         /\ merged' = merged \cup ({wf.pr} \ {0})
         /\ open' = (IF open = wf.pr THEN 0 ELSE open)
         /\ pc' = "merged" /\ row' = row /\ wf' = wf /\ prs' = prs
         /\ UNCHANGED <<agreed, jumped, accepted, reopened, renewed, waived>>
BY DEF MergeRequest, In, ghosts

LEMMA EnterAcceptanceIs ==
  ASSUME TypeInv, EnterAcceptance
  PROVE  /\ pc = "enter" /\ wf.phase = "acceptance" /\ pc' = "agent" /\ row' = row
         /\ MergeSha # 0 /\ wf'.sha = MergeSha /\ wf'.pr = wf.pr /\ wf'.phase = "acceptance"
         /\ Quiet
<1>1. /\ pc = "enter" /\ wf.phase = "acceptance" /\ pc' = "agent" /\ row' = row
      /\ MergeSha # 0 /\ wf' = [wf EXCEPT !.sha = MergeSha] /\ Quiet
  BY DEF EnterAcceptance, In, Keep, Quiet
<1> QED
  BY <1>1 DEF TypeInv, Rows

LEMMA StartsReviewIs ==
  ASSUME TypeInv, NEW number \in Requests, StartsReview(number)
  PROVE  /\ pc = "enter" /\ wf.phase = "pr_review" /\ Same(row', row) 
         /\ number \in {0, wf.pr, open, prs + 1}
         /\ \/ row' = row /\ pc' = "agent" /\ wf'.pr = number /\ wf'.phase = "pr_review"
               /\ wf'.sha = wf.sha
            \/ Ends /\ row'.phase = "report" /\ row'.status # "completed"
         /\ UNCHANGED <<merged, agreed, jumped, accepted, reopened, renewed, waived>>
BY DEF StartsReview, Takes, TypeInv, Rows, Same

LEMMA ClearedSteps == ASSUME MergeInv, Outcome PROVE merged' \subseteq Decided' /\ Cleared'
<1>0. /\ TypeInv /\ Requested /\ InHand /\ Cleared /\ merged \subseteq Decided
      /\ Decided \subseteq Decided'
  BY DecidedGrows DEF MergeInv, RequestInv
<1>1. merged' \subseteq Decided'
  <2>1. CASE MergeRequest
    BY <1>0, <2>1, MergeRequestIs DEF Cleared
  <2>2. CASE ~MergeRequest
    <3>1. ASSUME NEW number \in Requests, StartsReview(number) PROVE merged' = merged
      BY <1>0, <3>1, StartsReviewIs
    <3>2. ASSUME EnterAcceptance PROVE merged' = merged
      BY <1>0, <3>2, EnterAcceptanceIs DEF Quiet
    <3>3. ASSUME \/ Begins \/ Quits \/ Works \/ Repaired \/ Reviews \/ Delivers
                 \/ Accepts \/ Waives \/ Judges \/ Nudges \/ Dies
          PROVE  merged' = merged
      BY <3>3
      DEF Begins, Quits, Works, Repaired, Reviews, Delivers, Accepts, Waives, Judges, Nudges, Dies, Quiet
    <3>4. ASSUME \/ Forgets \/ TurnsBack \/ RunsRepair \/ Decides \/ Renews \/ Confirms
                 \/ Orders \/ SendsBack \/ Overrides
          PROVE  merged' = merged
      BY <3>4
      DEF Forgets, TurnsBack, RunsRepair, Decides, Renews, Confirms, Orders, SendsBack, Overrides
    <3>5. merged' = merged
      BY <2>2, <3>1, <3>2, <3>3, <3>4, Zenon DEF Outcome
    <3> QED
      BY <1>0, <3>5
  <2> QED
    BY <2>1, <2>2
<1>2. ASSUME Begins PROVE Cleared'
  BY <1>0, <1>2, Fields DEF Begins, Cleared, In, Quiet, Decided
<1>3. ASSUME Quits \/ Forgets \/ Decides \/ Renews \/ Delivers \/ Accepts \/ Waives \/ Judges \/ Confirms
      PROVE  Cleared'
  <2>1. row'.phase = "merge" => row'.pr \in Decided'
    <3>1. row'.pr = row.pr
      BY <1>3 DEF Quits, Forgets, Decides, Renews, Delivers, Accepts, Waives, Judges, Confirms, Same
    <3>2. CASE Quits \/ Judges
      BY <1>0, <3>1, <3>2 DEF Quits, Judges, Cleared
    <3>3. CASE Forgets
      BY <1>0, <3>1, <3>3 DEF Forgets, Ends, InHand, Decided
    <3>4. CASE Decides
      BY <3>1, <3>4 DEF Decides, Decided
    <3>5. CASE Renews \/ Delivers \/ Accepts \/ Waives \/ Confirms
      BY <3>5 DEF Renews, Delivers, Accepts, Waives, Confirms
    <3> QED
      BY <1>3, <3>2, <3>3, <3>4, <3>5
  <2>2. pc' = "idle"
    BY <1>3 DEF Quits, Forgets, Decides, Renews, Delivers, Accepts, Waives, Judges, Confirms, Ends
  <2> QED
    BY <2>1, <2>2, ClearedElsewhere
<1>4. ASSUME TurnsBack PROVE Cleared'
  <2>1. row'.phase = "merge" => row'.pr \in Decided'
    BY <1>0, <1>4 DEF TurnsBack, Ends, Jumps, BackPr, InHand, Cleared, Decided
  <2> QED
    BY <1>4, <2>1, ClearedElsewhere DEF TurnsBack, Ends
<1>5. ASSUME Repaired \/ Reviews PROVE Cleared'
  <2>1. row'.pr \in {row.pr, wf.pr} /\ pc # "idle" /\ pc' = "idle"
    BY <1>5 DEF Repaired, Reviews, BackPr, Ends
  <2>2. row'.phase = "merge" => row'.pr \in Decided'
    <3>1. CASE Repaired
      BY <1>0, <2>1, <3>1 DEF Repaired, InHand, Cleared, Decided
    <3>2. CASE Reviews
      BY <1>0, <2>1, <3>2 DEF Reviews, Cleared
    <3> QED
      BY <1>5, <3>1, <3>2
  <2> QED
    BY <2>1, <2>2, ClearedElsewhere
<1>6. ASSUME Nudges \/ SendsBack \/ Overrides PROVE Cleared'
  BY <1>0, <1>6, ClearedKept DEF Nudges, SendsBack, Overrides, Same, Quiet
<1>7. ASSUME Orders PROVE Cleared'
  <2>1. /\ {row.pr, wf.pr, open} \subseteq Decided'
        /\ pc = "enter" => prs + 1 \in Decided'
    BY <1>7 DEF Orders, Decided
  <2>2. UNCHANGED <<pc, wf, prs, open>> /\ row'.pr = row.pr
    BY <1>7 DEF Orders, Same
  <2> QED
    BY <2>1, <2>2 DEF Cleared, In
<1>8. ASSUME Dies PROVE Cleared'
  BY <1>0, <1>8, ClearedElsewhere DEF Dies, Cleared
<1>9. ASSUME Works PROVE Cleared'
  BY <1>0, <1>9 DEF Works, Alike, Same, Cleared, In
<1>10. ASSUME RunsRepair PROVE Cleared'
  <2>1. wf.pr \in Decided'
    BY <1>0, <1>10 DEF RunsRepair, Jumps, Cleared, Decided
  <2>2. row.pr \in Decided'
    BY <1>0, <1>10, <2>1 DEF RunsRepair, InHand, Decided
  <2> QED
    BY <1>10, <2>1, <2>2 DEF RunsRepair, Same, Cleared, In
<1>11. ASSUME EnterAcceptance PROVE Cleared'
  BY <1>0, <1>11, EnterAcceptanceIs DEF Cleared, In
<1>12. ASSUME MergeRequest PROVE Cleared'
  BY <1>0, <1>12, MergeRequestIs DEF Cleared, In
<1>13. ASSUME NEW number \in Requests, StartsReview(number) PROVE Cleared'
  <2>1. /\ pc = "enter" /\ wf.phase = "pr_review" /\ Same(row', row) 
        /\ number \in {0, wf.pr, open, prs + 1}
        /\ \/ row' = row /\ pc' = "agent" /\ wf'.pr = number /\ wf'.phase = "pr_review"
           \/ pc' = "idle" /\ row'.phase = "report"
    BY <1>0, <1>13, StartsReviewIs DEF Ends
  <2>2. row.phase = "merge" => number \in Decided'
    BY <1>0, <2>1 DEF Cleared, In, Decided
  <2> QED
    BY <1>0, <2>1, <2>2 DEF Cleared, In
<1> QED
  BY <1>1, <1>2, <1>3, <1>4, <1>5, <1>6, <1>7, <1>8, <1>9, <1>10, <1>11, <1>12, <1>13, Zenon
  DEF Outcome

\* Nothing is merged that nobody decided to merge: for any caps, any number of
\* requests and any operators, between a worker's read and its write too.
THEOREM MergesAreDecided == Spec => []MergeWasDecided
<1>1. Init => MergeInv
  <2> SUFFICES ASSUME Init PROVE MergeInv
    OBVIOUS
  <2>1. RequestInv
    <3>1. Requested
      BY NewRowIs DEF Init, Requested
    <3> QED
      BY <3>1, InitTypes DEF RequestInv, InHand, Init
  <2>2. merged \subseteq Decided /\ Cleared
    BY NewRowIs DEF Init, Decided, Cleared
  <2> QED
    BY <2>1, <2>2 DEF MergeInv
<1>2. MergeInv /\ [Next]_vars => MergeInv'
  <2> SUFFICES ASSUME MergeInv, [Next]_vars PROVE MergeInv'
    OBVIOUS
  <2>0. TypeInv /\ RequestInv
    BY DEF MergeInv, RequestInv
  <2>1. CASE Next
    BY <2>0, <2>1, NextSteps, RequestSteps, ClearedSteps DEF MergeInv, RequestInv
  <2>2. CASE UNCHANGED vars
    <3>1. RequestInv'
      BY <2>0, <2>2, StutterTypes, RequestsKept DEF RequestInv, vars
    <3>2. merged' \subseteq Decided' /\ Cleared'
      BY <2>2 DEF MergeInv, vars, Decided, Cleared, In
    <3> QED
      BY <3>1, <3>2 DEF MergeInv
  <2> QED
    BY <2>1, <2>2
<1>3. MergeInv => MergeWasDecided
  BY Fields DEF MergeInv, RequestInv, Requested, Decided, MergeWasDecided
<1> QED
  BY <1>1, <1>2, <1>3, PTL DEF Spec

-----------------------------------------------------------------------------
\* Every recorded merge commit is one, and a workflow in acceptance has its
\* own request merged.
Recorded ==
  /\ row.sha \in {0} \cup merged /\ wf.sha \in {0} \cup merged
  /\ In("acceptance", "agent") => wf.sha # 0
  /\ row.phase = "acceptance" => row.pr \in {0} \cup merged
  /\ pc # "idle" /\ wf.phase = "acceptance" => wf.pr \in {0} \cup merged
  /\ pc # "idle" /\ row.phase = "acceptance" => wf.phase = "acceptance"

\* Where a merge commit is recorded it is the newest request's, and neither
\* the row nor a worker is back at work.
Tracked ==
  ~renewed =>
    /\ row.sha # 0 =>
         /\ row.sha = row.pr /\ row.phase \in After
         /\ pc # "idle" => wf.phase \in After
    /\ pc # "idle" /\ wf.phase = "acceptance" =>
         wf.sha \in {0, row.pr} /\ row.phase \in After

\* A confirmed verdict, the worker's copy included, is the row's and is about
\* the newest request.
Confirmed ==
  /\ In("acceptance", "enter") /\ wf.verdict = "confirmed" => row.verdict = "confirmed"
  /\ (row.verdict = "confirmed" \/ (row.status = "completed" /\ row.phase = "acceptance"))
       /\ ~reopened /\ ~renewed
     => row.phase = "acceptance" /\ row.pr \in {0} \cup accepted \cup waived

VerdictInv == RequestInv /\ Recorded /\ Tracked /\ Confirmed

\* The facts about a row and its worker that the steps below use.
LEMMA VerdictFacts ==
  ASSUME VerdictInv
  PROVE  /\ TypeInv /\ Requested /\ InHand /\ Recorded /\ Tracked /\ Confirmed
         /\ row.pr \in Nat /\ row.sha \in Nat /\ wf.sha \in Nat
         /\ reopened \in BOOLEAN /\ renewed \in BOOLEAN
BY Fields DEF VerdictInv, RequestInv

\* The worker leaves, and the row does not get to acceptance by it.
LEMMA RecordedLeft ==
  ASSUME Recorded, Ends, merged' = merged, row'.sha \in {0, row.sha, wf.sha},
         row'.phase = "acceptance" => row.phase = "acceptance" /\ row'.pr = row.pr
  PROVE  Recorded'
BY NewRowIs DEF Recorded, Ends, In

LEMMA RecordedKept ==
  ASSUME Recorded, UNCHANGED <<pc, wf, merged>>, row'.sha \in {0, row.sha},
         row'.phase = "acceptance" => row.phase = "acceptance" /\ row'.pr = row.pr
  PROVE  Recorded'
BY DEF Recorded, In

LEMMA RecordedSteps == ASSUME VerdictInv, Outcome PROVE Recorded'
<1>0. TypeInv /\ Requested /\ InHand /\ Recorded
  BY VerdictFacts
<1>1. CASE Begins
  BY <1>0, <1>1 DEF Begins, Recorded, In, Quiet
<1>2. CASE Quits \/ Works
  <2>1. ASSUME Quits PROVE Recorded'
    BY <1>0, <2>1, RecordedLeft DEF Quits, Same, Quiet
  <2>2. ASSUME Works PROVE Recorded'
    BY <1>0, <2>2 DEF Works, Alike, Same, Quiet, Recorded, In
  <2> QED
    BY <1>2, <2>1, <2>2
<1>3. CASE Forgets \/ Decides \/ Renews
  BY <1>0, <1>3, RecordedLeft DEF Forgets, Decides, Renews, Same, Worked
<1>4. CASE TurnsBack \/ Repaired \/ Reviews
  <2>1. /\ Ends /\ merged' = merged /\ row'.sha = row.sha /\ wf.phase # "acceptance"
        /\ row'.phase \in {row.phase, "merge", "development", "report"}
    BY <1>0, <1>4 DEF TurnsBack, Repaired, Reviews, Quiet, InHand
  <2>2. row'.phase # "acceptance"
    BY <1>0, <2>1 DEF Recorded, Ends
  <2> QED
    BY <1>0, <2>1, <2>2, RecordedLeft
<1>5. CASE RunsRepair
  BY <1>0, <1>5 DEF RunsRepair, Same, Recorded, In
<1>6. CASE Delivers \/ Accepts \/ Waives \/ Judges \/ Confirms
  <2>1. /\ Ends /\ merged' = merged /\ row'.pr = row.pr /\ row'.sha \in {row.sha, wf.sha}
        /\ row'.phase \in {row.phase, "acceptance"}
        /\ wf.phase = "acceptance" \/ pc = "merged"
    BY <1>6 DEF Delivers, Accepts, Waives, Judges, Confirms, Same, Quiet
  <2>2. row.pr = wf.pr /\ wf.pr \in {0} \cup merged
    BY <1>0, <2>1 DEF Ends, InHand, Recorded
  <2> QED
    BY <1>0, <2>1, <2>2, NewRowIs DEF Recorded, Ends, In
<1>7. CASE Nudges \/ Orders \/ SendsBack \/ Overrides
  BY <1>0, <1>7, RecordedKept DEF Nudges, Orders, SendsBack, Overrides, Same, Quiet
<1>8. CASE Dies
  BY <1>0, <1>8, NewRowIs DEF Dies, Quiet, Recorded, In
<1>9. CASE EnterAcceptance
  BY <1>0, <1>9, EnterAcceptanceIs DEF MergeSha, Quiet, Recorded, In
<1>10. CASE MergeRequest
  BY <1>0, <1>10, MergeRequestIs DEF Recorded, In
<1>11. ASSUME NEW number \in Requests, StartsReview(number) PROVE Recorded'
  <2>1. pc = "enter" /\ wf.phase = "pr_review" /\ Same(row', row) /\ merged' = merged
    BY <1>0, <1>11, StartsReviewIs
  <2>2. CASE row' = row /\ pc' = "agent" /\ wf'.phase = "pr_review" /\ wf'.sha = wf.sha
    BY <1>0, <2>1, <2>2 DEF Recorded, In
  <2>3. CASE Ends /\ row'.phase = "report"
    BY <1>0, <2>1, <2>3, RecordedLeft DEF Same
  <2> QED
    BY <1>0, <1>11, <2>2, <2>3, StartsReviewIs
<1> QED
  BY <1>1, <1>2, <1>3, <1>4, <1>5, <1>6, <1>7, <1>8, <1>9, <1>10, <1>11, Zenon DEF Outcome

LEMMA TrackedLeft ==
  ASSUME Tracked, pc # "idle", pc' = "idle", renewed' = renewed,
         row'.pr = row.pr, row'.sha \in {0, row.sha}, row'.phase \in After \cup {row.phase}
  PROVE  Tracked'
BY DEF Tracked

LEMMA TrackedSteps == ASSUME VerdictInv, Outcome PROVE Tracked'
<1>0. TypeInv /\ InHand /\ Tracked /\ renewed \in BOOLEAN
  BY VerdictFacts
<1>1. CASE Begins
  BY <1>0, <1>1 DEF Begins, Tracked, Quiet, After
<1>2. CASE Quits
  <2>1. CASE row'.phase = row.phase
    BY <1>0, <1>2, <2>1, TrackedLeft DEF Quits, Ends, Same, Quiet
  <2>2. CASE row'.phase # row.phase
    BY <1>0, <1>2, <2>2 DEF Quits, Ends, Same, Quiet, Tracked
  <2> QED
    BY <2>1, <2>2
<1>3. CASE Works
  BY <1>0, <1>3 DEF Works, Alike, Same, Quiet, Tracked, After
<1>4. CASE Forgets \/ Reviews
  BY <1>0, <1>4 DEF Forgets, Reviews, Ends, Quiet, Tracked, After
<1>5. CASE TurnsBack
  <2>1. ~renewed' => ~renewed
    BY <1>5, Zenon DEF TurnsBack
  <2>2. /\ row'.phase # row.phase /\ row'.phase = "development" /\ row.sha # 0 => renewed'
        /\ pc # "idle" /\ pc' = "idle" /\ row'.sha = row.sha /\ row'.pr = BackPr
        /\ wf.phase \in {"pr_review", "merge"}
        /\ row'.phase \in {row.phase, "merge", "development"}
    BY <1>5 DEF TurnsBack, Ends
  <2>3. CASE wf.phase = "pr_review"
    BY <1>0, <2>1, <2>2, <2>3 DEF Tracked, After
  <2>4. CASE wf.phase # "pr_review"
    BY <1>0, <2>1, <2>2, <2>4 DEF BackPr, Tracked, After
  <2> QED
    BY <2>3, <2>4
<1>6. CASE Repaired
  <2>1. CASE wf.phase = "pr_review"
    BY <1>0, <1>6, <2>1 DEF Repaired, Ends, Quiet, Tracked, After
  <2>2. CASE wf.phase # "pr_review"
    BY <1>0, <1>6, <2>2, TrackedLeft DEF Repaired, BackPr, Ends, Quiet, After
  <2> QED
    BY <2>1, <2>2
<1>7. CASE RunsRepair
  BY <1>0, <1>7 DEF RunsRepair, Same, Tracked, After
<1>8. CASE Decides \/ Delivers \/ Accepts \/ Waives
  BY <1>0, <1>8, TrackedLeft DEF Decides, Delivers, Accepts, Waives, Same, Ends, Quiet, After
<1>9. CASE Renews
  BY <1>0, <1>9 DEF Renews, Same, Ends, Tracked
<1>10. CASE Judges \/ Confirms
  <2>1. /\ pc # "idle" /\ pc' = "idle" /\ wf.phase = "acceptance" /\ renewed' = renewed
        /\ row'.pr = row.pr /\ row'.sha \in {row.sha, wf.sha}
        /\ row'.phase \in {row.phase, "acceptance"}
    BY <1>10 DEF Judges, Confirms, Ends, Quiet
  <2> QED
    BY <1>0, <2>1 DEF Tracked, After
<1>11. CASE Nudges \/ Orders \/ SendsBack \/ Overrides
  <2>1. /\ UNCHANGED <<pc, wf, renewed, waived>> /\ row'.pr = row.pr /\ row'.sha \in {0, row.sha}
        /\ row'.phase \in {row.phase, "merge", "wait"}
    BY <1>11 DEF Nudges, Orders, SendsBack, Overrides, Same, Quiet
  <2> QED
    BY <1>0, <2>1 DEF Tracked, After
<1>12. CASE Dies
  BY <1>0, <1>12 DEF Dies, Quiet, Tracked
<1>13. CASE EnterAcceptance
  <2>1. row.pr = wf.pr
    BY <1>0, <1>13, EnterAcceptanceIs DEF InHand
  <2> QED
    BY <1>0, <1>13, <2>1, EnterAcceptanceIs DEF MergeSha, Quiet, Tracked, After
<1>14. CASE MergeRequest
  BY <1>0, <1>14, MergeRequestIs DEF Tracked
<1>15. ASSUME NEW number \in Requests, StartsReview(number) PROVE Tracked'
  <2>1. /\ pc = "enter" /\ wf.phase = "pr_review" /\ Same(row', row) /\ renewed' = renewed
        /\ pc' = "idle" \/ wf'.phase = "pr_review"
    BY <1>0, <1>15, StartsReviewIs DEF Ends
  <2> QED
    BY <1>0, <2>1 DEF Same, Tracked, After
<1> QED
  BY <1>1, <1>2, <1>3, <1>4, <1>5, <1>6, <1>7, <1>8, <1>9, <1>10, <1>11, <1>12, <1>13, <1>14,
     <1>15, Zenon DEF Outcome

\* What a workflow that is confirmed, or completed by acceptance, looks like.
Accepted == row.verdict = "confirmed" \/ (row.status = "completed" /\ row.phase = "acceptance")

\* A step that makes no new verdict.
LEMMA ConfirmedCarried ==
  ASSUME Confirmed, Accepted' => Accepted, UNCHANGED <<accepted, reopened, waived>>,
         ~renewed' => ~renewed,
         Accepted /\ row.phase = "acceptance" => row'.phase = "acceptance" /\ row'.pr = row.pr,
         In("acceptance", "enter")' =>
           In("acceptance", "enter") /\ wf' = wf /\ row'.verdict = row.verdict
  PROVE  Confirmed'
BY DEF Confirmed, Accepted

LEMMA ConfirmedSteps == ASSUME VerdictInv, Outcome PROVE Confirmed'
<1>0. /\ TypeInv /\ InHand /\ Recorded /\ Tracked /\ Confirmed
      /\ renewed \in BOOLEAN /\ reopened \in BOOLEAN
  BY VerdictFacts
<1>1. CASE Begins
  BY <1>0, <1>1 DEF Begins, Quiet, Confirmed, In
<1>2. CASE Quits \/ Works
  <2>1. pc # "idle" /\ pc' # "enter" /\ UNCHANGED <<accepted, reopened, renewed, waived>>
    BY <1>2 DEF Quits, Works, Ends, Quiet
  <2>2. (Accepted' => Accepted) /\ row'.pr = row.pr
    BY <1>2 DEF Quits, Works, Unfinished, Same, Alike, Accepted
  <2>3. row.phase = "acceptance" => row'.phase = row.phase
    BY <1>0, <1>2, <2>1 DEF Quits, Works, Alike, Recorded, After
  <2> QED
    BY <1>0, <2>1, <2>2, <2>3, ConfirmedCarried DEF In
\* The worker is in a phase that does not decide about the acceptance, so the
\* row cannot be in acceptance.
<1>3. ASSUME pc # "idle", wf.phase # "acceptance", pc' # "enter",
             UNCHANGED <<accepted, reopened, waived>>, ~renewed' => ~renewed, Accepted' => Accepted
      PROVE  Confirmed'
  BY <1>0, <1>3, ConfirmedCarried DEF Recorded, In
<1>4. CASE Forgets \/ Reviews \/ Repaired \/ Decides \/ Renews \/ Delivers
  <2>1. pc # "idle" /\ pc' = "idle" /\ UNCHANGED <<accepted, reopened, waived>>
    BY <1>4 DEF Forgets, Reviews, Repaired, Decides, Renews, Delivers, Ends, Quiet
  <2>2. wf.phase # "acceptance"
    BY <1>0, <1>4 DEF Forgets, Reviews, Repaired, Decides, Renews, Delivers, InHand, Ends
  <2>3. ~renewed' => ~renewed
    BY <1>4, Zenon DEF Forgets, Reviews, Repaired, Decides, Renews, Delivers, Quiet
  <2>4. Accepted' => Accepted
    BY <1>4 DEF Forgets, Reviews, Repaired, Decides, Renews, Delivers, Same, Unfinished, Accepted
  <2> QED
    BY <1>3, <2>1, <2>2, <2>3, <2>4
<1>5. CASE TurnsBack \/ RunsRepair
  <2>1. /\ pc # "idle" /\ pc' # "enter" /\ wf.phase # "acceptance"
        /\ UNCHANGED <<accepted, reopened, waived>>
        /\ Accepted' => Accepted
    BY <1>5 DEF TurnsBack, RunsRepair, Ends, Same, Unfinished, Accepted
  <2>2. ~renewed' => ~renewed
    BY <1>5, Zenon DEF TurnsBack, RunsRepair
  <2> QED
    BY <1>3, <2>1, <2>2
<1>6. CASE Accepts
  BY <1>0, <1>6 DEF Accepts, Same, Ends, Quiet, Confirmed, In
<1>15. CASE Waives
  <2>1. row.pr \in {0} \cup merged
    BY <1>0, <1>15 DEF Waives, Ends, InHand, Recorded
  <2> QED
    BY <1>0, <1>15, <2>1 DEF Waives, Same, Ends, Confirmed, In
<1>7. CASE Judges
  <2>1. /\ pc' = "idle" /\ row'.pr = row.pr /\ row'.phase = row.phase
        /\ UNCHANGED <<accepted, reopened, renewed, waived>>
    BY <1>7 DEF Judges, Ends, Quiet
  <2>2. Accepted' => Accepted
    BY <1>7 DEF Judges, Accepted
  <2> QED
    BY <1>0, <2>1, <2>2, ConfirmedCarried DEF In
<1>8. CASE Confirms
  <2>1. /\ pc = "agent" /\ wf.phase = "acceptance" /\ pc' = "idle" /\ row'.pr = row.pr
        /\ row'.phase = "acceptance" /\ accepted' = accepted \cup {wf.sha}
        /\ UNCHANGED <<reopened, renewed, waived>>
    BY <1>8 DEF Confirms, Ends
  <2>2. ~renewed => wf.sha = row.pr
    BY <1>0, <2>1 DEF Tracked, Recorded, In
  <2> QED
    BY <2>1, <2>2 DEF Confirmed, In
<1>9. CASE Nudges \/ Dies
  BY <1>0, <1>9, ConfirmedCarried DEF Nudges, Dies, Same, Quiet, Accepted, In
<1>10. CASE Orders \/ SendsBack
  <2>1. /\ UNCHANGED <<pc, wf>> /\ row'.verdict = row.verdict /\ row'.status # "completed"
    BY <1>10 DEF Orders, SendsBack, Same
  <2>2. row.verdict = "confirmed" => reopened'
    BY <1>10 DEF Orders, SendsBack
  <2> QED
    BY <1>0, <2>1, <2>2 DEF Confirmed, In
<1>11. CASE Overrides
  <2>1. ~renewed => row.sha \in {0, row.pr}
    BY <1>0 DEF Tracked
  <2> QED
    BY <1>0, <1>11, <2>1 DEF Overrides, Confirmed, In
<1>12. CASE EnterAcceptance
  BY <1>0, <1>12, EnterAcceptanceIs DEF Quiet, Confirmed, In
<1>13. CASE MergeRequest
  BY <1>0, <1>13, MergeRequestIs DEF Confirmed, In
<1>14. ASSUME NEW number \in Requests, StartsReview(number) PROVE Confirmed'
  <2>1. /\ pc = "enter" /\ wf.phase = "pr_review" /\ Same(row', row)
        /\ UNCHANGED <<accepted, reopened, renewed, waived>> /\ pc' # "enter"
        /\ row' = row \/ row'.status # "completed"
    BY <1>0, <1>14, StartsReviewIs DEF Ends
  <2> QED
    BY <1>3, <2>1 DEF Same, Accepted
<1> QED
  BY <1>1, <1>2, <1>4, <1>5, <1>6, <1>7, <1>8, <1>9, <1>10, <1>11, <1>12, <1>13, <1>14,
     <1>15, Zenon
  DEF Outcome

LEMMA VerdictInvHolds == Spec => []VerdictInv
<1>1. Init => VerdictInv
  <2> SUFFICES ASSUME Init PROVE VerdictInv
    OBVIOUS
  <2>1. RequestInv
    BY InitTypes, NewRowIs DEF Init, RequestInv, Requested, InHand
  <2>2. row.phase = "preparation" /\ row.sha = 0 /\ row.verdict = "none" /\ wf.sha = 0 /\ pc = "idle"
    BY NewRowIs DEF Init
  <2> QED
    BY <2>1, <2>2 DEF VerdictInv, Recorded, Tracked, Confirmed, In
<1>2. VerdictInv /\ [Next]_vars => VerdictInv'
  <2> SUFFICES ASSUME VerdictInv, [Next]_vars PROVE VerdictInv'
    OBVIOUS
  <2>1. CASE Next
    BY <2>1, NextSteps, RequestSteps, RecordedSteps, TrackedSteps, ConfirmedSteps
    DEF VerdictInv, RequestInv
  <2>2. CASE UNCHANGED vars
    <3>1. RequestInv'
      BY <2>2, StutterTypes, RequestsKept DEF VerdictInv, RequestInv, vars
    <3>2. Recorded' /\ Tracked' /\ Confirmed'
      BY <2>2 DEF VerdictInv, vars, Recorded, Tracked, Confirmed, In
    <3> QED
      BY <3>1, <3>2 DEF VerdictInv
  <2> QED
    BY <2>1, <2>2
<1> QED
  BY <1>1, <1>2, PTL DEF Spec

\* Requests are numbered as they are created and merged ones never exceed the
\* row's, so a merged one that the row has is the newest.
LEMMA TheNewest == ASSUME VerdictInv, row.pr \in merged PROVE Newest = row.pr
<1>1. merged \subseteq 1..row.pr /\ row.pr \in Nat
  BY VerdictFacts DEF Requested
<1>2. \A m \in merged : m <= row.pr
  BY <1>1
<1>3. \A n \in merged : (\A m \in merged : m <= n) => n = row.pr
  BY <1>1, <1>2
<1> QED
  BY <1>2, <1>3 DEF Newest

\* The verifier is run on the newest merge, whoever merged, paused, retried or
\* sent the workflow back before: every way back to work forgets the recorded
\* merge commit, except the two that renewed records.
THEOREM NewestIsVerified == Spec => []VerifiesNewestMerge
<1>1. VerdictInv => VerifiesNewestMerge
  <2> SUFFICES ASSUME VerdictInv, In("acceptance", "agent")
               PROVE  wf.sha \in merged /\ (wf.sha = Newest \/ renewed)
    BY DEF VerifiesNewestMerge
  <2>1. wf.sha \in merged /\ wf.sha # 0
    BY VerdictFacts DEF Recorded
  <2>2. ~renewed => wf.sha = row.pr
    BY <2>1, VerdictFacts DEF Tracked, In
  <2> QED
    BY <2>1, <2>2, TheNewest
<1> QED
  BY <1>1, VerdictInvHolds, PTL

\* A workflow that acceptance completed is verified or accepted by a human in
\* the state it has on main, or was completed over it with the verification
\* switched off, unless one of the two exceptions was taken.
THEOREM CompletionIsVerified == Spec => []CompletedIsVerified
<1>1. VerdictInv => CompletedIsVerified
  <2> SUFFICES ASSUME VerdictInv, row.status = "completed", row.phase = "acceptance",
                      merged # {}, ~reopened, ~renewed
               PROVE  Newest \in accepted \cup waived
    BY DEF CompletedIsVerified
  <2>1. row.pr \in {0} \cup accepted \cup waived /\ row.pr \in {0} \cup merged
    BY VerdictFacts DEF Confirmed, Recorded
  <2>2. row.pr # 0
    BY VerdictFacts DEF Requested
  <2> QED
    BY <2>1, <2>2, TheNewest
<1> QED
  BY <1>1, VerdictInvHolds, PTL
=============================================================================
