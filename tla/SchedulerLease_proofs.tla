----------------------- MODULE SchedulerLease_proofs -----------------------
(***************************************************************************)
(* Proofs about SchedulerLease, for any number of clients and any timeouts *)
(* ConstantsAssumption allows.                                             *)
(*                                                                         *)
(* ExclusiveWithinTerm is not inductive: that two clients are not in the   *)
(* job within their terms says nothing about the row a third one is about  *)
(* to take over.  EntitledOwnsRow ties every such client to the row, and   *)
(* with the types it is inductive: a takeover needs an expired row, so it  *)
(* finds no entitled client, and the DELETE takes away a client's own row. *)
(***************************************************************************)
EXTENDS SchedulerLease, TLAPS

IInv == TypeOK /\ EntitledOwnsRow

\* The types hold at the start and are preserved by every step.
LEMMA InitInv == Init => IInv
BY ConstantsAssumption DEF Init, IInv, TypeOK, EntitledOwnsRow, Entitled, InJob, NoRow,
   TermValues, Expired

\* A life that is counted down stays within its type.
LEMMA ElapseType == ASSUME NEW t \in TermValues
                    PROVE  Elapse(t) \in TermValues /\ (Elapse(t) # Expired => t # Expired)
BY ConstantsAssumption DEF Elapse, TermValues, Expired

\* The acquisition keeps the invariant: only an expired row is overwritten.
LEMMA AcquireInv ==
  ASSUME IInv, NEW c \in Clients,
         InsertOrTakeOver(c) \/ BecomeLeader(c) \/ SkipRun(c) \/ AcquireFails(c)
  PROVE  IInv'
<1> USE ConstantsAssumption DEF IInv
<1>1. CASE InsertOrTakeOver(c)
  <2>1. FreshTerms \subseteq TermValues
    BY DEF FreshTerms, TermValues, Expired
  <2>2. TypeOK'
    BY <1>1, <2>1 DEF InsertOrTakeOver, TypeOK, Goto
  <2>3. EntitledOwnsRow'
    <3>1. SUFFICES ASSUME NEW d \in Clients, Entitled(d)'
                   PROVE  (row.leader = d /\ row.left = term[d])'
      BY DEF EntitledOwnsRow
    <3>2. Entitled(d)
      BY <1>1, <3>1 DEF InsertOrTakeOver, Entitled, InJob, Goto, TypeOK
    <3>3. row.leader = d /\ row.left = term[d] /\ term[d] # Expired
      BY <3>2 DEF EntitledOwnsRow, Entitled
    <3>4. row' = row
      BY <1>1, <3>3 DEF InsertOrTakeOver
    <3>. QED BY <1>1, <3>3, <3>4 DEF InsertOrTakeOver
  <2>. QED BY <2>2, <2>3
<1>2. CASE BecomeLeader(c)
  BY <1>2 DEF BecomeLeader, TypeOK, EntitledOwnsRow, Entitled, InJob, Goto, Beat
<1>3. CASE SkipRun(c) \/ AcquireFails(c)
  BY <1>3 DEF SkipRun, AcquireFails, TypeOK, EntitledOwnsRow, Entitled, InJob, Goto
<1>. QED BY <1>1, <1>2, <1>3

\* So do the heartbeat thread's steps, which move heartbeat_at and _is_leader.
LEMMA HeartbeatInv ==
  ASSUME IInv, NEW c \in Clients, HeartbeatStep(c) \/ HeartbeatFails(c)
  PROVE  IInv'
<1> USE ConstantsAssumption DEF IInv
<1>1. CASE HeartbeatUpdate(c)
  <2>1. TypeOK'
    BY <1>1 DEF HeartbeatUpdate, TypeOK, Beat
  <2>2. row'.leader = row.leader /\ row'.left = row.left
    BY <1>1 DEF HeartbeatUpdate, TypeOK
  <2>3. EntitledOwnsRow'
    BY <1>1, <2>2 DEF HeartbeatUpdate, EntitledOwnsRow, Entitled, InJob
  <2>. QED BY <2>1, <2>3
<1>2. CASE HeartbeatEnds(c) \/ HeartbeatConfirms(c)
  BY <1>2 DEF HeartbeatEnds, HeartbeatConfirms, TypeOK, EntitledOwnsRow, Entitled, InJob, Beat
<1>3. CASE HeartbeatLost(c)
  BY <1>3 DEF HeartbeatLost, TypeOK, EntitledOwnsRow, Entitled, InJob, Beat
<1>4. CASE HeartbeatFails(c)
  BY <1>4 DEF HeartbeatFails, TypeOK, EntitledOwnsRow, Entitled, InJob, Beat
<1>. QED BY <1>1, <1>2, <1>3, <1>4 DEF HeartbeatStep

\* So do the steps that end a job: a client deletes no row but its own.
LEMMA EndOfJobInv ==
  ASSUME IInv, NEW c \in Clients,
         \/ FinishJob(c) \/ ReturnEarly(c) \/ ReleaseNothing(c) \/ StopHeartbeat(c)
         \/ DeleteOwnRow(c) \/ DeleteFails(c) \/ Crash(c)
  PROVE  IInv'
<1> USE ConstantsAssumption DEF IInv
<1>1. CASE DeleteOwnRow(c)
  <2>1. TypeOK'
    BY <1>1 DEF DeleteOwnRow, TypeOK, Goto, NoRow, TermValues, Expired
  <2>2. EntitledOwnsRow'
    BY <1>1 DEF DeleteOwnRow, TypeOK, EntitledOwnsRow, Entitled, InJob, Goto
  <2>. QED BY <2>1, <2>2
<1>2. CASE \/ FinishJob(c) \/ ReturnEarly(c) \/ ReleaseNothing(c) \/ StopHeartbeat(c)
           \/ DeleteFails(c) \/ Crash(c)
  <2>1. TypeOK'
    <3>1. CASE FinishJob(c) \/ ReturnEarly(c) \/ ReleaseNothing(c)
      BY <3>1 DEF FinishJob, ReturnEarly, ReleaseNothing, TypeOK, Goto
    <3>2. CASE StopHeartbeat(c)
      BY <3>2 DEF StopHeartbeat, TypeOK, Goto
    <3>3. CASE DeleteFails(c)
      BY <3>3 DEF DeleteFails, TypeOK, Goto
    <3>4. CASE Crash(c)
      BY <3>4 DEF Crash, TypeOK, Goto, Beat
    <3>. QED BY <1>2, <3>1, <3>2, <3>3, <3>4
  <2>2. row' = row /\ term' = term
    BY <1>2 DEF FinishJob, ReturnEarly, ReleaseNothing, StopHeartbeat, DeleteFails, Crash
  <2>3. ASSUME NEW d \in Clients, InJob(d)' PROVE InJob(d)
    BY <1>2, <2>3 DEF FinishJob, ReturnEarly, ReleaseNothing, StopHeartbeat, DeleteFails, Crash,
       InJob, Goto, TypeOK
  <2>4. EntitledOwnsRow'
    BY <2>2, <2>3 DEF EntitledOwnsRow, Entitled
  <2>. QED BY <2>1, <2>4
<1>. QED BY <1>1, <1>2

\* Time runs alike for the row and for the terms the clients were granted.
LEMMA TickInv == IInv /\ Tick => IInv'
<1> SUFFICES ASSUME IInv, Tick PROVE IInv'
  OBVIOUS
<1> USE ConstantsAssumption DEF IInv
<1>1. TypeOK'
  <2>1. row' \in [leader : Clients \union {None}, left : TermValues, beat : 0 .. HeartbeatTimeout + 1]
    <3>1. Elapse(row.left) \in TermValues
      BY ElapseType DEF TypeOK
    <3>2. row.beat \in 0 .. HeartbeatTimeout + 1 /\ row.leader \in Clients \union {None}
      BY DEF TypeOK
    <3>3. (IF row.beat > HeartbeatTimeout THEN row.beat ELSE row.beat + 1)
             \in 0 .. HeartbeatTimeout + 1
      BY <3>2
    <3>. QED BY <3>1, <3>2, <3>3 DEF Tick, TypeOK
  <2>2. term' \in [Clients -> TermValues]
    BY ElapseType DEF Tick, TypeOK
  <2>. QED BY <2>1, <2>2 DEF Tick, TypeOK
<1>2. EntitledOwnsRow'
  <2>1. SUFFICES ASSUME NEW d \in Clients, Entitled(d)'
                 PROVE  (row.leader = d /\ row.left = term[d])'
    BY DEF EntitledOwnsRow
  <2>2. term'[d] = Elapse(term[d])
    BY DEF Tick
  <2>3. Entitled(d)
    BY <2>1, <2>2, ElapseType DEF Tick, Entitled, InJob, TypeOK
  <2>4. row.leader = d /\ row.left = term[d]
    BY <2>3 DEF EntitledOwnsRow
  <2>5. row'.leader = row.leader /\ row'.left = Elapse(row.left)
    BY <2>4 DEF Tick, TypeOK
  <2>. QED BY <2>2, <2>4, <2>5
<1>. QED BY <1>1, <1>2

LEMMA NextInv == IInv /\ [Next]_vars => IInv'
<1> SUFFICES ASSUME IInv, [Next]_vars PROVE IInv'
  OBVIOUS
<1>1. ASSUME NEW c \in Clients,
             LeaseStep(c) \/ FinishJob(c) \/ ReturnEarly(c) \/ HeartbeatStep(c) \/ Failure(c)
      PROVE  IInv'
  BY <1>1, AcquireInv, HeartbeatInv, EndOfJobInv DEF LeaseStep, Failure
<1>2. CASE Tick
  BY <1>2, TickInv
<1>3. CASE UNCHANGED vars
  BY <1>3 DEF vars, IInv, TypeOK, EntitledOwnsRow, Entitled, InJob
<1>. QED BY <1>1, <1>2, <1>3 DEF Next

THEOREM Invariance == Spec => []IInv
BY InitInv, NextInv, PTL DEF Spec

\* The types of the row, the flags and the program counters.
THEOREM TypeCorrect == Spec => []TypeOK
BY Invariance, PTL DEF IInv

\* What the row says and what a client in its job was told agree.
THEOREM RowAgrees == Spec => []EntitledOwnsRow
BY Invariance, PTL DEF IInv

\* No two clients are in the job within the terms they were granted: both
\* would own the one row.
THEOREM MutualExclusion == Spec => []ExclusiveWithinTerm
<1>1. IInv => ExclusiveWithinTerm
  BY DEF IInv, EntitledOwnsRow, ExclusiveWithinTerm
<1>. QED BY <1>1, Invariance, PTL

-----------------------------------------------------------------------------
\* The step LiveRowEndsByRelease allows.
RowStep == \A c \in Clients :
             row.leader = c /\ row.left # Expired /\ row'.leader # c
               => pc[c] = "delete" /\ pc'[c] = "idle"

LEMMA RowStepHolds == TypeOK /\ [Next]_vars => RowStep
<1> SUFFICES ASSUME TypeOK, [Next]_vars, NEW c \in Clients,
                    row.leader = c, row.left # Expired, row'.leader # c
             PROVE  pc[c] = "delete" /\ pc'[c] = "idle"
  BY DEF RowStep
<1> USE ConstantsAssumption
<1>1. CASE Tick \/ UNCHANGED vars
  BY <1>1 DEF Tick, TypeOK, vars
<1>2. ASSUME NEW d \in Clients, InsertOrTakeOver(d)
      PROVE  FALSE
  BY <1>2 DEF InsertOrTakeOver
<1>3. ASSUME NEW d \in Clients, HeartbeatUpdate(d)
      PROVE  FALSE
  BY <1>3 DEF HeartbeatUpdate, TypeOK
<1>4. ASSUME NEW d \in Clients, DeleteOwnRow(d)
      PROVE  pc[c] = "delete" /\ pc'[c] = "idle"
  BY <1>4 DEF DeleteOwnRow, TypeOK, Goto
<1>5. ASSUME NEW d \in Clients,
             \/ BecomeLeader(d) \/ SkipRun(d) \/ AcquireFails(d)
             \/ HeartbeatEnds(d) \/ HeartbeatConfirms(d) \/ HeartbeatLost(d) \/ HeartbeatFails(d)
             \/ FinishJob(d) \/ ReturnEarly(d) \/ ReleaseNothing(d) \/ StopHeartbeat(d)
             \/ DeleteFails(d) \/ Crash(d)
      PROVE  FALSE
  <2>1. row' = row
    BY <1>5 DEF BecomeLeader, SkipRun, AcquireFails, HeartbeatEnds, HeartbeatConfirms,
       HeartbeatLost, HeartbeatFails, FinishJob, ReturnEarly, ReleaseNothing, StopHeartbeat,
       DeleteFails, Crash
  <2>. QED BY <2>1
<1>. QED BY <1>1, <1>2, <1>3, <1>4, <1>5 DEF Next, LeaseStep, HeartbeatStep, Failure

\* A live row goes away only by the release of its own leader.
THEOREM RowEndsByRelease == Spec => LiveRowEndsByRelease
<1>1. TypeOK /\ [Next]_vars => [RowStep]_vars
  BY RowStepHolds
<1>. QED BY <1>1, TypeCorrect, PTL DEF Spec, LiveRowEndsByRelease, RowStep

-----------------------------------------------------------------------------
(* The refinement of ExclusiveLease: within its term a client owns the row,  *)
(* so it is enough that a row that has not expired passes to nobody.         *)

LEMMA OwnerTypes == TypeOK => LiveOwner \in Clients \union {None}
BY DEF TypeOK, LiveOwner

LEMMA WithinOwner == IInv => (Within = {} \/ (LiveOwner # None /\ Within = {LiveOwner}))
<1> SUFFICES ASSUME IInv, Within # {} PROVE LiveOwner # None /\ Within = {LiveOwner}
  OBVIOUS
<1>1. \A c \in Within : c \in Clients /\ row.leader = c /\ row.left # Expired
  BY DEF IInv, EntitledOwnsRow, Entitled, Within
<1>2. \A c \in Within : LiveOwner = c /\ c # None
  BY <1>1, ConstantsAssumption DEF LiveOwner
<1>. QED BY <1>2

\* A row that has not expired changes hands by way of nobody.
LEMMA OwnerStep ==
  TypeOK /\ [Next]_vars => LiveOwner' = LiveOwner \/ LiveOwner = None \/ LiveOwner' = None
<1> SUFFICES ASSUME TypeOK, [Next]_vars, LiveOwner # None, LiveOwner' # None
             PROVE  LiveOwner' = LiveOwner
  OBVIOUS
<1>1. row.left # Expired /\ row'.left # Expired /\ row.leader # None /\ row'.leader # None
  BY DEF LiveOwner
<1>2. SUFFICES row'.leader = row.leader
  BY <1>1 DEF LiveOwner
<1>3. PICK c \in Clients : row.leader = c
  BY <1>1 DEF TypeOK
<1>4. CASE row'.leader # c
  <2>1. pc[c] = "delete" /\ pc'[c] = "idle"
    BY <1>1, <1>3, <1>4, RowStepHolds DEF RowStep
  <2>2. ASSUME NEW d \in Clients, DeleteOwnRow(d) PROVE FALSE
    BY <1>1, <1>3, <1>4, <2>2 DEF DeleteOwnRow, NoRow
  <2>3. ASSUME NEW d \in Clients, InsertOrTakeOver(d) PROVE FALSE
    BY <1>1, <1>3, <1>4, <2>3 DEF InsertOrTakeOver
  <2>4. ASSUME NEW d \in Clients, HeartbeatUpdate(d) PROVE FALSE
    BY <1>3, <1>4, <2>4 DEF HeartbeatUpdate, TypeOK
  <2>5. ASSUME NEW d \in Clients,
               \/ BecomeLeader(d) \/ SkipRun(d) \/ AcquireFails(d)
               \/ HeartbeatEnds(d) \/ HeartbeatConfirms(d) \/ HeartbeatLost(d) \/ HeartbeatFails(d)
               \/ FinishJob(d) \/ ReturnEarly(d) \/ ReleaseNothing(d) \/ StopHeartbeat(d)
               \/ DeleteFails(d) \/ Crash(d)
        PROVE  FALSE
    BY <1>3, <1>4, <2>5 DEF BecomeLeader, SkipRun, AcquireFails, HeartbeatEnds, HeartbeatConfirms,
       HeartbeatLost, HeartbeatFails, FinishJob, ReturnEarly, ReleaseNothing, StopHeartbeat,
       DeleteFails, Crash
  <2>6. CASE Tick \/ UNCHANGED vars
    BY <1>3, <1>4, <2>6 DEF Tick, TypeOK, vars
  <2>. QED BY <2>2, <2>3, <2>4, <2>5, <2>6 DEF Next, LeaseStep, HeartbeatStep, Failure
<1>. QED BY <1>3, <1>4

LEMMA LeaseInit == Init => Lease!Init
BY DEF Init, Lease!Init, LiveOwner, Within, Entitled, InJob, NoRow

LEMMA LeaseNext == IInv /\ IInv' /\ [Next]_vars => [Lease!Next]_<<LiveOwner, Within>>
<1> SUFFICES ASSUME IInv, IInv', [Next]_vars PROVE Lease!Next
  OBVIOUS
<1>1. Within = {} \/ (LiveOwner # None /\ Within = {LiveOwner})
  BY WithinOwner
<1>2. (Within = {} \/ (LiveOwner # None /\ Within = {LiveOwner}))'
  BY WithinOwner, PTL
<1>3. LiveOwner \in Clients \union {None} /\ LiveOwner' \in Clients \union {None}
  BY OwnerTypes DEF IInv, TypeOK, LiveOwner
<1>4. LiveOwner' = LiveOwner \/ LiveOwner = None \/ LiveOwner' = None
  BY OwnerStep DEF IInv
<1>5. CASE LiveOwner' = None
  BY <1>2, <1>5 DEF Lease!Next, Lease!End
<1>6. CASE LiveOwner' # None /\ LiveOwner' = LiveOwner
  <2>1. LiveOwner \in Clients /\ Within' \subseteq {LiveOwner}
    BY <1>2, <1>3, <1>6
  <2>2. Lease!Work(LiveOwner)
    BY <1>6, <2>1 DEF Lease!Work
  <2>. QED BY <2>1, <2>2 DEF Lease!Next
<1>7. CASE LiveOwner' # None /\ LiveOwner = None
  <2>1. LiveOwner' \in Clients /\ Within' \subseteq {LiveOwner'} /\ Within = {}
    BY <1>1, <1>2, <1>3, <1>7
  <2>2. Lease!Grant(LiveOwner')
    BY <1>7, <2>1 DEF Lease!Grant
  <2>. QED BY <2>1, <2>2 DEF Lease!Next
<1>. QED BY <1>4, <1>5, <1>6, <1>7

\* leader_election.py implements the abstract exclusive lease, for any number
\* of clients, any timeouts, and whatever fails.
THEOREM Refinement == Spec => ImplementsLease
<1>1. IInv /\ IInv' /\ [Next]_vars => [Lease!Next]_<<LiveOwner, Within>>
  BY LeaseNext
<1>. QED BY <1>1, LeaseInit, Invariance, PTL DEF Spec, ImplementsLease, Lease!Spec
=============================================================================
