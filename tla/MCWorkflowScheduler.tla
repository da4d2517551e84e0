------------------------- MODULE MCWorkflowScheduler -------------------------
(* Two instances with three workflows of one user.  In the first a and b are *)
(* a batch and c, outside of it, shares a git key, a branch, with a; in the  *)
(* second the three are a batch, each in a worktree of its own.  a and b by  *)
(* themselves are the instance for the operators' moves.                     *)
EXTENDS WorkflowScheduler

CONSTANTS a, b, c, u1, b1, kb, shared, ka, kc

TwoWorkflows == {a, b}
OneWorkflow == {a}
TheWorkflows == {a, b, c}
TheKeys == {ka, kb, kc, shared}
TheOwner == [w \in Workflows |-> u1]
TheBatch == [w \in Workflows |-> IF w = c THEN NoBatch ELSE b1]
BatchOfThree == [w \in Workflows |-> b1]
OwnKeys == [w \in Workflows |-> CASE w = a -> {ka} [] w = b -> {kb} [] w = c -> {kc}]
TheKeysOf == [w \in Workflows |->
  CASE w = a -> {ka, shared} [] w = b -> {kb} [] w = c -> {kc, shared}]
TheRank == [w \in Workflows |-> CASE w = a -> 1 [] w = b -> 2 [] w = c -> 3]
====
