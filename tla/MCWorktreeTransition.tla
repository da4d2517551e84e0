------------------------ MODULE MCWorktreeTransition ------------------------
(* WorktreeTransition has no sets to instantiate: the bounds and switches   *)
(* of the .cfg files are the whole instance.                                *)
EXTENDS WorktreeTransition
====
