-------------------------- MODULE MCWorkflowPhases --------------------------
(* Event sets for TLC: what operators do, and what interrupts a workflow    *)
(* that is left alone.                                                      *)
EXTENDS WorkflowPhases

OperatorEvents == {"pause", "resume", "retry", "done", "cancel", "feedback",
                   "override", "comment", "unverified", "kill"}

FaultEvents == {"stop", "resume", "extend", "retry", "feedback", "comment",
                "push", "outage", "kill"}

FeedbackEvents == {"feedback"}
====
