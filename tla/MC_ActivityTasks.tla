-------------------------- MODULE MC_ActivityTasks --------------------------
(* An app with a standard activity and one that is single in the task that  *)
(* both have by their affinity.                                              *)
EXTENDS ActivityTasks

CONSTANTS A, B

Comps == {A, B}
Modes == A :> "standard" @@ B :> "singleTask"
NoDocuments == [c \in Comps |-> "none"]
OneAffinity == [c \in Comps |-> "app"]
SomeFlags == {{}, {"CLEAR_TOP"}, {"NEW_TASK", "CLEAR_TASK"}}
=============================================================================
