--------------------------- MODULE MCAssistantRun ---------------------------
(* Instances of AssistantRun for TLC. *)
EXTENDS AssistantRun

\* Every slot in one worker process: the slots share their worker id, so only
\* the generation separates their claims.
OneProcess == [w \in Workers |-> "p1"]

\* A process of its own for each slot.
OwnProcess == [w \in Workers |-> w]
=============================================================================
