----------------------------- MODULE RunLedger -----------------------------
(***************************************************************************)
(* What the assistant-run pipeline promises to a room: a request that was  *)
(* accepted is decided at most once; what was decided is shown in the      *)
(* request's placeholder and added to the room's total in one step, or the *)
(* request is void because its placeholder was deleted first.              *)
(***************************************************************************)
EXTENDS Naturals

CONSTANTS Runs, Costs, NoResult

VARIABLES
    phase,  \* how far each request got
    result, \* what was decided for it
    shown,  \* what its placeholder shows
    total   \* the room's AI cost

vars == <<phase, result, shown, total>>

Results == [outcome : {"complete", "error"}, cost : Costs \union {0}]

Init ==
    /\ phase = [r \in Runs |-> "absent"]
    /\ result = [r \in Runs |-> NoResult]
    /\ shown = [r \in Runs |-> "absent"]
    /\ total = 0

Accept(r) ==
    /\ phase[r] = "absent"
    /\ phase' = [phase EXCEPT ![r] = "open"]
    /\ shown' = [shown EXCEPT ![r] = "streaming"]
    /\ UNCHANGED <<result, total>>

Decide(r) ==
    /\ phase[r] = "open"
    /\ phase' = [phase EXCEPT ![r] = "decided"]
    /\ \E res \in Results : result' = [result EXCEPT ![r] = res]
    /\ UNCHANGED <<shown, total>>

Settle(r) ==
    /\ phase[r] = "decided"
    /\ shown[r] = "streaming"
    /\ phase' = [phase EXCEPT ![r] = "settled"]
    /\ shown' = [shown EXCEPT ![r] = result[r].outcome]
    /\ total' = total + result[r].cost
    /\ UNCHANGED result

Void(r) ==
    /\ phase[r] \in {"open", "decided"}
    /\ phase' = [phase EXCEPT ![r] = "void"]
    /\ shown' = [shown EXCEPT ![r] = "deleted"]
    /\ UNCHANGED <<result, total>>

\* The user deletes the message of a settled request.
Hide(r) ==
    /\ phase[r] = "settled"
    /\ shown' = [shown EXCEPT ![r] = "deleted"]
    /\ UNCHANGED <<phase, result, total>>

Next == \E r \in Runs : Accept(r) \/ Decide(r) \/ Settle(r) \/ Void(r) \/ Hide(r)

Spec == Init /\ [][Next]_vars
=============================================================================
