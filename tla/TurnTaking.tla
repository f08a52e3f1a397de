----------------------------- MODULE TurnTaking -----------------------------
(***************************************************************************)
(* What a workspace room promises about its agent turns: one turn at a     *)
(* time may write, a turn that lost its place never gets it back, and an   *)
(* input that was queued is given to at most one turn, while that turn has *)
(* the place, unless its author withdraws it first.                        *)
(***************************************************************************)
EXTENDS Naturals

CONSTANTS Turns, Inputs, NoTurn

VARIABLES
    place,  \* the turn that may write, or NoTurn
    past,   \* the turns that have had the place
    given   \* what became of each input

vars == <<place, past, given>>

Init ==
    /\ place = NoTurn
    /\ past = {}
    /\ given = [i \in Inputs |-> "absent"]

Submit(i) ==
    /\ given[i] = "absent"
    /\ given' = [given EXCEPT ![i] = "waiting"]
    /\ UNCHANGED <<place, past>>

Withdraw(i) ==
    /\ given[i] = "waiting"
    /\ given' = [given EXCEPT ![i] = "withdrawn"]
    /\ UNCHANGED <<place, past>>

\* A turn takes the place, with the waiting input it was started for if any.
Open(t) ==
    /\ place = NoTurn
    /\ t \notin past
    /\ place' = t
    /\ past' = past \union {t}
    /\ \/ UNCHANGED given
       \/ \E i \in Inputs : given[i] = "waiting" /\ given' = [given EXCEPT ![i] = t]

\* The turn that has the place takes one more input.
Take(i) ==
    /\ place # NoTurn
    /\ given[i] = "waiting"
    /\ given' = [given EXCEPT ![i] = place]
    /\ UNCHANGED <<place, past>>

Close ==
    /\ place # NoTurn
    /\ place' = NoTurn
    /\ UNCHANGED <<past, given>>

Next ==
    \/ \E i \in Inputs : Submit(i) \/ Withdraw(i) \/ Take(i)
    \/ \E t \in Turns : Open(t)
    \/ Close

Spec == Init /\ [][Next]_vars
=============================================================================
