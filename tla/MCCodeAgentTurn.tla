-------------------------- MODULE MCCodeAgentTurn --------------------------
(* Instances of CodeAgentTurn for TLC. *)
EXTENDS CodeAgentTurn, TLC

\* Servers and turn ids are only compared with each other; nothing chooses among
\* them by value, and the properties of the runs that use this are safety.
Symmetry == Permutations(Servers) \union Permutations(Turns)
=============================================================================
