------------------------ MODULE MCProviderAdmission ------------------------
EXTENDS ProviderAdmission, TLC

CONSTANTS run, early, late,    \* ids: a run and two gateway requests
          a1, a2, g1, g2       \* callers: two attempts of the run, the two requests

MCIdOf == (a1 :> run) @@ (a2 :> run) @@ (g1 :> early) @@ (g2 :> late)
MCPriority == (run :> 2) @@ (early :> 1) @@ (late :> 2)
=============================================================================
