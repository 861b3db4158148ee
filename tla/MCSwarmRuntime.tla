--------------------------- MODULE MCSwarmRuntime ---------------------------
\* Two independent tasks a and b; c needs both, d needs b only, e needs c.
\* Three layers, so that a failure blocks one task directly and another through
\* it while d can still run next to a worker that outlived its layer.
EXTENDS SwarmRuntime, TLC

CONSTANTS a, b, c, d, e

MCTask == {a, b, c, d, e}
MCDependsOn ==
  (a :> {}) @@ (b :> {}) @@ (c :> {a, b}) @@ (d :> {b}) @@ (e :> {c})
MCLayerOf == (a :> 0) @@ (b :> 0) @@ (c :> 1) @@ (d :> 1) @@ (e :> 2)
MCLastLayer == 2
\* The preset may also lack the agent of d.
MCStaffings == {MCTask, MCTask \ {d}}
\* b is timed with its layer; d is not, where c is blocked.
MCTimed == {a, c, e}
=============================================================================
