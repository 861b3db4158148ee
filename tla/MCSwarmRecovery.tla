-------------------------- MODULE MCSwarmRecovery --------------------------
\* The shape of decision_making_team: two tasks side by side and one that needs
\* both.  By id, the last of the three is one of the first two.
EXTENDS SwarmRecovery, TLC

CONSTANTS propose, challenge, decide, r1, r2

MCTask == {propose, challenge, decide}
MCDependsOn ==
  (propose :> {}) @@ (challenge :> {}) @@ (decide :> {propose, challenge})
MCLayerOf == (propose :> 0) @@ (challenge :> 0) @@ (decide :> 1)
MCLastLayer == 1
MCStaffings == {MCTask}
MCTimed == {propose, decide}
MCInPreset == (propose :> 1) @@ (challenge :> 2) @@ (decide :> 3)
MCById == (challenge :> 1) @@ (decide :> 2) @@ (propose :> 3)

\* A chain of two, in the order of their ids, for two sweeps at once.
MCPair == {challenge, decide}
MCPairDependsOn == (challenge :> {}) @@ (decide :> {challenge})
MCPairLayerOf == (challenge :> 0) @@ (decide :> 1)
MCPairStaffings == {MCPair}
MCPairTimed == MCPair
MCPairOrder == (challenge :> 1) @@ (decide :> 2)
=============================================================================
