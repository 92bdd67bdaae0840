SPECIFICATION AgentFairSpec
CONSTANTS
    Nothing = Nothing
    k1 = k1  k2 = k2
    Keys = {k1, k2}
    Builds = {1, 2}
    MaxChanges = 3
    MaxFaults = 2
INVARIANTS
    AgentInv
    RunsWhatWasApplied
PROPERTIES
    AgentFollows
