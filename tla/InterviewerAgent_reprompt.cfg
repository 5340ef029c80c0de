\* A candidate who keeps trailing off, and nothing that fails.
CONSTANTS
    PromptLength = 700
    RepeatPrefixes = {35, 100}
    FollowUps = {38, 800}
    Lines = {38, 180}
    TurnLengths = {1, 12000}
    Agent = agent
    Writers = {agent}
    FarOff = 1
    N = 1
    MaxAttempts = 2
    TurnKinds = {"incomplete"}
    Aways = FALSE
    Leaves = 0
    MaxFaults = 0

SPECIFICATION AgentSpec

INVARIANT AgentIsHeard

\* The candidate may stay silent.
CHECK_DEADLOCK FALSE
