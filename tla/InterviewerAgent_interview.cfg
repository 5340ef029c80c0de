\* A two-question interview with every kind of turn, one disconnection or
\* absence, and one lost request, lost answer or crash.
SPECIFICATION AgentSpec
CONSTANTS
    PromptLength = 700
    RepeatPrefixes = {35, 100}
    FollowUps = {38, 800}
    Lines = {38, 180}
    TurnLengths = {1, 12000}
    Agent = agent
    Writers = {agent}
    FarOff = 1
    N = 2
    MaxAttempts = 2
    TurnKinds = {"withdraw", "previous", "wait", "repeat", "skip", "complete"}
    Aways = TRUE
    Leaves = 1
    MaxFaults = 1

    
PROPERTIES
    OneInterviewer
    
CHECK_DEADLOCK FALSE
