\* Two tabs, two requests, two egresses, one failed call or restart.
CONSTANTS
    Tabs = {t1, t2}
    Agent = agent
    Writers = {t1, t2, agent}
    Handlers = {h1, h2}
    Sweepers = {retention, request}
    Retention = retention
    Egresses = {e1, e2}
    Nothing = Nothing
    FarOff = 3
    MaxUpsets = 1

SPECIFICATION RecordingSpec

INVARIANT RecordingInv

PROPERTIES
    KeepsItsPromise
    RecordingsSettle

\* A session that is over and settled is left alone.
CHECK_DEADLOCK FALSE
