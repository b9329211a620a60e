SPECIFICATION Spec
CONSTANTS
    Nodes <- MCNodes
    Env <- MCEnv
    Setups <- Asynchronous
    Threads = {"w1", "w2"}
PROPERTY
    AwakenedContinues
CHECK_DEADLOCK FALSE
