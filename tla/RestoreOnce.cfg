SPECIFICATION Spec
CONSTANTS
    Attempts = 2
    Runs = 3
    Cuts = 1
INVARIANT PipelineIssuedOnce
CHECK_DEADLOCK FALSE
