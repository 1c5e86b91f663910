SPECIFICATION Spec
CONSTANTS
    Fds <- SomeFds
    MaxRefs = 2
INVARIANT InitStatusTruthful
