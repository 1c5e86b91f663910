SPECIFICATION Spec
CONSTANTS
    Fds <- SomeFds
    MaxRefs = 2
INVARIANTS TypeOK NoMisuse NoDescriptorLeak NoLibraryLeak
