CONSTANTS
    RootIds <- MCRootIds
    MaxAllowedHops = 2
SPECIFICATION Spec
INVARIANT FoundIffChain
CHECK_DEADLOCK FALSE
