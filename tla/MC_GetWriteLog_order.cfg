CONSTANTS
    RootIds <- MCRootIds
    MaxAllowedHops = 2
SPECIFICATION Spec
INVARIANT ResultInCommitOrder
CHECK_DEADLOCK FALSE
