\* Both services on one server behind an interceptor that refuses IsReady.
CONSTANTS
    Calls = {c1}
    Bodies = {"ok"}
    Intercepted = TRUE
    Policy = {"RequestShutdown", "WaitSync", "IsSynced", "WaitReady",
              "UpgradeBinary", "CancelUpgrade", "GetStatus", "AddBundle",
              "GetValidators", "GetCommittees", "StateToGenesis", "ConsensusParameters"}
    None = None
    Methods <- ServerMethods
    ServiceDesc <- ServerDesc
    Info <- ServerInfo
    Decodes <- ServerDecodes
    Backend <- ServerBackend
    Client <- ServerClient
SPECIFICATION Spec
INVARIANT PolicyEnforced
CHECK_DEADLOCK FALSE
