\* Both services on one server behind an interceptor that refuses
\* GetCommittees and RequestShutdown; two concurrent calls, well-formed and
\* malformed requests.
CONSTANTS
    Calls = {c1, c2}
    Bodies = {"ok", "bad"}
    Intercepted = TRUE
    Policy = {"WaitSync", "IsSynced", "WaitReady", "IsReady", "UpgradeBinary",
              "CancelUpgrade", "GetStatus", "AddBundle",
              "GetValidators", "StateToGenesis", "ConsensusParameters"}
    None = None
    Methods <- ServerMethods
    ServiceDesc <- ServerDesc
    Info <- ServerInfo
    Decodes <- ServerDecodes
    Backend <- ServerBackend
    Client <- ServerClient
SPECIFICATION Spec
INVARIANT TypeOK
INVARIANT PolicyEnforced
PROPERTY UnaryRefinesCall
CHECK_DEADLOCK FALSE
