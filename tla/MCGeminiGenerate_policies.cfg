\* Two registered policies: one whose verdict is opaque and may raise,
\* registered before the DebugPolicy.
CONSTANTS
    None = None
    Drift = FALSE
    Policies <- MCOpaqueThenDebug
    ReqParts <- MCReqParts
    RespParts <- MCRespParts
    MaxContents = 2
    MaxParts = 2
    MaxCandidates = 1
SPECIFICATION Spec
CHECK_DEADLOCK FALSE
INVARIANTS
    TriggerPromptNeverForwarded
    ReturnedResponseScreened
