\* A contents entry the SDK model rejects but the provider accepts.
CONSTANTS
    None = None
    Drift = TRUE
    Policies <- MCDebugOnly
    ReqParts <- MCReqParts
    RespParts <- MCRespParts
    MaxContents = 1
    MaxParts = 1
    MaxCandidates = 1
SPECIFICATION Spec
CHECK_DEADLOCK FALSE
INVARIANT
    TriggerPromptNeverForwarded
