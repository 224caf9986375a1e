\* A function response that is not the last part of its contents entry.
CONSTANTS
    None = None
    Drift = FALSE
    Policies <- MCDebugOnly
    ReqParts <- MCReqParts
    RespParts <- MCRespParts
    MaxContents = 1
    MaxParts = 2
    MaxCandidates = 1
SPECIFICATION Spec
CHECK_DEADLOCK FALSE
INVARIANT
    ToolResponsesScreened
