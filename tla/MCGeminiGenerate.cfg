\* The default registry: the DebugPolicy alone (capsem_integration.py).
CONSTANTS
    None = None
    Drift = FALSE
    Policies <- MCDebugOnly
    ReqParts <- MCReqParts
    RespParts <- MCRespParts
    MaxContents = 2
    MaxParts = 2
    MaxCandidates = 2
SPECIFICATION Spec
CHECK_DEADLOCK FALSE
INVARIANTS
    TypeOK
    TriggerPromptNeverForwarded
    ReturnedResponseScreened
PROPERTIES
    LifecycleRefined
