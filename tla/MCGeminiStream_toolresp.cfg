\* Function responses in a streamed request, with the DebugPolicy alone.
CONSTANTS
    None = None
    Drift = FALSE
    Policies <- MCDebugOnly
    ReqParts <- MCStreamParts
    MaxContents = 1
    MaxParts = 1
    MaxTools = 0
SPECIFICATION Spec
CHECK_DEADLOCK FALSE
INVARIANT
    StreamToolResponsesScreened
