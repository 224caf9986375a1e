\* A contents entry that is not a JSON object.
CONSTANTS
    None = None
    Drift = FALSE
    Policies <- MCDebugOnly
    ReqParts <- MCStreamParts
    MaxContents = 2
    MaxParts = 1
    MaxTools = 0
SPECIFICATION Spec
CHECK_DEADLOCK FALSE
INVARIANT
    MalformedEntriesSkipped
