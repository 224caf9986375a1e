\* A thought part carrying the trigger reaches on_model_call as prompt.
CONSTANTS
    None = None
    Drift = FALSE
    Policies <- MCDebugOnly
    ReqParts <- MCStreamParts
    MaxContents = 1
    MaxParts = 1
    MaxTools = 0
SPECIFICATION Spec
CHECK_DEADLOCK FALSE
INVARIANT
    StreamPromptIsVisibleText
