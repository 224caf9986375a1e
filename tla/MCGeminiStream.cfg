\* The streaming gates, drifted entries included, with a policy that may
\* CONFIRM or raise registered before the DebugPolicy.
CONSTANTS
    None = None
    Drift = TRUE
    Policies <- MCOpaqueThenDebug
    ReqParts <- MCStreamParts
    MaxContents = 2
    MaxParts = 2
    MaxTools = 2
SPECIFICATION Spec
CHECK_DEADLOCK FALSE
INVARIANTS
    TypeOK
    StreamTriggerNeverForwarded
PROPERTIES
    StreamLifecycleRefined
