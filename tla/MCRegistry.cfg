\* One process: the server and the Gemini endpoints imported in either
\* order, the configuration changing afterwards, and a test harness's
\* reload.  Start-up ends once both modules are imported, so deadlock is
\* not checked.
CONSTANTS
    MaxFragments = 2
    MaxReloads = 2
SPECIFICATION Spec
CHECK_DEADLOCK FALSE
INVARIANTS
    TypeOK
    IntegrationMatchesConfig
