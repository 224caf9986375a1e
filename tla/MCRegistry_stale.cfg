\* The test harness, checked against what the Gemini endpoints enforce.
CONSTANTS
    MaxFragments = 1
    MaxReloads = 1
SPECIFICATION Spec
CHECK_DEADLOCK FALSE
INVARIANT
    ConfiguredPoliciesEnforced

