\* Gemini-format tools, as both Gemini endpoints receive them.
CONSTANTS
    None = None
    Formats = {"gemini"}
    MaxTools = 1
    MaxDecls = 1
SPECIFICATION Spec
CHECK_DEADLOCK FALSE
INVARIANT
    AgentCarriesDeclaredTools
