\* OpenAI-format tools: function tools and tools of another type.  The
\* agent is built once per request, after which nothing happens.
CONSTANTS
    None = None
    Formats = {"openai_function", "openai_other"}
    MaxTools = 3
    MaxDecls = 1
SPECIFICATION Spec
CHECK_DEADLOCK FALSE
INVARIANTS
    TypeOK
