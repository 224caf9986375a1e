------------------------------- MODULE Agent -------------------------------
(***************************************************************************)
(* create_agent of capsem_proxy/capsem_integration.py: the Agent both     *)
(* Gemini endpoints build from body["tools"] before any gate runs, and    *)
(* pass to every policy evaluation of the request.                        *)
(*                                                                         *)
(* A tool entry is abstracted to its wire format and the names it         *)
(* declares: an OpenAI {"type": "function", "function": {...}} entry, an  *)
(* OpenAI entry of another type (no "function" key), or a Gemini          *)
(* {"functionDeclarations": [...]} entry, which has no "type" key.  A     *)
(* name is a text or None when the "name" key is missing.                 *)
(***************************************************************************)
EXTENDS DebugPolicy, SequencesExt

CONSTANTS
    None,       \* a missing "name" key
    Formats,    \* the tool formats requests use
    MaxTools,   \* bound on len(body["tools"])
    MaxDecls    \* bound on the declarations of one Gemini entry

ASSUME Formats \subseteq {"openai_function", "openai_other", "gemini"}
ASSUME MaxTools \in Nat /\ MaxDecls \in Nat

Names == Texts \cup {None}

ToolDefs ==
    [format : Formats \cap {"openai_function"}, names : {<< n >> : n \in Names}]
        \cup [format : Formats \cap {"openai_other"}, names : {<< None >>}]
        \cup [format : Formats \cap {"gemini"},
              names : BoundedSeq(Names, MaxDecls) \ {<< >>}]

\* Mutant of ToolName: func.get("name") without its default.
ToolNameNoDefault(n) == n

\* func.get("name", "unknown")
ToolName(n) == IF n = None THEN "unknown" ELSE n

(***************************************************************************)
(* Lines 62-81: only entries whose "type" is "function" become a Tool,    *)
(* named from their "function" object; every other entry is skipped.      *)
(***************************************************************************)
CreateAgentTools(tools) ==
    LET kept == SelectSeq(tools, LAMBDA t : t.format = "openai_function")
    IN  [i \in DOMAIN kept |-> ToolName(kept[i].names[1])]

VARIABLES
    tools,      \* body["tools"]
    agent,      \* the names of agent.tools, << >> before create_agent
    built       \* whether create_agent has run

vars == <<tools, agent, built>>

TypeOK ==
    /\ tools \in Seq(ToolDefs)
    /\ agent \in Seq(Texts \cup {"unknown"})
    /\ built \in BOOLEAN

CreateAgent ==
    /\ ~built
    /\ agent' = CreateAgentTools(tools)
    /\ built' = TRUE
    /\ UNCHANGED tools

Init ==
    /\ tools \in BoundedSeq(ToolDefs, MaxTools)
    /\ agent = << >>
    /\ built = FALSE

Next == CreateAgent

Spec == Init /\ [][Next]_vars

-----------------------------------------------------------------------------
(* Properties *)

(***************************************************************************)
(* spec.md 2 and 4.3, the reference: the tools a request declares are its *)
(* function schemas in either wire format, named as declared or          *)
(* "unknown"; an OpenAI tool of another type declares no function.        *)
(***************************************************************************)
DeclaredTools(ts) ==
    UNION { { ToolName(ts[i].names[j]) : j \in DOMAIN ts[i].names } :
              i \in { k \in DOMAIN ts : ts[k].format # "openai_other" } }

(***************************************************************************)
(* spec.md 2: the Agent passed to every policy carries the set of tools   *)
(* the caller declared for this request.                                  *)
(***************************************************************************)
AgentCarriesDeclaredTools ==
    built => ToSet(agent) = DeclaredTools(tools)

=============================================================================
