---------------------------- MODULE DebugPolicy ----------------------------
(***************************************************************************)
(* The DebugPolicy of capsem/policies/debug_policy.py: the default policy  *)
(* the proxy installs.  It blocks when the literal DEBUG_TRIGGER           *)
(* "capsem_block" occurs, case-insensitively, in what a hook inspects.     *)
(*                                                                         *)
(* Text is abstracted to what the policy can tell apart: "trigger" is a   *)
(* string whose lower() contains "capsem_block", "benign" one whose        *)
(* lower() does not, "empty" the empty string.                             *)
(***************************************************************************)
EXTENDS Sequences, Naturals

Verdicts == {"ALLOW", "CONFIRM", "BLOCK"}

Texts == {"benign", "trigger"}

\* "x" in s.lower(), where DEBUG_TRIGGER = "capsem_block"
ContainsTrigger(t) == t = "trigger"

(***************************************************************************)
(* "\n".join(parts): the separator cannot be part of "capsem_block", so a  *)
(* join contains the trigger exactly when one of its parts does; joining   *)
(* no parts gives the empty string.                                        *)
(***************************************************************************)
JoinTexts(s) ==
    IF s = << >> THEN "empty"
    ELSE IF \E i \in 1..Len(s) : ContainsTrigger(s[i]) THEN "trigger"
    ELSE "benign"

\* on_tool_call: tool.name checked first, then ", ".join of k=v for args.
\* Both comparisons only decide BLOCK vs the safe decision.
OnToolCall(name, args) ==
    IF ContainsTrigger(name) \/ ContainsTrigger(args) THEN "BLOCK" ELSE "ALLOW"

\* on_tool_response: str(response) searched for the trigger.
OnToolResponse(response) ==
    IF ContainsTrigger(response) THEN "BLOCK" ELSE "ALLOW"

\* on_model_call: only the prompt is searched (not system_instructions).
OnModelCall(prompt) ==
    IF ContainsTrigger(prompt) THEN "BLOCK" ELSE "ALLOW"

\* on_model_response: only the response text, thoughts are not searched.
OnModelResponse(response) ==
    IF ContainsTrigger(response) THEN "BLOCK" ELSE "ALLOW"

\* on_workflow_start/end and on_agent_start/end return DEFAULT_SAFE_DECISION.
OnLifecycle == "ALLOW"

(***************************************************************************)
(* The hook dispatch: the verdict the policy returns at interception point *)
(* point for input (a record [name, args] for on_tool_call, a text         *)
(* otherwise).                                                             *)
(***************************************************************************)
DebugVerdict(point, input) ==
    CASE point = "on_tool_call"      -> OnToolCall(input.name, input.args)
      [] point = "on_tool_response"  -> OnToolResponse(input)
      [] point = "on_model_call"     -> OnModelCall(input)
      [] point = "on_model_response" -> OnModelResponse(input)
      [] OTHER                       -> OnLifecycle

=============================================================================
