---------------------------- MODULE GeminiStream ----------------------------
(***************************************************************************)
(* The streaming Gemini endpoint stream_generate_content of               *)
(* capsem_proxy/api/gemini.py.  The gates run before the handler returns: *)
(* on_model_call on the prompt, then on_tool_call on every declared       *)
(* function.  The handler returns a StreamingResponse over a generator;  *)
(* the provider is only called when the framework starts consuming it,   *)
(* after the handler (and its exception handlers) have returned.          *)
(***************************************************************************)
EXTENDS GeminiWire

CONSTANT MaxTools   \* bound on the declared function declarations

ASSUME MaxTools \in Nat

\* declared: the names of tools[*].functionDeclarations[*] in order
\* ("unknown" when a declaration has no name, a benign text).
\* fault as in GeminiGenerate: an empty key, unparsable JSON, or JSON that
\* is not an object or has a tools entry that is not one.
Requests ==
    {[fault |-> f, contents |-> << >>, declared |-> << >>] :
        f \in {"empty_key", "bad_json", "bad_shape"}}
        \cup [fault : {"none"}, contents : BodyContents,
              declared : BoundedSeq(Texts, MaxTools)]

VARIABLES
    req,        \* the request
    pc,         \* where the handler, then the stream, is
    idx,        \* index of the declared function being checked
    prompt,     \* prompt_parts as built by this endpoint
    upstream,   \* number of calls made to the provider
    status,     \* the answer to the client, "pending" before
    body        \* the streamed body: "none", "complete", "broken" when the
                \* provider raised or the client went away mid-stream, or
                \* "cancelled" when the client left before the first pull

vars == <<req, pc, idx, prompt, upstream, status, body>>

\* "ok" is the 200 of the StreamingResponse; the others as in GeminiGenerate.
Statuses == {"pending", "ok", "bad_request", "blocked", "internal_error"}

TypeOK ==
    /\ req \in Requests
    /\ pc \in {"received", "model_call", "tools", "respond", "streaming", "done"}
    /\ idx \in Nat
    /\ prompt \in Seq(Texts)
    /\ upstream \in Nat
    /\ status \in Statuses
    /\ body \in {"none", "complete", "broken", "cancelled"}

Finish(code) == status' = code /\ pc' = "done"

\* Mutant of PromptTexts: parts without a "text" key appended too.
PromptTextsAnyPart(contents) ==
    LET ts == FoldLeft(LAMBDA acc, s : acc \o s, << >>,
                       [i \in 1..Len(contents) |-> contents[i].parts])
    IN  [i \in 1..Len(ts) |-> ts[i].text]

\* Every part with a "text" key contributes f"{role}: {text}"; the thought
\* flag is not looked at.
PromptTexts(contents) ==
    LET parts == [i \in 1..Len(contents) |->
                    SelectSeq(contents[i].parts, LAMBDA p : p.text # None)]
        ts == FoldLeft(LAMBDA acc, s : acc \o s, << >>, parts)
    IN  [i \in 1..Len(ts) |-> ts[i].text]

(***************************************************************************)
(* Lines 233-263: an empty API key or an unparsable body is a 400; the     *)
(* prompt loop calls content.get on every entry, so an entry that is not  *)
(* an object raises AttributeError, which the catch-all turns into a 500,  *)
(* as body.get and create_agent do on a body or tool that is not one.     *)
(***************************************************************************)
Receive ==
    /\ pc = "received"
    /\ \/ /\ req.fault \in {"empty_key", "bad_json"}
          /\ Finish("bad_request") /\ UNCHANGED prompt
       \/ req.fault = "bad_shape" /\ Finish("internal_error") /\ UNCHANGED prompt
       \/ /\ req.fault = "none"
          /\ \E i \in DOMAIN req.contents : ~req.contents[i].obj
          /\ Finish("internal_error") /\ UNCHANGED prompt
       \/ /\ req.fault = "none"
          /\ \A i \in DOMAIN req.contents : req.contents[i].obj
          /\ prompt' = PromptTexts(req.contents)
          /\ pc' = "model_call" /\ UNCHANGED status
    /\ UNCHANGED <<req, idx, upstream, body>>

(***************************************************************************)
(* Lines 265-284: the on_model_call gate; a BLOCK is a 403, a raising     *)
(* policy a 500; then the declared tools, if any, are checked.             *)
(***************************************************************************)
ModelCall ==
    /\ pc = "model_call"
    /\ \E o \in Outcomes("on_model_call", JoinTexts(prompt)) :
          \/ o = "BLOCK" /\ Finish("blocked")
          \/ o = RAISE /\ Finish("internal_error")
          \/ /\ o \in {"ALLOW", "CONFIRM"}
             /\ pc' = IF req.declared = << >> THEN "respond" ELSE "tools"
             /\ UNCHANGED status
    /\ idx' = 1
    /\ UNCHANGED <<req, prompt, upstream, body>>

\* Mutant of AfterTool: the loop stops one declaration early.
AfterToolEarly(i) == IF i + 1 < Len(req.declared) THEN "tools" ELSE "respond"

\* After declaration i: the next one, or the response.
AfterTool(i) == IF i < Len(req.declared) THEN "tools" ELSE "respond"

(***************************************************************************)
(* Lines 285-307, one declaration: on_tool_call with the declared name    *)
(* and args={} (the call's arguments are not known yet).                  *)
(***************************************************************************)
CheckTool ==
    /\ pc = "tools"
    /\ \E o \in Outcomes("on_tool_call",
                         [name |-> req.declared[idx], args |-> "empty"]) :
          \/ o = "BLOCK" /\ Finish("blocked")
          \/ o = RAISE /\ Finish("internal_error")
          \/ /\ o \in {"ALLOW", "CONFIRM"}
             /\ pc' = AfterTool(idx)
             /\ UNCHANGED status
    /\ idx' = idx + 1
    /\ UNCHANGED <<req, prompt, upstream, body>>

\* Lines 309-312: the StreamingResponse over the provider stream is returned.
Respond ==
    /\ pc = "respond"
    /\ status' = "ok" /\ pc' = "streaming"
    /\ UNCHANGED <<req, idx, prompt, upstream, body>>

\* Mutant of Stream: a stream the provider broke is opened once more.
StreamRetryBroken ==
    /\ pc = "streaming"
    /\ upstream' = upstream + 1
    /\ \/ body' = "complete" /\ pc' = "done"
       \/ body' = "broken" /\ pc' = IF upstream = 0 THEN "streaming" ELSE "done"
    /\ UNCHANGED <<req, idx, prompt, status>>

(***************************************************************************)
(* gemini_provider.generate_content_stream is a generator the framework   *)
(* drives while it sends the body, after the 200 and its headers: the     *)
(* provider is called with no further gate, and an error it raises then   *)
(* is outside the handler's try, so lines 313-321 never see it.           *)
(* The body then ends early ("broken"), as it does when the client        *)
(* disconnects and the framework closes the generator; either way the     *)
(* 200 already sent stands and nothing is retried or re-gated.            *)
(***************************************************************************)
Stream ==
    /\ pc = "streaming"
    /\ upstream' = upstream + 1 /\ pc' = "done"
    /\ body' \in {"complete", "broken"}
    /\ UNCHANGED <<req, idx, prompt, status>>

(***************************************************************************)
(* The client disconnects after the 200's headers and before the framework *)
(* first pulls the generator: the generator is closed unstarted, so the    *)
(* provider is never called.                                               *)
(***************************************************************************)
Disconnect ==
    /\ pc = "streaming"
    /\ pc' = "done" /\ body' = "cancelled"
    /\ UNCHANGED <<req, idx, prompt, upstream, status>>

Init ==
    /\ req \in Requests
    /\ pc = "received"
    /\ idx = 0
    /\ prompt = << >>
    /\ upstream = 0
    /\ status = "pending"
    /\ body = "none"

Next == Receive \/ ModelCall \/ CheckTool \/ Respond \/ Stream \/ Disconnect

Spec == Init /\ [][Next]_vars /\ WF_vars(Next)

-----------------------------------------------------------------------------
(* Properties *)

(***************************************************************************)
(* P1 and the declared-tool pre-check of spec.md 4.3: with the            *)
(* DebugPolicy registered, the provider stream is never opened for a      *)
(* request whose visible text or any declared function name carries the *)
(* trigger.                                                                *)
(***************************************************************************)
StreamTriggerNeverForwarded ==
    DebugRegistered /\ upstream > 0 =>
        /\ \A p \in ObjectParts(req.contents) : ~(p.text = "trigger" /\ ~p.thought)
        /\ \A i \in DOMAIN req.declared : ~ContainsTrigger(req.declared[i])

(***************************************************************************)
(* spec.md 4.3: thought text is kept apart from the visible text and is   *)
(* not handed to a policy as part of the prompt; the streaming variant    *)
(* performs the same inbound parsing.  The prompt given to on_model_call  *)
(* says of the trigger what the visible text says.                        *)
(***************************************************************************)
VisibleText(contents) ==
    { p \in ObjectParts(contents) : p.text # None /\ ~p.thought }

StreamPromptIsVisibleText ==
    pc = "model_call" =>
        (JoinTexts(prompt) = "trigger"
            <=> \E p \in VisibleText(req.contents) : ContainsTrigger(p.text))

(***************************************************************************)
(* spec.md 4.3 and 7: a malformed contents entry is skipped with a       *)
(* warning and does not fail the request, and a malformed body is a       *)
(* client error (4xx).  With policies that never raise, no request ends   *)
(* in a 500.                                                                *)
(***************************************************************************)
MalformedEntriesSkipped ==
    (\A i \in 1..Len(Policies) : Policies[i] = "Debug")
        => status # "internal_error"

(***************************************************************************)
(* spec.md 4.3 and 4.4: the streaming variant performs the same inbound   *)
(* parsing, embedded tool responses included, and the DebugPolicy blocks *)
(* the trigger in a tool response.  With it registered, no function       *)
(* response carrying the trigger reaches the provider stream.             *)
(***************************************************************************)
StreamToolResponsesScreened ==
    DebugRegistered /\ upstream > 0 =>
        \A p \in ObjectParts(req.contents) : p.fresp # "trigger"

(***************************************************************************)
(* The refinement mapping to the streaming life cycle of spec.md 4.3:     *)
(* the prompt loop is normalization, the on_model_call gate and the       *)
(* declared-tool loop are the pre-flight screening, the returned          *)
(* StreamingResponse is the opened stream, and the provider call the      *)
(* generator makes is the pass-through.                                    *)
(***************************************************************************)
StreamPhaseOf ==
    CASE pc = "received"                  -> "RECEIVED"
      [] pc \in {"model_call", "tools"}    -> "NORMALIZED"
      [] pc = "respond"                   -> "PREFLIGHT_CHECKED"
      [] pc = "streaming"                 -> "OPENED"
      [] body = "cancelled"               -> "CANCELLED"
      [] status = "ok"                    -> "STREAMED"
      [] status = "blocked"               -> "BLOCKED"
      [] OTHER                            -> "FAILED"

StreamLifecycle == INSTANCE StreamLifecycle WITH phase <- StreamPhaseOf

(***************************************************************************)
(* spec.md 4.3, streaming variant: stream_generate_content implements the *)
(* streaming life cycle.  Every pre-flight gate runs before the 200, the  *)
(* provider stream is opened at most once and only after the 200, a       *)
(* block or error happens only before it, and every request ends.         *)
(***************************************************************************)
StreamLifecycleRefined == StreamLifecycle!Spec

=============================================================================
