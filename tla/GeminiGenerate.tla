--------------------------- MODULE GeminiGenerate ---------------------------
(***************************************************************************)
(* The non-streaming Gemini endpoint generate_content of                  *)
(* capsem_proxy/api/gemini.py: one request taken through inbound          *)
(* normalization, the on_tool_response and on_model_call gates, the       *)
(* upstream call, response normalization, the on_tool_call and            *)
(* on_model_response gates, and the return to the client.                 *)
(*                                                                         *)
(* Requests are independent (no state is shared between them but the      *)
(* read-only SecurityManager), so one request is modelled.  Every await   *)
(* of the handler is a step; the synchronous code between two awaits is  *)
(* part of the step that ends at the second one.                           *)
(***************************************************************************)
EXTENDS GeminiWire

CONSTANTS
    RespParts,      \* the response parts the model draws from
    MaxCandidates   \* bound on len(response.candidates)

FunctionCall == [name : Texts, args : Texts]
RespPart == [text : Texts \cup {None}, thought : BOOLEAN,
             fcall : FunctionCall \cup {None}]

ASSUME RespParts \subseteq RespPart /\ MaxCandidates \in Nat \ {0}

\* fault: "empty_key" is an empty x-goog-api-key, "bad_json" a body that
\* request.json() cannot parse, "bad_shape" JSON that is not an object or
\* whose "tools" holds an entry that is not an object; their contents are
\* never looked at.
Requests ==
    {[fault |-> f, contents |-> << >>] :
        f \in {"empty_key", "bad_json", "bad_shape"}}
        \cup [fault : {"none"}, contents : BodyContents]

\* A candidate whose content is None carries no parts.
Candidates ==
    {[content |-> FALSE, parts |-> << >>]}
        \cup [content : {TRUE}, parts : BoundedSeq(RespParts, MaxParts)]

\* valid = FALSE: GenerateContentResponse(raw_response) raises.
Responses ==
    {[valid |-> FALSE, cands |-> << >>]}
        \cup [valid : {TRUE}, cands : BoundedSeq(Candidates, MaxCandidates)]

NoResponse == [valid |-> FALSE, cands |-> << >>]

\* The outcomes of gemini_provider.generate_content: an httpx
\* HTTPStatusError, another httpx HTTPError, or a raw response.
UpstreamOutcomes == {"status_error", "transport_error", "ok"}

VARIABLES
    req,        \* the request: the API key/JSON fault and body["contents"]
    pc,         \* where the handler is
    idx,        \* index of the content, or of the candidate, being read
    pidx,       \* index of the part of the candidate being read
    prompt,     \* prompt_parts: the non-thought texts of the contents
    resp,       \* the parsed provider response
    respText,   \* response_parts: the non-thought texts of the candidates
    upstream,   \* number of calls made to the provider
    status      \* the answer returned to the client, "pending" before

vars == <<req, pc, idx, pidx, prompt, resp, respText, upstream, status>>

PCs == {"received", "contents", "model_call", "forward", "parse",
        "candidates", "model_response", "respond", "done"}

\* The handler's answers: 200, 400 (ValueError), 403 (BLOCK), 500 (any
\* other exception), 502 (bad gateway) and the provider's own error status.
Statuses == {"pending", "ok", "bad_request", "blocked", "internal_error",
             "bad_gateway", "upstream_status"}

TypeOK ==
    /\ req \in Requests
    /\ pc \in PCs
    /\ idx \in Nat /\ pidx \in Nat
    /\ prompt \in Seq(Texts)
    /\ resp \in Responses
    /\ respText \in Seq(Texts)
    /\ upstream \in Nat
    /\ status \in Statuses

-----------------------------------------------------------------------------
(* Helpers *)

\* Mutant of VisibleTexts: the `if part.text` test dropped.
VisibleTextsAnyText(parts) ==
    LET ts == SelectSeq(parts, LAMBDA p : ~p.thought)
    IN  [i \in 1..Len(ts) |-> ts[i].text]

\* The texts of the parts with a truthy text whose thought flag is off.
VisibleTexts(parts) ==
    LET ts == SelectSeq(parts, LAMBDA p : p.text # None /\ ~p.thought)
    IN  [i \in 1..Len(ts) |-> ts[i].text]

\* The handler ends with an HTTP status (a return or a raised HTTPException).
Finish(code) ==
    /\ status' = code
    /\ pc' = "done"

\* Mutant of Decide: a raising policy treated as ALLOW (fail-open).
DecideFailOpen(o, Continue) ==
    \/ o = "BLOCK" /\ Finish("blocked") /\ UNCHANGED <<idx, pidx>>
    \/ o \in {"ALLOW", "CONFIRM", RAISE} /\ Continue

(***************************************************************************)
(* _decide: a BLOCK verdict raises HTTPException(403); any other verdict   *)
(* (CONFIRM included) lets the handler continue with Continue.  A policy  *)
(* evaluation that raised reaches the catch-all and becomes a 500.         *)
(***************************************************************************)
Decide(o, Continue) ==
    \/ o = "BLOCK" /\ Finish("blocked") /\ UNCHANGED <<idx, pidx>>
    \/ o = RAISE /\ Finish("internal_error") /\ UNCHANGED <<idx, pidx>>
    \/ o \in {"ALLOW", "CONFIRM"} /\ Continue

\* Mutant of NextContent: the loop stops one entry early.
NextContentEarly(i) ==
    /\ idx' = i + 1
    /\ pc' = IF i + 1 < Len(req.contents) THEN "contents" ELSE "model_call"
    /\ UNCHANGED <<pidx, status>>

\* After content i: the next content, or the model-call gate.
NextContent(i) ==
    /\ idx' = i + 1
    /\ pc' = IF i < Len(req.contents) THEN "contents" ELSE "model_call"
    /\ UNCHANGED <<pidx, status>>

\* Mutant of NextCandidate: the loop stops one candidate early.
NextCandidateEarly(i) ==
    /\ idx' = i + 1
    /\ pidx' = 1
    /\ pc' = IF i + 1 < Len(resp.cands) THEN "candidates" ELSE "model_response"
    /\ UNCHANGED status

\* After the last part of candidate i: the next one, or on_model_response.
NextCandidate(i) ==
    /\ idx' = i + 1
    /\ pidx' = 1
    /\ pc' = IF i < Len(resp.cands) THEN "candidates" ELSE "model_response"
    /\ UNCHANGED status

-----------------------------------------------------------------------------
(* Actions *)

(***************************************************************************)
(* Lines 74-103: the API key is extracted (ValueError when empty), the     *)
(* body parsed (ValueError when it is not JSON), both answered with 400;   *)
(* then the agent is created and the contents loop starts.  body.get and  *)
(* create_agent's tool_def.get raise AttributeError on a value that is    *)
(* not an object, which only the catch-all catches: a 500.                *)
(***************************************************************************)
Receive ==
    /\ pc = "received"
    /\ \/ req.fault \in {"empty_key", "bad_json"}
          /\ Finish("bad_request") /\ UNCHANGED idx
       \/ req.fault = "bad_shape" /\ Finish("internal_error") /\ UNCHANGED idx
       \/ /\ req.fault = "none"
          /\ idx' = 1
          /\ pc' = IF req.contents = << >> THEN "model_call" ELSE "contents"
          /\ UNCHANGED status
    /\ UNCHANGED <<req, pidx, prompt, resp, respText, upstream>>

(***************************************************************************)
(* Lines 104-130, one iteration: an entry that fails validation or has no *)
(* parts is skipped; otherwise its visible texts join prompt_parts, and    *)
(* the function_response of `part` -- the loop variable left over from the *)
(* parts loop, so the LAST part of the entry -- goes to on_tool_response.  *)
(***************************************************************************)
ReadContent ==
    /\ pc = "contents"
    /\ LET c == req.contents[idx] IN
       IF ~c.valid \/ c.parts = << >>
       THEN NextContent(idx) /\ UNCHANGED prompt
       ELSE LET part == c.parts[Len(c.parts)] IN
            /\ prompt' = prompt \o VisibleTexts(c.parts)
            /\ IF part.fresp = None
               THEN NextContent(idx)
               ELSE \E o \in Outcomes("on_tool_response", part.fresp) :
                       Decide(o, NextContent(idx))
    /\ UNCHANGED <<req, resp, respText, upstream>>

\* Lines 133-145: the on_model_call gate on "\n".join(prompt_parts).
ModelCall ==
    /\ pc = "model_call"
    /\ \E o \in Outcomes("on_model_call", JoinTexts(prompt)) :
          Decide(o, pc' = "forward" /\ UNCHANGED <<idx, pidx, status>>)
    /\ UNCHANGED <<req, prompt, resp, respText, upstream>>

(***************************************************************************)
(* Line 149 and the httpx handlers of lines 211-218: the provider is      *)
(* called; an HTTPStatusError passes its status on, another HTTPError is  *)
(* a 502.                                                                  *)
(***************************************************************************)
Forward ==
    /\ pc = "forward"
    /\ upstream' = upstream + 1
    /\ \E out \in UpstreamOutcomes :
          \/ out = "status_error" /\ Finish("upstream_status") /\ UNCHANGED resp
          \/ out = "transport_error" /\ Finish("bad_gateway") /\ UNCHANGED resp
          \/ out = "ok" /\ pc' = "parse" /\ UNCHANGED status
             /\ \E r \in Responses : resp' = r
    /\ UNCHANGED <<req, idx, pidx, prompt, respText>>

(***************************************************************************)
(* Lines 150-161: an unparsable response is a 502; a response without     *)
(* candidates is returned at once, without any response gate.             *)
(***************************************************************************)
ParseResponse ==
    /\ pc = "parse"
    /\ \/ ~resp.valid /\ Finish("bad_gateway") /\ UNCHANGED <<idx, pidx>>
       \/ resp.valid /\ resp.cands = << >> /\ Finish("ok") /\ UNCHANGED <<idx, pidx>>
       \/ /\ resp.valid /\ resp.cands # << >>
          /\ pc' = "candidates" /\ idx' = 1 /\ pidx' = 1
          /\ UNCHANGED status
    /\ UNCHANGED <<req, prompt, resp, respText, upstream>>

\* Lines 163-166: a candidate without content, or without parts, is skipped.
SkipCandidate ==
    /\ pc = "candidates"
    /\ LET cand == resp.cands[idx] IN ~cand.content \/ cand.parts = << >>
    /\ NextCandidate(idx)
    /\ UNCHANGED <<req, prompt, resp, respText, upstream>>

(***************************************************************************)
(* Lines 167-188, one part: its visible text joins response_parts, and a  *)
(* function_call goes to the on_tool_call gate with its name and args.    *)
(***************************************************************************)
ReadPart ==
    /\ pc = "candidates"
    /\ LET cand == resp.cands[idx]
           part == cand.parts[pidx]
           Advance == IF pidx < Len(cand.parts)
                      THEN pidx' = pidx + 1 /\ UNCHANGED <<idx, pc, status>>
                      ELSE NextCandidate(idx)
       IN /\ cand.content /\ cand.parts # << >>
          /\ respText' = respText \o VisibleTexts(<<part>>)
          /\ IF part.fcall = None
             THEN Advance
             ELSE \E o \in Outcomes("on_tool_call", part.fcall) : Decide(o, Advance)
    /\ UNCHANGED <<req, prompt, resp, upstream>>

\* Mutant of ModelResponse: the gate skipped when the response has no text
\* part, and the response returned at once.
ModelResponseSkipEmpty ==
    /\ pc = "model_response"
    /\ \/ respText = << >> /\ Finish("ok") /\ UNCHANGED <<idx, pidx>>
       \/ /\ respText # << >>
          /\ \E o \in Outcomes("on_model_response", JoinTexts(respText)) :
                Decide(o, pc' = "respond" /\ UNCHANGED <<idx, pidx, status>>)
    /\ UNCHANGED <<req, prompt, resp, respText, upstream>>

\* Lines 190-200: the on_model_response gate on "\n".join(response_parts).
ModelResponse ==
    /\ pc = "model_response"
    /\ \E o \in Outcomes("on_model_response", JoinTexts(respText)) :
          Decide(o, pc' = "respond" /\ UNCHANGED <<idx, pidx, status>>)
    /\ UNCHANGED <<req, prompt, resp, respText, upstream>>

\* Lines 201-204: the parsed response is returned to the client.
Respond ==
    /\ pc = "respond"
    /\ Finish("ok")
    /\ UNCHANGED <<req, idx, pidx, prompt, resp, respText, upstream>>

Init ==
    /\ req \in Requests
    /\ pc = "received"
    /\ idx = 0 /\ pidx = 0
    /\ prompt = << >>
    /\ resp = NoResponse
    /\ respText = << >>
    /\ upstream = 0
    /\ status = "pending"

Next ==
    \/ Receive \/ ReadContent \/ ModelCall \/ Forward \/ ParseResponse
    \/ SkipCandidate \/ ReadPart \/ ModelResponse \/ Respond

Spec == Init /\ [][Next]_vars

-----------------------------------------------------------------------------
(* Properties *)

(***************************************************************************)
(* P1 of spec.md: with the DebugPolicy registered, a request whose visible *)
(* prompt text contains the trigger never reaches the provider.  The      *)
(* whole body is forwarded, so this covers every object entry; it rests  *)
(* on the contents loop reading every entry and part it forwards.         *)
(***************************************************************************)
TriggerPromptNeverForwarded ==
    DebugRegistered /\ upstream > 0 =>
        \A p \in ObjectParts(req.contents) : ~(p.text = "trigger" /\ ~p.thought)

(***************************************************************************)
(* DebugPolicy's description and spec.md 4.3: a tool (function) response  *)
(* carrying the trigger in any forwarded contents entry is blocked by     *)
(* on_tool_response before the request is forwarded.                      *)
(***************************************************************************)
ToolResponsesScreened ==
    DebugRegistered /\ upstream > 0 =>
        \A p \in ObjectParts(req.contents) : p.fresp # "trigger"

\* The parts of the candidates the handler reads (content and parts present).
ReturnedParts ==
    UNION { { resp.cands[i].parts[j] : j \in DOMAIN resp.cands[i].parts } :
              i \in DOMAIN resp.cands }

(***************************************************************************)
(* P6 and P1 on the way back: with the DebugPolicy registered, a response *)
(* returned to the client (200) contains no function call whose name or   *)
(* arguments carry the trigger and no visible text carrying it.  It rests *)
(* on the candidate and part loops visiting everything before the         *)
(* on_model_response gate and the return.                                 *)
(***************************************************************************)
ReturnedResponseScreened ==
    DebugRegistered /\ status = "ok" =>
        \A p \in ReturnedParts :
            /\ p.fcall # None => ~ContainsTrigger(p.fcall.name)
                                 /\ ~ContainsTrigger(p.fcall.args)
            /\ ~(p.text = "trigger" /\ ~p.thought)

(***************************************************************************)
(* Refinement of the request life cycle of spec.md 4.3: the gates run in  *)
(* the order the spec lists, the provider is called once and only after   *)
(* the model-call gate, and a BLOCK ends the request for good.            *)
(***************************************************************************)
PhaseOf ==
    CASE pc \in {"received", "contents"} -> "RECEIVED"
      [] pc = "model_call"     -> "NORMALIZED"
      [] pc = "forward"        -> "MODEL_CALL_CHECKED"
      [] pc = "parse"          -> "FORWARDED"
      [] pc = "candidates"     -> "RESPONSE_NORMALIZED"
      [] pc = "model_response" -> "TOOL_CALLS_CHECKED"
      [] pc = "respond"        -> "MODEL_RESPONSE_CHECKED"
      [] pc = "done" /\ status = "ok" -> "RETURNED"
      [] pc = "done" /\ status = "blocked" -> "BLOCKED"
      [] OTHER                 -> "FAILED"

Lifecycle == INSTANCE RequestLifecycle
                WITH phase <- PhaseOf, upstream <- upstream,
                     empty <- (resp.cands = << >>)

LifecycleRefined == Lifecycle!Spec

=============================================================================
