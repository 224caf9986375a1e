-------------------------- MODULE RequestLifecycle --------------------------
(***************************************************************************)
(* What a provider normalizer promises for one non-streaming request      *)
(* (spec.md 4.3): RECEIVED -> NORMALIZED -> MODEL_CALL_CHECKED ->          *)
(* FORWARDED -> RESPONSE_NORMALIZED -> TOOL_CALLS_CHECKED ->               *)
(* MODEL_RESPONSE_CHECKED -> RETURNED, with BLOCKED reachable from every   *)
(* step that runs a gate and terminal, and the provider called only on    *)
(* the step to FORWARDED.                                                  *)
(*                                                                         *)
(* Two things the spec's list leaves implicit are made explicit: the       *)
(* on_tool_response gate runs while the request is normalized, so a block *)
(* can happen before NORMALIZED; and a response with no candidates has    *)
(* nothing to screen (empty), so it may be returned once received.         *)
(* FAILED collects the error exits of spec.md 7 (4xx, 5xx, upstream).      *)
(***************************************************************************)
EXTENDS Naturals

VARIABLES phase, upstream, empty

Phases == {"RECEIVED", "NORMALIZED", "MODEL_CALL_CHECKED", "FORWARDED",
           "RESPONSE_NORMALIZED", "TOOL_CALLS_CHECKED",
           "MODEL_RESPONSE_CHECKED", "RETURNED", "BLOCKED", "FAILED"}

\* The phases a gate is evaluated from.
GatePhases == {"RECEIVED", "NORMALIZED", "RESPONSE_NORMALIZED",
               "TOOL_CALLS_CHECKED"}

Step(from, to) == phase = from /\ phase' = to

Init == phase = "RECEIVED" /\ upstream = 0 /\ empty \in BOOLEAN

Normalize          == Step("RECEIVED", "NORMALIZED") /\ UNCHANGED <<upstream, empty>>
CheckModelCall     == Step("NORMALIZED", "MODEL_CALL_CHECKED") /\ UNCHANGED <<upstream, empty>>
Forward            == Step("MODEL_CALL_CHECKED", "FORWARDED")
                        /\ upstream' = upstream + 1 /\ empty' \in BOOLEAN
NormalizeResponse  == ~empty /\ Step("FORWARDED", "RESPONSE_NORMALIZED")
                        /\ UNCHANGED <<upstream, empty>>
CheckToolCalls     == Step("RESPONSE_NORMALIZED", "TOOL_CALLS_CHECKED")
                        /\ UNCHANGED <<upstream, empty>>
CheckModelResponse == Step("TOOL_CALLS_CHECKED", "MODEL_RESPONSE_CHECKED")
                        /\ UNCHANGED <<upstream, empty>>
Return             == /\ \/ Step("MODEL_RESPONSE_CHECKED", "RETURNED")
                         \/ empty /\ Step("FORWARDED", "RETURNED")
                      /\ UNCHANGED <<upstream, empty>>
Block              == phase \in GatePhases /\ phase' = "BLOCKED"
                        /\ UNCHANGED <<upstream, empty>>
\* Client input errors, raising policies, an unusable provider answer.
Fail               == phase \in GatePhases \cup {"FORWARDED"}
                        /\ phase' = "FAILED" /\ UNCHANGED <<upstream, empty>>
\* The provider is called and answers with an error.
ForwardFails       == Step("MODEL_CALL_CHECKED", "FAILED")
                        /\ upstream' = upstream + 1 /\ UNCHANGED empty

Next == Normalize \/ CheckModelCall \/ Forward \/ NormalizeResponse
        \/ CheckToolCalls \/ CheckModelResponse \/ Return \/ Block
        \/ Fail \/ ForwardFails

Spec == Init /\ [][Next]_<<phase, upstream, empty>>

=============================================================================
