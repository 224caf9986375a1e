----------------------------- MODULE GeminiWire -----------------------------
(***************************************************************************)
(* The Gemini generateContent request body as both endpoints of           *)
(* capsem_proxy/api/gemini.py read it: body["contents"], a list of        *)
(* entries with role and parts, each part with an optional text, a        *)
(* thought flag and an optional functionResponse.                         *)
(*                                                                         *)
(* Texts are abstracted by DebugPolicy to benign or triggering; a         *)
(* function response to what str(response) shows of it.  A part's role   *)
(* prefix is taken to be benign.                                           *)
(***************************************************************************)
EXTENDS SecurityManager, Naturals

CONSTANTS
    None,           \* an absent field (None, or a falsy "" for text)
    ReqParts,       \* the request parts the model draws from
    MaxContents,    \* bound on len(body["contents"])
    MaxParts,       \* bound on the parts of one entry or candidate
    Drift           \* whether object entries that Content(c) rejects occur

ReqPart == [text : Texts \cup {None}, thought : BOOLEAN,
            fresp : Texts \cup {None}]

ASSUME ReqParts \subseteq ReqPart
ASSUME {MaxContents, MaxParts} \subseteq Nat \ {0} /\ Drift \in BOOLEAN

(***************************************************************************)
(* A contents entry is a JSON object or something else (a string, null),  *)
(* on which both Content(c) and c.get(...) raise.  An object entry is     *)
(* valid when the SDK model Content(c) accepts it; a drifted one (a field *)
(* the pinned SDK does not know, which the provider accepts) is rejected  *)
(* by Content(c) yet still has parts a dict lookup finds.                 *)
(***************************************************************************)
Contents ==
    {[obj |-> FALSE, valid |-> FALSE, parts |-> << >>]}
        \cup [obj : {TRUE}, valid : IF Drift THEN BOOLEAN ELSE {TRUE},
              parts : BoundedSeq(ReqParts, MaxParts)]

BodyContents == BoundedSeq(Contents, MaxContents)

\* The parts of the object entries: what is forwarded of the prompt.
ObjectParts(contents) ==
    UNION { { contents[i].parts[j] : j \in DOMAIN contents[i].parts } :
              i \in { k \in DOMAIN contents : contents[k].obj } }

DebugRegistered == \E i \in 1..Len(Policies) : Policies[i] = "Debug"

=============================================================================
