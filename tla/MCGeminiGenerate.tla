-------------------------- MODULE MCGeminiGenerate --------------------------
(***************************************************************************)
(* Model-checking instance of GeminiGenerate: the request and response    *)
(* parts are the shapes the gates tell apart -- benign and triggering      *)
(* visible text, triggering thought text, benign and triggering function  *)
(* responses, benign and triggering function calls.                       *)
(***************************************************************************)
EXTENDS GeminiGenerate

TextPart(t, th) == [text |-> t, thought |-> th, fresp |-> None]
FRespPart(r)    == [text |-> None, thought |-> FALSE, fresp |-> r]

\* The default registry: the DebugPolicy alone.
MCDebugOnly == <<"Debug">>

\* A registry loaded from a configuration directory: another policy
\* (PIIDetection, say) registered before the DebugPolicy.
MCOpaqueThenDebug == <<"Opaque", "Debug">>

MCReqParts ==
    { TextPart("benign", FALSE), TextPart("trigger", FALSE),
      TextPart("trigger", TRUE), FRespPart("trigger"), FRespPart("benign") }

RTextPart(t, th) == [text |-> t, thought |-> th, fcall |-> None]
FCallPart(n, a)  == [text |-> None, thought |-> FALSE,
                     fcall |-> [name |-> n, args |-> a]]

MCRespParts ==
    { RTextPart("benign", FALSE), RTextPart("trigger", FALSE),
      RTextPart("trigger", TRUE), FCallPart("benign", "benign"),
      FCallPart("trigger", "benign"), FCallPart("benign", "trigger") }

=============================================================================
