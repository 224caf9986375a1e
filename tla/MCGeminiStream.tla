--------------------------- MODULE MCGeminiStream ---------------------------
(***************************************************************************)
(* Model-checking instance of GeminiStream: benign and triggering visible *)
(* text, triggering thought text, and a triggering function response.    *)
(***************************************************************************)
EXTENDS GeminiStream

TextPart(t, th) == [text |-> t, thought |-> th, fresp |-> None]

MCStreamParts ==
    { TextPart("benign", FALSE), TextPart("trigger", FALSE),
      TextPart("trigger", TRUE),
      [text |-> None, thought |-> FALSE, fresp |-> "trigger"] }

MCDebugOnly == <<"Debug">>

MCOpaqueThenDebug == <<"Opaque", "Debug">>

=============================================================================
