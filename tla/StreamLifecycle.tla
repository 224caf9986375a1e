-------------------------- MODULE StreamLifecycle --------------------------
(***************************************************************************)
(* What a provider normalizer promises for one streaming request          *)
(* (spec.md 4.3, streaming variant): the same inbound parsing and the     *)
(* pre-flight gates (on_model_call and the declared-tool pre-checks) run  *)
(* before the upstream stream is opened; once it is open, chunks pass     *)
(* through with no further gate.                                           *)
(*                                                                         *)
(*   RECEIVED -> NORMALIZED -> PREFLIGHT_CHECKED -> OPENED -> STREAMED     *)
(*                                                                         *)
(* OPENED is the client's 200; STREAMED is the upstream stream having      *)
(* been opened, exactly once.  A gate blocks only while the request is    *)
(* being screened (NORMALIZED); a client or policy error ends it before   *)
(* the 200 (FAILED); a client that leaves after the 200 and before the   *)
(* upstream stream is opened cancels it (CANCELLED).  Every request       *)
(* eventually reaches a terminal phase.                                    *)
(***************************************************************************)
EXTENDS Naturals

VARIABLES phase, upstream

Terminal == {"STREAMED", "CANCELLED", "BLOCKED", "FAILED"}

Move(from, to) == phase = from /\ phase' = to

Init == phase = "RECEIVED" /\ upstream = 0

Normalize      == Move("RECEIVED", "NORMALIZED") /\ UNCHANGED upstream
CheckPreflight == Move("NORMALIZED", "PREFLIGHT_CHECKED") /\ UNCHANGED upstream
Open           == Move("PREFLIGHT_CHECKED", "OPENED") /\ UNCHANGED upstream
PassThrough    == Move("OPENED", "STREAMED") /\ upstream' = upstream + 1
\* spec.md 5: the client went away before the upstream stream was opened.
Cancel         == Move("OPENED", "CANCELLED") /\ UNCHANGED upstream
Block          == Move("NORMALIZED", "BLOCKED") /\ UNCHANGED upstream
Fail           == phase \in {"RECEIVED", "NORMALIZED"} /\ phase' = "FAILED"
                    /\ UNCHANGED upstream

Next == Normalize \/ CheckPreflight \/ Open \/ PassThrough \/ Cancel
        \/ Block \/ Fail

Spec == Init /\ [][Next]_<<phase, upstream>> /\ WF_<<phase, upstream>>(Next)

=============================================================================
