--------------------------- MODULE SecurityManager ---------------------------
(***************************************************************************)
(* The SecurityManager (capsem/manager.py, specified in spec.md 4.2): it   *)
(* holds the ordered, immutable list of enabled policies and, at each      *)
(* interception point, invokes every policy in registration order and      *)
(* aggregates their verdicts with precedence BLOCK > CONFIRM > ALLOW.      *)
(*                                                                         *)
(* Policies is the registry: a sequence of policy kinds.  "Debug" is the   *)
(* DebugPolicy; "Opaque" stands for any other policy (PII detection, a     *)
(* remote classifier): its verdict is not a function of the abstract input *)
(* and its evaluation may raise, which the manager surfaces to the caller  *)
(* without retry (spec.md 5).  RAISE is that outcome.                      *)
(***************************************************************************)
EXTENDS DebugPolicy, SequencesExt

CONSTANT Policies

ASSUME Policies \in Seq({"Debug", "Opaque"}) /\ Policies # << >>

RAISE == "RAISE"

Rank(v) == CASE v = "ALLOW" -> 0 [] v = "CONFIRM" -> 1 [] v = "BLOCK" -> 2

\* The stronger of two verdicts; the earlier one is kept on a tie.
Stronger(acc, v) == IF Rank(v) > Rank(acc) THEN v ELSE acc

\* The outcomes one policy's hook can produce for this input.
PolicyResults(p, point, input) ==
    IF p = "Debug" THEN {DebugVerdict(point, input)}
    ELSE Verdicts \cup {RAISE}

\* Mutant of Combine: the first policy with an opinion decides.
CombineFirstOpinion(acc, r) ==
    IF acc = RAISE \/ r = RAISE THEN RAISE
    ELSE IF acc # "ALLOW" THEN acc ELSE r

\* Folding one more policy result into the aggregate: a raised evaluation
\* propagates out of the manager.
Combine(acc, r) ==
    IF acc = RAISE \/ r = RAISE THEN RAISE ELSE Stronger(acc, r)

(***************************************************************************)
(* Every aggregate outcome the manager can return at point for input: one *)
(* result per registered policy, folded in registration order starting    *)
(* from the safe default.                                                  *)
(***************************************************************************)
Outcomes(point, input) ==
    { FoldLeft(Combine, "ALLOW", rs) :
        rs \in { r \in [1..Len(Policies) -> Verdicts \cup {RAISE}] :
                   \A i \in 1..Len(Policies) :
                      r[i] \in PolicyResults(Policies[i], point, input) } }

=============================================================================
