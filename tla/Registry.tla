------------------------------ MODULE Registry ------------------------------
(***************************************************************************)
(* How the proxy process obtains its policy list: the module body of      *)
(* capsem_proxy/capsem_integration.py builds security_manager from         *)
(* PROXY_CONFIG_DIR, through capsem.config_loader (spec.md 4.4) and the    *)
(* policies' from_config factories; api/gemini.py binds that object to its *)
(* own name security_manager when it is imported (gemini.py:27).           *)
(*                                                                         *)
(* The environment and the files of the directory may change while the    *)
(* process runs.  A test harness (tests/test_config_loading.py) then       *)
(* re-executes the module body with importlib.reload; MaxReloads = 0 is a  *)
(* process that is never reloaded.                                         *)
(***************************************************************************)
EXTENDS Naturals, SequencesExt

CONSTANTS
    MaxFragments,   \* bound on the configuration fragments of the directory
    MaxReloads      \* bound on importlib.reload(capsem_integration)

ASSUME MaxFragments \in Nat /\ MaxReloads \in Nat

\* Policy kinds with a fragment: debug.toml and pii.toml.
Kinds == {"Debug", "PII"}

\* A fragment: the policy it configures and its `enabled` field.
Fragment == [kind : Kinds, enabled : BOOLEAN]

(***************************************************************************)
(* The environment at import time: PROXY_CONFIG_DIR unset, naming a path *)
(* that does not exist, or an existing directory with its fragments (one  *)
(* file per policy kind, in directory order) that load_policies_from_    *)
(* directory either loads or raises on (loadable = FALSE).                 *)
(***************************************************************************)
Envs ==
    [dir : {"unset", "missing"}, frags : {<< >>}, loadable : {TRUE}]
        \cup [dir : {"exists"},
              frags : {fs \in BoundedSeq(Fragment, MaxFragments) :
                         \A i, j \in DOMAIN fs : i # j => fs[i].kind # fs[j].kind},
              loadable : BOOLEAN]

None == "None"

\* Mutant of FromConfig: the instance named after its class ("DebugPolicy").
FromConfigClassName(f) == IF ~f.enabled THEN None ELSE f.kind \o "Policy"

\* from_config: None (skip) when `enabled` is false, else the instance.
FromConfig(f) == IF ~f.enabled THEN None ELSE f.kind

\* SecurityManager() followed by add_policy(DebugPolicy()).
DefaultPolicies == << "Debug" >>

(***************************************************************************)
(* load_policies_from_directory (spec.md 4.4): every fragment through     *)
(* from_config, the skipped ones dropped, in the order encountered; zero  *)
(* enabled policies fall back to the default policy.                       *)
(***************************************************************************)
LoadPolicies(frags) ==
    LET built == [i \in DOMAIN frags |-> FromConfig(frags[i])]
        enabled == SelectSeq(built, LAMBDA p : p # None)
    IN  IF enabled = << >> THEN DefaultPolicies ELSE enabled

\* Mutant of Bootstrap: the except branch without add_policy(DebugPolicy()).
BootstrapFallbackEmpty(env) ==
    IF env.dir = "exists"
    THEN IF env.loadable THEN LoadPolicies(env.frags) ELSE << >>
    ELSE DefaultPolicies

(***************************************************************************)
(* Lines 28-48: an existing directory is loaded, and a load that raises   *)
(* falls back to the default; an unset or missing directory gives the     *)
(* default.  The value is the manager's policy list.                       *)
(***************************************************************************)
Bootstrap(env) ==
    IF env.dir = "exists"
    THEN IF env.loadable THEN LoadPolicies(env.frags) ELSE DefaultPolicies
    ELSE DefaultPolicies

VARIABLES
    env,        \* os.environ["PROXY_CONFIG_DIR"] and the directory's files
    imported,   \* whether capsem_integration's body has run
    registry,   \* capsem_integration.security_manager's policies
    loadedEnv,  \* the environment its body last ran with
    gemini,     \* gemini.security_manager: bound at import, and its policies
    reloads     \* reloads done so far

vars == <<env, imported, registry, loadedEnv, gemini, reloads>>

TypeOK ==
    /\ env \in Envs /\ loadedEnv \in Envs
    /\ imported \in BOOLEAN
    /\ registry \in Seq(Kinds)
    /\ gemini \in [bound : BOOLEAN, policies : Seq(Kinds)]
    /\ reloads \in 0..MaxReloads

\* The module body runs on first import (the server imports it).
ImportIntegration ==
    /\ ~imported
    /\ imported' = TRUE
    /\ registry' = Bootstrap(env)
    /\ loadedEnv' = env
    /\ UNCHANGED <<env, gemini, reloads>>

(***************************************************************************)
(* gemini.py:27, `from capsem_integration import security_manager`: runs *)
(* the module body first if it has not run, then binds its current value. *)
(***************************************************************************)
ImportGemini ==
    /\ ~gemini.bound
    /\ IF imported
       THEN /\ gemini' = [bound |-> TRUE, policies |-> registry]
            /\ UNCHANGED <<imported, registry, loadedEnv>>
       ELSE /\ imported' = TRUE
            /\ registry' = Bootstrap(env) /\ loadedEnv' = env
            /\ gemini' = [bound |-> TRUE, policies |-> Bootstrap(env)]
    /\ UNCHANGED <<env, reloads>>

\* PROXY_CONFIG_DIR is set, or the directory's files written, anew.
SetEnv ==
    /\ env' \in Envs \ {env}
    /\ UNCHANGED <<imported, registry, loadedEnv, gemini, reloads>>

\* importlib.reload(capsem_integration): the body runs again; modules that
\* imported the old value keep it.
Reload ==
    /\ imported /\ reloads < MaxReloads
    /\ registry' = Bootstrap(env) /\ loadedEnv' = env
    /\ reloads' = reloads + 1
    /\ UNCHANGED <<env, imported, gemini>>

Init ==
    /\ env \in Envs /\ loadedEnv = env
    /\ imported = FALSE
    /\ registry = << >>
    /\ gemini = [bound |-> FALSE, policies |-> << >>]
    /\ reloads = 0

Next == ImportIntegration \/ ImportGemini \/ SetEnv \/ Reload

Spec == Init /\ [][Next]_vars

-----------------------------------------------------------------------------
(* Properties *)

(***************************************************************************)
(* P5 and spec.md 4.4, the policies a configuration should give: the      *)
(* enabled fragments of a loadable directory in directory order; the      *)
(* default policy alone when the directory is unset, missing, unreadable  *)
(* or enables nothing.                                                     *)
(***************************************************************************)
Expected(e) ==
    LET on == SelectSeq(e.frags, LAMBDA f : f.enabled)
    IN  IF e.dir = "exists" /\ e.loadable /\ on # << >>
        THEN [i \in DOMAIN on |-> on[i].kind]
        ELSE << "Debug" >>

(***************************************************************************)
(* capsem_integration.security_manager, the object the tests inspect,     *)
(* always holds the policies of the configuration its body last ran with, *)
(* through the directory branches, the loader and from_config.            *)
(***************************************************************************)
IntegrationMatchesConfig ==
    imported => registry = Expected(loadedEnv)

(***************************************************************************)
(* The Gemini endpoints enforce the configuration capsem_integration was *)
(* last loaded with: the manager gemini.py bound is that configuration's.  *)
(***************************************************************************)
ConfiguredPoliciesEnforced ==
    gemini.bound => gemini.policies = Expected(loadedEnv)

=============================================================================
