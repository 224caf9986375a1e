# TLA+ models of the capsem policy-enforcement proxy

This directory holds TLA+ models of the capsem proxy and the TLC configurations that check them. The proxy is a FastAPI gateway. It sits between a client and the Gemini API and asks a `SecurityManager` for a verdict at each interception point. When the verdict is BLOCK, the request is not forwarded or the response is not returned.

## 1. The system, as the code has it

| Part | Source | State | Operations |
|---|---|---|---|
| DebugPolicy | `src/capsem_python/capsem/policies/debug_policy.py` | none: it is a pure function of what each hook sees | `on_tool_call` (name, then args), `on_tool_response`, `on_model_call` (prompt only), `on_model_response` (text only), the lifecycle hooks (always the safe decision), `from_config` |
| SecurityManager | `capsem/manager.py` (not in `src/`; from spec.md 4.2) | the ordered, immutable policy list | one `on_*` call per interception point. It calls every policy in registration order and aggregates with precedence BLOCK > CONFIRM > ALLOW. A policy that raises is surfaced to the caller. |
| Registry bootstrap | `src/capsem_proxy/capsem_proxy/capsem_integration.py` 28-48 | the module-level `security_manager` | reads `PROXY_CONFIG_DIR`. If the directory exists, it loads from it; if loading raises, or the directory is missing, it falls back to the DebugPolicy alone. |
| create_agent | `capsem_integration.py` 51-81 | none | builds the `Agent` from the request. Only OpenAI `{"type": "function"}` tools are kept. |
| Gemini generate | `src/capsem_proxy/capsem_proxy/api/gemini.py` 64-221 | one request: the body, loop indices, the prompt, the upstream response | key check; JSON parse; contents loop with `on_tool_response`; `on_model_call`; the upstream call; response parsing; candidate and part loops with `on_tool_call`; `on_model_response`; return; mapping of exceptions to statuses |
| Gemini stream | `gemini.py` 224-324 | one request | key check; JSON parse; prompt loop; `on_model_call`; `on_tool_call` on each declared function; return of a `StreamingResponse`, whose generator calls the provider lazily |
| `_decide` / `utils.decide` | `gemini.py` 53-62, `api/utils.py` 25-44 | none | BLOCK becomes a 403. ALLOW and CONFIRM both continue. |
| Tool schema scratch file | `src/test.py` | none | Pydantic `Tool` conversions. No part of the pipeline uses them. |

Requests share only the manager and its policy list, which are read-only after start-up. Concurrent requests therefore do not interact through the gates. What makes one request hard is its own order of steps: many awaits, nested loops with `continue`, exceptions raised from any gate or from the provider, and a raw body that is forwarded while only a parsed view of it is screened.

## 2. Modules

- **`DebugPolicy`**: the DebugPolicy's hooks as operators.
  - Text is abstracted to what the policy can tell apart: `"trigger"` contains `capsem_block` case-insensitively, `"benign"` does not, and `"empty"` is the empty string.
  - `JoinTexts` is `"\n".join`. The separator cannot be part of the trigger, so a join contains the trigger exactly when one of its parts does.
- **`SecurityManager`**: the constant `Policies` is a sequence of `"Debug"` and `"Opaque"`.
  - An opaque policy stands for PII detection or a remote classifier. It may return any verdict, or raise (`RAISE`).
  - `Outcomes(point, input)` is the set of aggregates the manager can return. It is a `FoldLeft` of `Combine` over one result per policy, in registration order.
  - This module is modelled from spec.md, because `manager.py` is not in `src/`.
- **`GeminiWire`**: the request side of the Gemini wire format.
  - A contents entry is either not a JSON object, or an object that the SDK's `Content(**c)` accepts (`valid`) or rejects.
  - Its parts carry an optional text, a thought flag and an optional function response.
  - With `Drift = FALSE` every object entry validates. With `Drift = TRUE` the SDK may reject one that the provider still accepts. spec.md 4.3 names this case: the skip exists for protocol drift.
- **`GeminiGenerate`**: `generate_content`, one action per step of the handler.
  - `pc` names the step. `idx`/`pidx` are the loop indices. `prompt` is `prompt_parts`. `resp` is the parsed upstream response. `respText` is `response_text_parts`. `upstream` counts provider calls. `status` is the answer.
  - The actions are `Receive`, `ReadContent` (one contents entry, its texts and its function-response gate), `ModelCall`, `Forward`, `ParseResponse`, `SkipCandidate`, `ReadPart` (one response part, its text and its tool-call gate), `ModelResponse` and `Respond`.
  - `Finish` maps every early exit to the status the exception handlers give.
  - A gate takes any outcome in `Outcomes` and branches on it with `Decide`, which is `_decide` together with the handler's `except` clauses.
- **`RequestLifecycle`**: the abstract request life cycle of spec.md 4.3. `GeminiGenerate` is shown to implement it through the refinement mapping `PhaseOf` (`LifecycleRefined`).
- **`GeminiStream`**: `stream_generate_content`. The gates run before the handler returns. `Stream` is the provider call the generator makes after the 200 has been sent.
  - It is also the fault model of that call: the body ends `complete`, or `broken` when the provider raises mid-stream or the client disconnects.
  - Either way, the 200 already sent stands, and nothing is retried or re-gated.
  - `Disconnect` is a client that leaves after the headers and before the framework first pulls the generator. The generator is closed unstarted, so the provider is never called.
- **`StreamLifecycle`**: the streaming life cycle of spec.md 4.3. The request is normalized, then screened by the pre-flight gates, then the stream is opened (the 200), then the provider is called once and chunks pass through, unless the client leaves first (`CANCELLED`). A block or an error can happen only before the 200. The spec has weak fairness, so every request reaches a terminal phase. `GeminiStream` is shown to implement it through the mapping `StreamPhaseOf` (`StreamLifecycleRefined`). In that mapping, the declared-tool loop is part of the screening.
- **`Registry`**: process start-up. Its state:
  - `env`: `PROXY_CONFIG_DIR` and the directory's fragments.
  - `registry`: `capsem_integration.security_manager`'s policies.
  - `loadedEnv`: the configuration the module body last ran with.
  - `gemini`: the manager `gemini.py` bound at import.

  Its actions:
  - `ImportIntegration`: lines 28-48, including the `except` fallback.
  - `ImportGemini`: `gemini.py:27`. It runs the module body first if it has not run yet.
  - `SetEnv`: the configuration changes at run time.
  - `Reload`: `importlib.reload`, as the tests use it.

  `FromConfig` is `DebugPolicy.from_config`. `LoadPolicies` is the loader's contract from spec.md 4.4 (the loader is not in `src/`). `Expected` is the spec's statement of P5, the reference the properties compare with.
- **`Agent`**: `create_agent`. Each tool entry is an OpenAI function, an OpenAI tool of another type, or a Gemini `functionDeclarations` entry. `CreateAgentTools` is compared with `DeclaredTools`, the spec's reference for the tools a request declares.
- **`MCGeminiGenerate`, `MCGeminiStream`**: the part sets and the policy lists that the configurations use, as definitions.

## 3. Runs

| Run | Config | Expect | What it shows |
|---|---|---|---|
| generate | `MCGeminiGenerate.cfg` | pass | With the DebugPolicy alone, up to 2 entries of 2 parts and 2 candidates: no triggering visible prompt reaches the provider; a 200 never carries a triggering function call or text; and the handler refines the spec's life cycle. The provider is called at most once, only after the inbound gates, and on_model_response runs before every 200 that follows a non-empty response, a response of function calls only included. |
| generate_policies | `MCGeminiGenerate_policies.cfg` | pass | An opaque policy that may CONFIRM, BLOCK or raise, registered before the DebugPolicy, never masks the DebugPolicy's BLOCK on the way in or out. A raise fails the request closed. |
| generate_toolresp | `MCGeminiGenerate_toolresp.cfg` | violation | **Code bug** at `gemini.py:120`: only the last part of each entry goes to `on_tool_response`. A triggering function response followed by another part is forwarded. |
| generate_drift | `MCGeminiGenerate_drift.cfg` | violation | `gemini.py:105-109` with `149`: an entry that the SDK rejects is skipped by the gates but forwarded in the raw body, so its triggering prompt reaches the provider (P1). |
| stream | `MCGeminiStream.cfg` | pass | The provider stream is never opened for a request whose visible prompt or declared function names carry the trigger, even with an opaque policy first and with drifted entries. The stream builds its prompt from the raw dicts, so drift does not open the hole found in generate. The handler implements the spec's streaming life cycle: every gate runs before the 200, the provider is called once and only after it, and every request ends. The same holds when the provider breaks the stream or the client disconnects mid-stream. |
| stream_thoughts | `MCGeminiStream_thoughts.cfg` | violation | `gemini.py:260`: the streaming prompt includes thought text. spec.md 4.3 says thoughts are kept apart, and the non-streaming endpoint keeps them apart. |
| stream_toolresp | `MCGeminiStream_toolresp.cfg` | violation | `gemini.py:256`: the streaming endpoint has no `on_tool_response` gate, so a triggering function response reaches the provider. |
| registry | `MCRegistry.cfg` | pass | `capsem_integration.security_manager`, the object the tests assert on, always holds the policies of the configuration it was last loaded with. This holds for unset, missing, unloadable and all-disabled configurations, across configuration changes, and across two reloads. |
| registry_stale | `MCRegistry_stale.cfg` | violation | `gemini.py:27`: after a reload with a new configuration, the Gemini endpoints still enforce the manager bound at the first import. |
| agent | `MCAgent.cfg` | pass | For any mix of OpenAI-format tools, `create_agent` builds an Agent of well-formed tool names, with missing names defaulting to `"unknown"`. It is the pass run that exercises `CreateAgent`. What the Agent should carry is checked by `agent_gemini`. |
| agent_gemini | `MCAgent_gemini.cfg` | violation | `capsem_integration.py:66`: Gemini `functionDeclarations` entries have no `type`, so `create_agent` drops them all. Policies never see the tools a Gemini request declares. |
| stream_malformed | `MCGeminiStream_malformed.cfg` | violation | `gemini.py:257` and `251`: a contents entry that is not an object gives a 500 in the stream, as does a body or `tools` entry that is not one (in `body.get` or `create_agent`; `generate_content` has the same fault at line 95). spec.md 4.3 says such entries are skipped, and spec.md 7 says a malformed body is a 4xx. |

Every property of a passing run has a mutant in `PROJECT.json`. The mutant is a plausible bug in the definition that models the code: a loop that stops one step early, a gate that fails open, a "first opinion wins" aggregation, an on_model_response gate skipped when the response has no text, a retry of a broken stream. TLC must find the property violated with the mutant in place.

**Bounds.**
- Two entries, two parts and two candidates are the smallest sizes at which these cases happen:
  - the "last part only" bug;
  - a skipped entry or candidate followed by a checked one;
  - a BLOCK on a later element after an earlier one passed.
- Two policies give both registration orders' effect on aggregation, because the opaque policy is registered first.
- Texts have two values, `benign` and `trigger`, which is everything the DebugPolicy distinguishes.
- `Registry`:
  - Two fragments, one per known policy kind, give every on/off and ordering combination, the all-disabled directory among them.
  - The pass run allows two reloads, so the configuration can change between reloads. One reload is enough for the stale binding, because the manager is bound only once.
- `Agent`: up to three OpenAI tools mix function tools, tools of another type and missing names.

**Fairness.** `GeminiStream`'s `Spec` has weak fairness on `Next`. A request runs on one asyncio task. Every step is either a local computation or an await whose exceptions are all caught, so the task keeps running until it answers. Provider latency and hangs are left to the HTTP client's timeout. `GeminiGenerate` has no liveness property, so it has no fairness either. Its loops are Python `for` loops over finite lists, so termination would hold whatever the code did. `CHECK_DEADLOCK FALSE` is used because a handler really stops once it has answered, start-up ends once both modules are imported, and `create_agent` runs once per request. `StreamLifecycle` has weak fairness too, so `StreamLifecycleRefined` also checks that every streaming request ends. `Registry` and `Agent` have no liveness property, and so no fairness.

## 4. Not modelled

- **Registry and endpoints composed**: feeding the `Registry` result into the endpoints' `Policies`. A PII policy is an opaque policy to the endpoints, so the separate checks already cover what the composition would add. The policy list is a constant there.
- **Manager loop**: `capsem/manager.py` is not in `src/`. A loop with one policy per step, refined to `Outcomes`, would be written from spec.md 4.2 alone, and so would check the spec against itself. The endpoints use the atomic aggregation, which is all the code in `src/` can observe.
- **Identity, the config loader, `capsem.models`**: none of them is in `src/`. The loader and the models enter only through the spec's contracts (`LoadPolicies`, `Verdicts`).
- **Imports and module set-up**: `gemini.py` 1-39 and the headers of the other files create the router, the provider client and the logger. They change no state that a property can observe.
- **`src/test.py`**: a scratch file. No module of the proxy or of `capsem` imports it, and its only entry point is the `__main__` demo. The `Tool` that `create_agent` builds comes from `capsem.tools`, which is not in `src/`. A round-trip check of its conversions would say nothing about the proxy.
- **`api/utils.py`**: `utils.decide` is used only by the OpenAI endpoint, which is not in `src/`. It is the same function as `gemini._decide` (`GeminiGenerate!Decide`).
- **The status of a stream that breaks after the 200**: `Stream` models a provider error or a client disconnect at that point as a `broken` body. `StreamLifecycleRefined` checks what spec.md 5 asks of it: no retry of the upstream call, and no further policy evaluation. Its mutant retries a broken stream. The gateway error that spec.md 7 gives upstream failures has no counterpart here, because HTTP cannot change the status once it has been sent.
- **Out of scope**: HTTP transport, identity hashing, the OpenAI endpoint and the provider client (none of them is in `src/`), PII detection internals, and logging. CONFIRM has no confirmation flow in the code, and every gate treats it as ALLOW, exactly as the models do. What can go wrong with it is aggregation: a CONFIRM that outranked a BLOCK would open a gate. `generate_policies` and `stream` check this with an opaque policy that may CONFIRM, registered first.
