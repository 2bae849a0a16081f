# A TLA+ model of the LLM control plane

The repository is a self-hosted platform for LLM traffic: a gateway that routes chat
requests to providers, a control plane that distributes its configuration, a broker that
keeps the catalogue and provisions it, an MCP gateway for tool calls, an agent gateway
that runs ReAct agents over both, and a dashboard. This directory models the parts whose
correctness depends on interleavings, failures and limits; it is checked with TLC on
small instances and, for the modules named in *What is proved*, with TLAPS for every
value of their constants.

All paths below are relative to `src/services/` unless they start elsewhere.

## The system

| component | state | operations | talks to |
|---|---|---|---|
| gateway, rate limiter (`gateway/app/middleware/rate_limit.py`) | one sliding window per route and client in Redis; a bounded LRU table of windows in each process | `check_rate_limit_detailed`, `_degraded_decision` | Redis (one Lua script) |
| gateway, hedged request (`router/hedged_request.py`) | two asyncio tasks, the recorded errors | `hedged_call`, `_timed_call` | providers |
| gateway, routing (`router/llm_router.py`, `router/classifier.py`, `middleware/auth.py`, `main.py`) | the hop, the visited routes; nothing survives a request | `route_request`, `prepare_request`, `stream_request`, `classify_intent` | rate limiter, guardrails, providers, telemetry |
| gateway, guardrails on whole texts (`middleware/guardrails.py`) | none | `apply_input_guardrails`, `apply_output_guardrails` | routing |
| gateway, providers (`providers/`) | none | `complete`, `stream`, servability of a route | upstreams |
| gateway, telemetry (`middleware/token_counter.py`, `cost_tracker.py`, `redis_safety.py`) | usage counters in Redis | `record_usage`, `resolve_usage` | Redis |
| gateway, stream guard (`middleware/stream_guard.py`) | hold-back buffer, released text | `push`, `flush` | `stream_request` |
| gateway, config store (`router/config_store.py`) | the installed snapshot and its version | `refresh_config`, poll loop, reload endpoint | control plane |
| control plane (`control-plane/app`) | a cached snapshot (Redis, 60 s), a version counter | `GET /config/*`, reload, refresh loop | broker |
| broker (`broker/app`) | catalogue and provisioning requests in SQL | REST API, five Celery tasks, health checks | Redis/Celery, gateway secrets |
| MCP gateway (`mcp-gateway/app`) | installed catalogue, cache and limiter in Redis | tool call, refresh and discovery | control plane, MCP registry |
| agent gateway (`agent-gateway/app`) | sessions in Redis | run, status, stream | gateway, MCP gateway |
| registry, tools, dashboard, bench, deployment | none that matters | proxying, probing, load generation | all |

The gateway runs three replicas (`infra/helm`), each one asyncio event loop; what they
share is Redis and the snapshot the control plane hands out. The broker's tasks run in two
Celery workers of four processes each, delivered at least once (`acks_late`).

What is hard here, and what each part must therefore guarantee:

* **Rate limiter.** Three processes with three clocks take slots from one window that
  can expire, be evicted or become unreachable in the middle of a check. It must never
  grant more than the limit, never deny without cause, and stay bounded in an outage.
* **Hedged request.** Two attempts, a timer and their caller are interleaved by one event
  loop. A healthy answer must not be dropped, an attempt must not outlive the call, and a
  settled request must not be sent a second time.
* **Routing.** Fallbacks are a graph an operator draws, possibly cyclic, and it can be
  replaced during the request. Spend must be bounded, an answer must be final, every
  request must be answered.
* **Stream guard.** The provider cuts the text wherever it likes. What is sent must be what
  redacting the whole response gives, out of a bounded buffer.
* **Configuration.** Several fetches, two caches and restarts lie between the broker's tables
  and a replica: a version must name one content, a reload signal must not be undone by what
  was under way, and every change must arrive in the end.
* **Provisioning.** Tasks run at least once, beside the API that deprovisions what they
  provision: no request may be left unsettled, and success must mean served.
* **Guardrails, adapters, usage.** What one hop rewrote, the next hop sends on; a call may be
  hedged to a provider of another kind, and Redis may fail while usage is recorded. Nothing a
  guardrail must stop may pass, and a served answer must be paid for.
* **Tool calls.** A call that timed out is sent again while the first attempt may still run,
  beside a cache and a catalogue that are replaced under it. An answer must be a result that
  a tool really gave, and a verdict must not be asked for twice.
* **Agents.** A background task, its record in an evicting Redis and a stream that polls the
  record know of each other through that record only. Budgets must hold as far as the code
  says they do, a result must be real, a stream must end and must have sent everything.

`PROJECT.json` lists every hazard with its line and the properties that cover it; those
without one say why.

## Modules

```
WindowLimiter <== refined by == RateLimiter  <-- RateLimiterProofs
ToolService   <== refined by == ToolCall     <-- ToolCallProofs
ToolService   <-- AgentSession               <-- AgentSessionProofs

ChatApi, Classifier, Guardrails, Providers, Telemetry   <-- LLMRouter
HedgedRequest <== instantiated by ==                        LLMRouter  <-- LLMRouterProofs
HedgedRequest <-- HedgedRequestProofs
StreamGuard, Providers, Telemetry                       <-- StreamRequest  <-- StreamRequestProofs
ConfigDistribution  <-- ConfigDistributionProofs
Provisioning        <-- ProvisioningProofs
```

`A <-- B`: B EXTENDS A. Every checked module `M` has an `MC_M` that only supplies constants.
The composition runs through the gateways: `LLMRouter` contains the hedged call with its
interleavings, `AgentSession` runs on top of the promise `ToolService`, which `ToolCall` is
shown to keep. `RateLimiter` and `ConfigDistribution` meet the others in what `LLMRouter` and
`ToolCall` take as inputs: any verdict at any time, any configuration at any time.

### WindowLimiter, RateLimiter

`WindowLimiter` says what a family of sliding windows promises, whatever it stores: a
grant only while fewer than the limit lie in the last `Span`, a denial only while at least
the limit lie in the last `Reach`, and a window may forget a key. `RateLimiter` is
`rate_limit.py`:

| model | code |
|---|---|
| `Script`, `Check` | `_SLIDING_WINDOW_LUA` (36-60), called with `now_ms` (186); one atomic step as Redis runs it |
| `Readings` | the caller's clock: up to `Lag` old and `Lead` ahead when the script runs |
| `CheckReplyLost`, `CheckUnreachable` | the `RedisError` branch (189-194); in the first the slot was taken all the same |
| `DegradeLocal`, `Evicted` | `_LocalWindow.check` (109-129) with its LRU table |
| `DegradeBlind` | modes `open` and `closed` (156-169) |
| `RedisLoses`, `Restart` | eviction (`allkeys-lru`) or restart of Redis; restart of a replica |
| `Live` | PEXPIRE: the key is gone `Window + ExpirySlack` after it was last touched |

`log` is a history variable, read by the properties only. A slot in a window and the
check that took it are one record. `gen[w][k]` counts losses, so that the bounds speak of
grants a window can still know about. `Span` and `Reach` are `Window` less or more the
clock error: that is the price of the callers' clocks.

### HedgedRequest

One step is what runs between two awaits. `phase` is where `hedged_call` is: `waiting`
for the primary against the threshold (86), `racing` (119-134), `reaping` the cancelled
loser (136-142), `returned` or `raised`; `direct` is the call without a distinct fallback
(61-62). `task[a]` is the asyncio task. What wakes `asyncio.wait` and what is done when
its caller resumes may differ: every guard looks at the tasks as they are at the
resumption, which is what `primary_task in done` and the `done` set show. Tasks that are
scheduled run their first step before the caller can resume.

### LLMRouter

`route_request` with `prepare_request`, as steps between awaits: entering a hop is part of
the step that gives up the previous one. `INSTANCE HedgedRequest` supplies the calls.
`config` is what `refresh_config` replaces at any point; `plan` is the hop's configuration
as `prepare_request` read it, while `Send` and `Refuse` read `config` again when the
attempt's task first runs (`_call`, 193-197). `calls` is the ledger of provider requests,
`slots` the rate limit slots taken, `usage` what `record_usage` wrote and `redisErrors` how
often it could not. The modules it extends compute what the code computes:

| module | code | inputs that remain |
|---|---|---|
| `ChatApi` | `require_api_key` (`middleware/auth.py`), the route a request names: `model`, `auto` or none (`main.py`) | the header, the request |
| `Classifier` | keyword scan by priority and confidence, the classifying model otherwise, the last resort | which rule the model names |
| `Guardrails` | five types, three actions, prompt by message, completion as one text, in order until one raises | the rules' matches and replacements, and what a cut leaves of a word: a text is a sequence of words |
| `Providers` | the registry, credentials of a route, each adapter's payload and what it makes of a reply, classification of errors | the upstream's reply: status, body, or no answer |
| `Telemetry` | the reported token count or the estimate, which may raise; a recording that Redis lost, or kept but did not confirm | whether Redis failed |

A word carries who wrote it: the client or the model, a length guardrail's cut through the
middle of it (`text[:max_chars]`), or a guardrail that put it there. What replaces a match is
any number of words (`instead`), and other rules, or the same one, may find them; so may they
find what a cut left (`stump`). No action reads who wrote a word: it is there for `TextIsGuarded`,
which promises nothing about words no author wrote. The rate limiter's verdicts are inputs; the semantic rules are read once per
request, when `classify_intent` is called. The latency threshold of the hedge is a timer that
may fire at any time.

### StreamGuard, StreamRequest

A response is its positions and the places where rules match in it; an emitted item is a
character or what took a match's place. `Pushed`, `FlushedFrom`, `Release`, `PulledBack`
and `Redacted` are `push`, `flush`, `_release`, its boundary loop, and `_redact`.
`StreamRequest` is `stream_request` and the event stream `main.py` makes of it: refusals
before the body starts, chunks as each adapter cuts them (Ollama's last frame becomes two),
the chunk with the `finish_reason` (with text or bare) and what an OpenAI-compatible server may
send after it, more text and a second one included, the end of the stream without one,
failures, token counts in any chunk, the client that leaves. `cuts`, a history variable, is where
a `flush` emptied the buffer. Rules are literals that do not
overlap themselves; overlapping matches of different rules are modelled.

### ConfigDistribution

From the broker's tables to the configuration a gateway has installed. The control plane's
handlers are coroutines that never await while they call the broker and Redis, so one of
them, or one turn of the refresh loop, has the process to itself: `job`. The broker's tables
change under it, between two of its fetches.

| model | code |
|---|---|
| `cache`, `FetchCached`, `FetchFromBroker`, `FetchFails`, `JobFails` | `_cached_fetch` (`loader.py:70`): the Redis cache, the broker, a broker that fails (an empty list, not cached), a Redis that fails (the handler answers 500) |
| `BeginRefresh`, `Reload`, `Expire` | `refresh_context`, `POST /internal/reload`, the TTL |
| `counter`, `last`, `Fingerprint`, `VersionFor`, `Answer` | `_version_for_content` (`config.py:23`), the counter shared by both kinds of configuration |
| `Renders`, `NoAnswer` | a template that asks for what the broker does not hand out (`gateway_config.json.j2:64`): 500 for as long as such a table is there |
| `Restart` | a new process: the counter starts at the clock, `Drift` away from the old one |
| `fetch`, `BeginFetch`, `Receive`, `Installs`, `TimesOut` | `refresh_config` of a gateway (`config_store.py:60`), by its poll loop and for its reload endpoint, in flight at the same time |
| `BeginOther` | the other clients (MCP gateway, registry, agent gateway), whose requests move the same counter |

A table is the number of its edits, so an edit never restores a former content. `floor` is
a history variable: what the broker had when a reload signal was last handled.

### Provisioning

`PUT` and `DELETE` of a service instance and the Celery tasks for routes, MCP servers and
guardrails, which differ in one thing: a route's task insists on telling the control plane
(`AfterSilence`). An action is what a task does between two commits or calls. `queue` holds
the deliveries that are due, by request and number of retries. A delivery ends by being
acknowledged: after a result or a published retry (`Ack`), or with nothing recorded
(`Drop`), which happens when the `except` branch of the task fails itself: after any error
of the database the session has not been rolled back, so the commit that should record the
failure raises, before `self.retry` is reached (`RowGone`, `InsertConflicts`, `Rejected`).
`Crash` is a lost worker (delivered again), `Killed` a lost child process (acknowledged by
its parent). `Check` is the second commit of a server's task (`register_mcp.py:27-30`), which records
whether the server answered. `Evict` takes deliveries that are due out of the queue: it lives in
the Redis that evicts (`infra/docker-compose.yml:24`). Retries wait in the code; here a task that is
due may be taken at any time. `written`, `checked`, `told` and `dropped` are history.

### ToolService, ToolCall

`ToolService` says what the MCP gateway promises its clients: a call is concluded once, with
what its own tool returned to it or to an earlier call of that tool (a cached result); an error
says nothing about whether the tool ran, or still will, or whether its result was lost to this
call only and is given to others from the cache. `ToolCall` is the gateway:

| model | code |
|---|---|
| `Arrive`, `Route`, `Routed`, `RouteFails` | `/call` and `/execute` (`api/tools.py`); the latter chooses in the catalogue, asks the language model twice and may find the tool gone |
| `RateLimit`, `Free`, `Counted`, `Degraded`, `Limit` | `check_tool_rate_limit`, whose script may have run although its reply was lost; its three degraded modes, `resolve_rpm` |
| `Denied`, `Unserved`, `Hit`, `Forward` | `_execute` up to its first await |
| `Answered`, `Stored`, `Refused`, `Fails`, `TimesOut`, `Retry` | `_forward` (190-218), the output guardrails and `set_cached`: a stored JSON null is no entry, and a result may have been stored although the reply was lost, for a 500 |
| `CatchUp` | the tool server gets to an attempt nobody waits for any more |
| `FetchServers`, `Install`, `RefreshFails`, `Discover` | `refresh_config`: servers and guardrails are installed before discovery has replaced the catalogue |
| `Crash` | a new process: Redis keeps windows and cache, the rest is gone |

`behind` and `ran` are the tool server's side of a call. The windows are counters that may
fall at any time (`Slide`): what a window grants in which time is `RateLimiter`'s subject. The
guardrails' verdicts (`clean` on the way out, `Unserved` on the way in) are inputs. Calls of
one tool have the same arguments, so that every two of them share a cache entry.

### AgentSession

The agent gateway above `ToolService`, whose actions it uses for the MCP gateway's side. `run`
is the background task of `_execute_agent` and `react_agent.run`, `record` the session in
Redis, `stream` an open event stream, `asked` the tool calls that have left the agent and not
yet arrived. Redis is called synchronously, so a step and its write to the record are one action.
The last step and the status are two writes, `append_step` and `finalize`: in between the run is
`returned`, and Redis failing there (`Raises`) or a crash leaves a record with its last step and the
status "running". The record may be evicted under a live run, and expires after it. `GivesUp` is the agent's own
timeout: the call goes on without it. `AgentCrash` ends every run and stream of the process;
nothing takes a session up again.

`PromptFormats` needs a word. As the code stands, `_SYSTEM_PROMPT.format(...)`
(`react_agent.py:67`) raises a `KeyError` for the JSON example in the prompt, whose braces are
not escaped: every run ends there. `PromptFormats = FALSE` is that code: no run gets past `Listed`.
The run and the theorems have both: the theorems hold for either value, the run sets it to TRUE
to see the loop, which is all code that runs as soon as the prompt is repaired.

## What the runs check

| run | question | instance | distinct states |
|---|---|---|---|
| `limiter_shared` | the shared window with skewed clocks, lost replies, expiry, one loss | one key, limits 1 and 2, window 3, lag 1, time to 5, 3 checks | 853,624 |
| `limiter_degraded` | the three degraded modes during partial outages | two replicas, two keys, a table of one key, limits 0 and 1, 4 checks, time to 3 | 7,388,216 |
| `hedge` | all interleavings of one hedged call | no constants: the whole state space | 182 |
| `router` | cost, finality, guarding and termination of one request | four routes, three shapes of fallback graph, five troubles (none, a missing route, an unregistered provider, a variable that is not set, a pattern that does not compile), three prompts, two sets of semantic rules, three headers, replacements that another rule finds or that are longer than what they replace, one configuration change | 136,270 |
| `stream` | redaction of a stream and its bookkeeping | 5 characters, hold-back 2, patterns to 3, two rules with any action, at most two matches, chunks to 3, any number of `finish_reason`s, four routes | 9,100,570 |
| `config` | from an edit to the gateways | one gateway that polls and is told to reload, two tables of which the MCP clients see one and the other cannot be rendered for a while, two events (edits, reload signals, failures, restarts) | 1,054,184 |
| `provisioning` | at-least-once tasks beside the API | two requests under one instance id, a route's and a server's name, two workers, one retry, two events (crashes, failures, rejections, losses) | 1,514,066 |
| `tools` | tool calls with retries, cache and a changing catalogue | two calls of one client, one tool, two new versions, limits 1 (tagged) and 2 (default), two attempts, mode `local` | 921,775 |
| `agents` | a session above the MCP gateway | one session of two steps, a budget of 2 tokens, up to 2 per thought, another client's call | 691,508 |
| `router_refused`, `stream_split`, `stream_order` | the findings below | as above | |

*Limiter.* `WindowBound`, `DenialJustified`, `RetryAfterExact`, the inductive invariant
`IInv` and the refinement of `WindowLimiter`; in outages `OutageBound` (one deployment lets
through at most one window per replica beside the shared one) and `TableBounded`. Three
checks against limits 1 and 2 fill a window and overflow it; a time of 5 against a
window of 3 lets slots leave, and the key expire, with checks before and after. One replica
is enough for the shared window, which does not know its callers, and any clock reading
within the error is possible for each check. Four checks let both replicas and Redis
grant in one window. The broker's schema accepts a limit of 0, and keys denied under it stay in
the local table (see *Observations*): `TableBounded` says that only these exceed `max_keys`, one per
such check, until the replica next admits one, and that no more than `max_keys` keys hold slots.

*Hedge.* `NoOrphanAttempt`, `HealthyAnswerKept`, `OwnFailureSurfaces`, the action property
`NoHedgeOnceSettled`, and `TailCovered`: the call ends even if the primary hangs, unless
the secondary has failed too. Fairness: the event loop runs what is ready and the secondary's
request ends (the providers' clients have timeouts); nothing is assumed of the primary.

*Router.* `SpendBounded`, `HopsAreMetered`, `AnswerIsFinal`, `RefusalIsFinal`,
`UsageIsServed` (a served text is recorded once for its hop, with tokens, unless Redis failed
and that was counted), `TextIsGuarded` (every provider request has been through the input
guardrails of its hop and of all hops before, the reply through the output guardrails of the
hop that served it: no word is left that its author wrote and a rule must not let through, and of
the model's own words no more than a length guardrail allows; what it leaves out, words that
guardrails wrote, is under *Observations*), and `RequestAnswered` under weak fairness of the event
loop, of the providers (per-route timeouts) and of the classifier (a 10 s timeout).
No fairness of `Reconfigure`. Four routes and a depth of 3 exceed every bound by one: a chain
that is too long, a cycle, and a fallback shared by two routes all occur. Each guardrail type and
action is on some route, and each kind of provider; the prompts hold a match in the first, a
middle and the last message, of each role.

*Stream.* `ChunkingIndependent` (what is released is what redacting the whole text
gives, but for matches that a `finish_reason` in the middle of the stream parts), `BufferBounded`
inside `IInv`, `SentIsAccounted`. Five characters hold a pattern of three beside one of two, and a
pattern at every offset from the hold-back of two; every cutting is explored, with a `finish_reason`
on any of the chunks.

*Configuration.* `VersionNamesContent` (gateways compare versions only), `FreshAfterReload`
(a handled reload signal is never undone by a fetch that was under way), `IInv`, and
`EventuallyCurrent`: after the last event every gateway comes to have what the broker has.
Fairness: the event loop serves what is ready in turn, so the refresh loop and each poll are
served in the end although other clients keep asking (strong fairness of `BeginRefresh` and
of the poller's `BeginFetch`), a job goes on, and an answer that is not lost arrives. Nothing
is assumed of the reload call, of expiry or of other clients. `EventuallyCurrent` says nothing
of tables that stay as no template renders them; in the run a second edit ends that state. With one call polling and one
reloading, answers overtake each other; two tables are the least that can disagree; two events are
an edit and its reload signal, or either with a failure or a restart. Gateways meet in the
counter only, which the other clients move as a second gateway would.

*Provisioning.* `NeverStranded` (an unsettled request has a handler, a delivery or a run that
will settle it), `ToldOfSuccess` (success means written and, for a route, told, for a server, its
health recorded), `IInv`, and
`RequestSettles` under weak fairness of the handlers and of each worker. `NeverStranded` and
`RequestSettles` excuse requests of which a delivery was dropped, in the cases listed above, was never
enqueued or was lost with the queue: there the code does leave them pending or in progress. One instance id is the case where tasks share a row; two names
and two workers let them meet in the catalogue as tasks of different instances do.
`MaxRetries` is 1 instead of 3: more retries repeat the same run.

*Tools.* `VerdictStands` (what the tool server answered or refused is not asked again, and
a concluded call stays as it is), `IInv` with `AnswerBacked` (an answer is a result that a tool
gave to that call or to the cached one, and that the guardrails let pass) and `EffectsBounded` (a
tool runs at most as often as its call was sent, however late), and `Implements`, the refinement
of `ToolService`. Two calls of one client meet in window and cache; the first retry and the last
attempt differ with two attempts; versions differ in whether the tool has a server.

*Agents.* `ObservationBacked` (a tool result in the record is what `ToolService` gave to that
very call), `OvershootBounded` (the budget is checked after tool calls only, so a run exceeds it by
the thoughts since the last check), `StreamDelivers` (a stream that says "done" sent every step the
record will ever have), `IInv`, and `StreamEnds` under weak fairness of the run (each of its
awaits has a timeout), of the TTL and of the stream's polls. Two steps are a call whose late result
could be mistaken for that of the next one, and a budget of 2 is exceeded by one thought or two.

`CHECK_DEADLOCK FALSE` is set where the modelled behaviour ends (a bound on time, one
request, one stream, one session). The bounds are `MaxNow`, `MaxChecks`, `MaxLosses`,
`MaxChanges`, `MaxChunk`, `Length`, `MaxVersion` and the two `MaxEvents`.

## What is proved

For any number of replicas, keys, limits and any clocks (`RateLimiterProofs`):
`TypeCorrect`, `Inductive` (`IInv`), `LimitHolds` (`WindowBound`), `DenialsAreDue`
(`DenialJustified`) and `Refinement` (every behaviour is one of `WindowLimiter`). Neither
bound is inductive: it is about history, while the window holds records. `IInv` ties the
two together. `HoldsOnlyGrants`: a window holds only grants of its present generation.
`HoldsEveryGrant`: a grant that still surely counts has not left it, which needs `Scores`
(a score is within the clock error of real time) and `NotExpiredEarly` (PEXPIRE is late
enough). From there the count the script compares with the limit lies between two counts
of the history, which is `AnswerFair`; the bounds follow for the new record, and stand
for old ones because history only grows with newer ids (`HistoryStands`). The assumptions are
`ConstantsOK`: constants are of their types and windows distinct.

In the same module: `RetriesAreDue` (`RetryAfterExact`), `TablesBounded`
(`TableBounded`) and `OutageBounded` (`OutageBound`). `TablesBounded` holds for any limits. A denied
check puts its key into the table and returns ahead of the eviction; but a key outside the table
has no slots (`Table`), so a key that is denied is in the table already or has a limit of 0, and the
latter are what `DeniedAtZero` counts. Its corollary `TablesWithinMaxKeys` is the plain bound where
no limit is 0. `OutageBounded` assumes finitely many replicas and a greatest limit; it adds
`WindowBound` up over the windows that may answer in the configured mode (`Answers`), each bound
being taken at the window's last grant.

For the hedged call (`HedgedRequestProofs`): `Inductive` (`IInv`), `NothingLeftRunning`,
`HealthyAnswers` (`HealthyAnswerKept`), `OwnFailures` (`OwnFailureSurfaces`) and
`HedgesOnlyTheUnsettled`.
`Shape` says in which states the attempts are at each await; the promises are added to it
since they speak of the last step.

For any number of gateways, calls and tables (`ConfigDistributionProofs`): `Inductive`,
`VersionsAreNames` (`VersionNamesContent`), `ReloadsStand` (`FreshAfterReload`). The first
needs `Numbered`: the counter is above every version held, and what is held under
the counter's present value is the fingerprint kept in `last`; so the version given next is
new unless the content is the same. The second needs `Fresh`: cache and the fetches of the
present job are no older than `floor`, which is inductive because a reload is handled between
two jobs and never inside one. Besides `ConstantsOK` the proofs assume `Paced`: a restarted
control plane starts its counter, at the clock, no lower than the old one had got. That holds
as long as the counter has moved at most once a second on average; faster than that, versions
do come back with other content.

For any number of requests, workers and retries (`ProvisioningProofs`): `Inductive`,
`NobodyStranded` (`NeverStranded`), `SuccessIsServed` (`ToldOfSuccess`). `NeverStranded` is
nearly inductive: it needs `OneRow` (a task that finds no row under its instance id leaves
nobody behind, and one that does has found the request it is to settle) and
`RunsKnowTheirRow`, which also carries what a run has written and told to its last step.

For any number of calls, clients, tools, versions and attempts and every degraded mode
(`ToolCallProofs`): `Inductive` (`IInv`), `AnswersBacked`, `RunsBounded`, `VerdictsStand` and
`Refinement`: every behaviour of `ToolCall` is one of `ToolService`. `AnswerBacked` needs
`CacheBacked`, since what is answered from the cache was put there by another call, long
concluded; and that a concluded call never changes (`CallsCoherent`, `Settled`) is what lets an
answer rest on it. The refinement maps a call that is routed, sent or between two attempts to an
open one, and `ran` to `effects`: a timeout is a stutter, and the abandoned attempt takes effect
in the abstract service when it does in the detailed one.

For any number of sessions, steps, tokens and calls of others (`AgentSessionProofs`):
`Composition` (every behaviour of `AgentSession` is, seen from the MCP gateway, one of
`ToolService`, so what `ToolCall` implements is what the agents run on), `Inductive` (`IInv`),
`ResultsAreReal` (`ObservationBacked`), `BudgetsHold` (`OvershootBounded`) and
`StreamsAreComplete` (`StreamDelivers`). The budget may be any integer: one of 0 or less is spent at
the first check, which is what `Budget` says. The first of the three rests on `ServiceKeeps`: no step
of the service takes back what it concluded, so a result that was real when it was recorded stays
real. The last needs `RunsCoherent`: a terminal status is written only by the step that
ends the run, so no step follows the poll that sees it.

For any routes, tables of routes, semantic rules and depth of fallbacks, however often the tables
are replaced (`LLMRouterProofs`): `Composition` (the upstream calls of a request are, one after the
other, hedged calls of `HedgedRequest`, whose proofs therefore hold of them), `Inductive`
(`Ledger`), `SpendIsBounded` (`SpendBounded`), `HopsMetered` (`HopsAreMetered`), `AnswersAreFinal`
(`AnswerIsFinal`), `RefusalsAreFinal` (`RefusalIsFinal`) and `NothingLeftRunning`. `Ledger` ties
the ledger of provider requests to where the request is: an entry is of the present hop, whose
attempt has then been sent, or of a route that was given up (`Chain`); what is final is of the
present hop, and the hedged call knows of it (`Final`). A hop is left only when the hedged call
raised, and `HedgedRequest`'s invariant then says that no attempt has an answer and that the
failure is the primary's own: without it neither finality is inductive. That routes given up are
fewer than `MaxDepth` (`Path`) bounds the ledger (`Counted`).

The same module has a second layer, `Knowledge`, about what a request carries from hop to hop:
`WellFormed` (`IInv`), `UsageServed` (`UsageIsServed`) and `TextsAreGuarded` (`TextIsGuarded`), for
any lists of guardrails, prompts and completions. `Kinds` and `Place` type the state and say at
which stage what is known; `Ascending` and `Guarded` say of every request in the ledger that its
messages are clean by the input guardrails of the hop it was made for and of all hops before it;
`Accounts` ties the usage record to the hop that was served. `Guarded` rests on lemmas about
`apply_input_guardrails` and `apply_output_guardrails`: a list of guardrails that raises nothing
leaves a text in which no rule that redacts or blocks finds an author's word
(`CompletionIsServedClean`, `PromptIsSentClean`), and no later guardrail adds one: what it puts into
the text is its own (`CleanStays`). That is why what one hop
rewrote may be sent on by the next. A guardrail list is a fold, and a fold is followed by
induction: `UpTo` proves, from the well-foundedness of finite sets, that a set with 0 and every
successor has all numbers up to n, and the lemmas apply it to the set of the prefixes they hold of.

For any text, rules, actions, hold-back and chunks (`StreamRequestProofs`): `WellFormed` (`IInv`,
with `BufferBounded`), `ChunkingDoesNotMatter` (`ChunkingIndependent`) and `SentAccounted`
(`SentIsAccounted`). The inductive invariant `Faithful` says that what was released is what
redacting the text up to `base` at once gives, without the matches that a flush has cut (`Whole`), and
that no other match straddles `base` (`Buffered`);
what the client has of it (`Sent`); what is recorded (`Booked`). `_redact` is a recursion over the
positions of a text: `RedactedFacts` unfolds it (the recursive function is shown to exist, from
the end of the text backwards), `RedactedAgrees` says that it depends only on which matches start
where, and `RedactedSplits` that it can be cut wherever no match is. That the guard cuts at such
places only is `ReleaseStraddlesNone`. It needs all that `ChunkingIndependent` supposes: the
hold-back reaches as far as the longest pattern (`Span <= HoldBack + 1`), so a match across the
release point is in the buffer whole, and matches do not overlap, so the place the point is pulled
back to is inside no other one; finding 2 is what happens otherwise. A `flush` in the middle of the
stream cuts anywhere, so the proof follows `cuts` instead of asking for a last chunk. `TimesSwapped` counts the
items of the chunk with the `finish_reason`, whose two parts arrive in the other order.

The proofs corrected the models. `Scanned` and `Shortened` of `Guardrails` and `Exchanged` of
`Providers` had `CASE` arms that overlapped, which TLC resolves in their order, as the code does,
and TLA+ does not: they are written as alternatives of each other now. The longest pattern has at
least one character (`GuardConstantsOK`); without that a hold-back of 0 would contradict
`BufferBounded`.

Every invariant and action property that a passing run checks is also a theorem. Only
model-checked is liveness (`TailCovered`, `RequestAnswered`, `EventuallyCurrent`,
`RequestSettles`, `StreamEnds`), which is out of the prover's reach. That a text with overlapping
matches is split, and the order of the last words, are counterexamples (`stream_split`,
`stream_order`) and need no proof.

## Findings

1. `router_refused`: a route that refused a request for good as the hedge of one hop is
   called again as the next hop (`llm_router.py:224`). The test for a retryable failure sees
   only the error `hedged_call` surfaces.
2. `stream_split`: of two overlapping matches the second pulls the release point into the
   first, whose beginning is sent unredacted (`stream_guard.py:72`).
3. `stream_order`: a chunk with both text and a `finish_reason` reaches the client after
   the flushed tail that follows it (`llm_router.py:322`).

### Observations without a run

Gateway:

* A provider stream that ends without a `finish_reason` is never flushed, and neither is what an
  OpenAI-compatible server sends after its last one: up to a hold-back of text is lost. A match that a
  chunk with a `finish_reason` parts is not caught, for the buffer is flushed there. Broken, blocked
  and abandoned streams record no usage.
* A hedge's secondary call takes no slot of the fallback's limit and passes none of its
  guardrails; usage is recorded on the primary's route even if the fallback won.
* A misconfigured fallback hop answers 500 after an upstream was billed (`README.md:281`
  has it fail before the request leaves the gateway). A denied cycle still takes a slot. A
  pattern that does not compile is a 500, on the output side also after the upstream was billed.
* The anthropic adapter is registered and passes every check of servability, but is not
  implemented: the request fails when it is sent.
* "warn" of a regex or keyword rule redacts a whole text (`guardrails.py`) and lets a streamed
  one through. A length rule that should shorten a prompt cannot: its result is discarded.
* The classifier's last resort raises a `TypeError` (`classifier.py:122`): the model has it
  as `ClassifierFails`.
* Guardrails run in their order, once. An output list of length and then pii with "redact" may serve
  more than `max_chars` (`[EMAIL_REDACTED]` is longer than most addresses), a `replacement` may spell
  what an earlier rule looks for, and so may what `text[:max_chars]` leaves of a word
  (`guardrails.py:91-100`, `142`, `168`, `180`).
* A token count may be estimated after the upstream was paid, and the encoder raises on a text that
  spells one of its special tokens (`token_counter.py:49`): a 500 or a broken stream, with no usage
  recorded (`EstimateRaises`).
* The local table evicts on the admitting path only: keys denied under a limit of 0, which the
  broker's schema accepts (`broker/app/schemas/route.py:25`), pile up in it until the next admission.
* Across the start of an outage a deployment can grant `N + 1` windows, not `N`
  (`rate_limit.py:97`); `OutageBound` states the former.
* A streamed text trails by less than the hold-back plus a pattern, not by up to 64
  characters (`src/README.md:105`).

Configuration and provisioning:

* The snapshot that `refresh_context` calls coherent (`loader.py:49`) is five fetches: a route
  may come with the guardrails of another moment. A failed fetch empties a table until the
  next one, and a route is served without its guardrails meanwhile.
* An older answer that arrives after a newer one replaces it until the next poll
  (`config_store.py:67` compares for inequality).
* `gateway_config.json.j2` renders the credentials of an observability configuration, which the
  broker's API leaves out (`ObservabilityConfigOut`): while one is provisioned and enabled, `GET
  /config/gateway` answers 500, and neither the gateways nor the MCP gateway, which asks for the
  same document, get any change of configuration (`Unrenderable`; what `EventuallyCurrent` says
  is that they do again once it is gone). So no gateway ever has an exporter.
* A task that outlives its instance works on the request that has been put under the same id
  since, and writes its own parameters over the new ones.
* A database error in a provisioning task, as when two tasks insert one name, leaves the
  request in progress for ever. A request that could not be enqueued, or whose delivery went with an
  evicted queue, stays as it is, and `PUT` answers 409.
* The observability task logs with keyword arguments the standard logger refuses: after success
  (`provision_observability.py:51`), so the task fails although its row says succeeded, and in its
  `except` branch (`:55`), so a failure is neither recorded nor retried.
  Creating a configuration again after it was deleted meets its old unique instance id.

Tools and agents:

* No agent session gets past its prompt (`PromptFormats` above), and the handler of that failure
  raises as well (`agents.py:126`): the record stays "running" until it expires, and so does its stream.
* A session whose last step was recorded when Redis failed ahead of `finalize` stays "running" too.
* A cached result is answered without the output guardrails of the day (`tools.py:149`). A result that
  Redis stored, while its reply was lost, was a 500 for the call that made it and is the answer of
  others (`cache.py:53`). A rate limit script that ran while its reply was lost counts a call
  twice, in Redis and locally (`rate_limit.py:119-128`).
* A server whose discovery fails is left out of the catalogue instead of described by its
  capabilities: the warning before the fallback raises (`mcp-gateway` `config_store.py:111`).
  Its tools are still called, under the default limit and uncached.
* A call whose arguments or result a guardrail blocks, and a result Redis could not cache, answer
  500 where a log call with keyword arguments stands in the way of the intended answer.

## Not modelled, and why

* Traces: unreachable in a deployed gateway, as above. Latency percentiles (a threshold may
  fire at any time in the model), prompt tokens and prices: no modelled decision depends on them.
* The observability task: it differs from the others in the log calls named above, which leave
  nothing of its protocol to check.
* The text of the MCP gateway's guardrails (their verdicts are inputs), what tools compute, and
  the registry, a stateless proxy.
* The broker's CRUD endpoints write single rows (an `Edit` of `ConfigDistribution`); health checks
  set one flag per server.
* The dashboard is stateless, the benchmark and deployment files are load generation and settings;
  the latter are read for assumptions (replicas, eviction policy, acknowledgement).
* Wire formats, beyond what a reply carries. Regular expressions with context (`\b`) or of
  unbounded length in streamed text: outside what a hold-back can cover
  (`gateway/app/middleware/guardrails.py:45`).
