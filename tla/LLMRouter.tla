------------------------------ MODULE LLMRouter ------------------------------
(***************************************************************************)
(* route_request (gateway/app/router/llm_router.py): one non-streaming     *)
(* chat request, its fallback hops, and the upstream calls they make       *)
(* through HedgedRequest, while the configuration they read is replaced    *)
(* under them.                                                             *)
(*                                                                         *)
(* What comes back from the upstreams, the classifying model's answer and  *)
(* the rate limiter's verdicts (RateLimiter) are inputs.  A step is what   *)
(* runs between two awaits: a hop is entered in the same step that gives   *)
(* up the one before.  `calls' is the ledger of the provider requests made *)
(* for this request.                                                       *)
(***************************************************************************)
EXTENDS ChatApi, Classifier, Guardrails, Providers, Telemetry, Integers, Sequences, FiniteSets

CONSTANTS Routes,      (* route names                                           *)
          NoRoute,     (* not a name: a route without a fallback                *)
          Configs,     (* the route tables a control plane may distribute       *)
          RuleSets,    (* and the semantic rules                                *)
          Prompts,     (* the messages a client may send                        *)
          Completions, (* the texts, with reported tokens, an upstream may give *)
          MaxDepth,    (* MAX_FALLBACK_DEPTH                                    *)
          MaxChanges   (* bound: configurations installed during the request    *)

Absent == [present |-> FALSE, fallback |-> NoRoute, provider |-> "none", key |-> Unnamed,
           rails |-> <<>>]

(* A route as the router uses it; get_route does not find one that is absent. *)
RouteConfig == [present : {TRUE}, fallback : Routes \cup {NoRoute}, provider : STRING,
                key : STRING, rails : Seq(Guardrail)] \cup {Absent}

(* A semantic rule as classify_intent uses it. *)
SemanticRule == [intent : STRING, route : Routes, hints : SUBSET STRING, priority : Int]

ASSUME ConstantsOK ==
    /\ NoRoute \notin Routes
    /\ Nameless \notin Routes
    /\ Configs \subseteq [Routes -> RouteConfig]
    /\ Prompts \subseteq Seq(Message)
    /\ Completions \subseteq [text : Text, tokens : Nat]
    /\ \A prompt \in Prompts : \A i \in DOMAIN prompt : Authored(prompt[i].text)
    /\ \A completion \in Completions : Authored(completion.text)
    /\ RuleSets \subseteq Seq(SemanticRule)
    /\ MaxDepth \in Nat \ {0} /\ MaxChanges \in Nat

VARIABLES config,    (* the configuration installed in this gateway            *)
          changes,   (* how many were installed so far                         *)
          stage,     (* where the request is                                   *)
          messages,  (* its messages, as the guardrails so far have left them  *)
          rules,     (* the semantic rules classify_intent works with          *)
          hop,       (* the route being tried                                  *)
          plan,      (* its configuration as prepare_request read it           *)
          visited,   (* the routes given up before it                          *)
          slots,     (* slots[r]: rate limit slots this request took of r      *)
          calls,     (* the provider requests made                             *)
          usage,     (* usage[r]: the completion tokens recorded for r         *)
          redisErrors, (* gateway_redis_errors_total for record_usage          *)
          answer,    (* what the client got                                    *)
          reply,     (* and which text                                         *)
          phase, task, overdue, pending, errors, winner, raised

hedgeVars == <<phase, task, overdue, pending, errors, winner, raised>>
hopVars == <<hop, plan, visited, messages>>   (* the PreparedRequest, and what came before it *)
books == <<usage, redisErrors, reply>>
vars == <<config, changes, stage, messages, rules, hop, plan, visited, slots, calls, usage,
          redisErrors, answer, reply, hedgeVars>>

H == INSTANCE HedgedRequest

Verdicts == {"ok",               (* 200                                        *)
             "misconfigured",    (* GatewayConfigError: 500                    *)
             "crashed",          (* an exception nobody maps: 500              *)
             "unauthorized", "unprocessable",                    (* 401, 422   *)
             "rate_limited",     (* RateLimitError: 429                        *)
             "limiter_down",     (* RateLimiterUnavailableError: 503           *)
             "input_blocked", "output_blocked", "not_found", "loop", "failed"}
                                 (* RoutingError: 502                          *)

(* A provider request: of which hop and attempt, to which route through which adapter, *)
(* what was sent under which guardrails, and what became of it.                         *)
Call == [hop : Nat, by : H!Attempts, to : Routes, via : DOMAIN Registry,
         sent : ProviderRequest(Seq(Message)), rails : Seq(Guardrail),
         res : {"running", "ok", "retryable", "permanent", "cancelled"},
         got : [text : Text, tokens : Nat]]

TypeOK ==
    /\ config \in Configs
    /\ changes \in 0..MaxChanges
    /\ stage \in {"new", "classifying", "calling", "answered"}
    /\ messages \in Seq(Message)
    /\ rules \in RuleSets \cup {<<>>}
    /\ hop \in Routes \cup {NoRoute}
    /\ plan \in RouteConfig
    /\ visited \subseteq Routes
    /\ slots \in [Routes -> Nat]
    /\ calls \in Seq(Call)
    /\ usage \in [Routes -> Seq(Nat)]
    /\ redisErrors \in Nat
    /\ answer \in Verdicts \cup {"none"}
    /\ reply \in Text
    /\ H!TypeOK

Init ==
    /\ config \in Configs
    /\ changes = 0
    /\ stage = "new"
    /\ messages \in Prompts
    /\ rules = <<>>
    /\ hop = NoRoute
    /\ plan = Absent
    /\ visited = {}
    /\ slots = [r \in Routes |-> 0]
    /\ calls = <<>>
    /\ usage = [r \in Routes |-> <<>>]
    /\ redisErrors = 0
    /\ answer = "none"
    /\ reply = <<>>
    /\ H!HedgeInit

-----------------------------------------------------------------------------
(* Entering a hop: prepare_request, the cycle and depth checks, and the call, up to *)
(* its first await.  Every exception in here is final: it is the client's answer.   *)

Answer(outcome) ==
    /\ stage' = "answered"
    /\ answer' = outcome

Hedging(r) == config[r].fallback \notin {NoRoute, r}

(* assert_route_is_servable: the provider is registered, and its credential is there *)
Servable(r) == Registered(config[r]) /\ HasItsCredential(config[r])

(* get_route and assert_route_is_servable, before anything is spent *)
Unservable(r) ==
    /\ \/ ~config[r].present /\ Answer("not_found")
       \/ config[r].present /\ ~Servable(r) /\ Answer("misconfigured")
    /\ UNCHANGED <<hopVars, slots, calls, hedgeVars>>

Ready(r) == config[r].present /\ Servable(r)

(* check_rate_limit_detailed said no: a denial takes no slot *)
Denied(r) ==
    /\ Ready(r)
    /\ Answer("rate_limited") \/ Answer("limiter_down")
    /\ UNCHANGED <<hopVars, slots, calls, hedgeVars>>

ChargedFirst(r) == IF visited = {} /\ hop = NoRoute      \* mutant: only the route asked for
                   THEN [slots EXCEPT ![r] = @ + 1] ELSE slots

Charged(r) == [slots EXCEPT ![r] = @ + 1]

(* apply_input_guardrails, with the guardrails the route has now *)
Prepared(r) == AppliedToInput(messages, config[r].rails)

InputBlocked(r) ==
    /\ Ready(r)
    /\ slots' = Charged(r)
    /\ \/ Prepared(r).outcome = "blocked" /\ Answer("input_blocked")
       \/ Prepared(r).outcome = "crashed" /\ Answer("crashed")
    /\ UNCHANGED <<hopVars, calls, hedgeVars>>

DepthOnly(r, seen) == Cardinality(seen) >= MaxDepth      \* mutant: no cycle check

(* "Fallback cycle detected" or "Fallback chain exceeded" *)
Loops(r, seen) == r \in seen \/ Cardinality(seen) >= MaxDepth

Looping(r, seen) ==
    /\ Ready(r)
    /\ Loops(r, seen)
    /\ Prepared(r).outcome = "ok"
    /\ slots' = Charged(r)
    /\ Answer("loop")
    /\ UNCHANGED <<hopVars, calls, hedgeVars>>

Request(n, a, r, prompt, rails) ==
    [hop |-> n, by |-> a, to |-> r, via |-> config[r].provider,
     sent |-> Payload(config[r], prompt), rails |-> rails,
     res |-> "running", got |-> [text |-> <<>>, tokens |-> 0]]

Start(r, seen) ==
    /\ Ready(r)
    /\ ~Loops(r, seen)
    /\ Hedging(r) \/ Implemented(config[r])
    /\ Prepared(r).outcome = "ok"
    /\ slots' = Charged(r)
    /\ stage' = "calling"
    /\ messages' = Prepared(r).result
    /\ hop' = r
    /\ plan' = config[r]
    /\ visited' = seen
    /\ H!Call(Hedging(r))
    /\ calls' = IF Hedging(r) THEN calls
                ELSE Append(calls, Request(Cardinality(seen), "primary", r, messages', plan'.rails))
    /\ UNCHANGED answer

(* An adapter that is not written raises in its caller, who has no fallback either. *)
Unwritten(r, seen) ==
    /\ Ready(r)
    /\ ~Loops(r, seen)
    /\ ~Hedging(r) /\ ~Implemented(config[r])
    /\ Prepared(r).outcome = "ok"
    /\ slots' = Charged(r)
    /\ Answer("failed")
    /\ UNCHANGED <<hopVars, calls, hedgeVars>>

Enter(r, seen) ==
    /\ \/ Unservable(r) \/ Denied(r) \/ InputBlocked(r) \/ Looping(r, seen)
       \/ Start(r, seen) \/ Unwritten(r, seen)
    /\ rules' = <<>>
    /\ UNCHANGED <<config, changes, books>>

-----------------------------------------------------------------------------
(* The request arrives. *)

Ends(outcome) ==
    /\ Answer(outcome)
    /\ rules' = <<>>
    /\ UNCHANGED <<config, changes, hopVars, slots, calls, books, hedgeVars>>

Spoken == UserWords(messages)

(* route='auto', with the semantic rules of the moment: the keyword scan settles it, or *)
(* the classifier is asked.                                                              *)
ArriveAuto ==
    \E now \in RuleSets :
        \/ now = <<>> /\ Ends("not_found")
        \/ now # <<>> /\ Confident(now, Spoken) /\ Enter(KeywordRule(now, Spoken).route, {})
        \/ /\ now # <<>> /\ ~Confident(now, Spoken)
           /\ stage' = "classifying"
           /\ rules' = now
           /\ UNCHANGED <<config, changes, hopVars, slots, calls, answer, books, hedgeVars>>

Arrive(header, request) ==
    /\ stage = "new"
    /\ LET name == ResolvedRoute(request)
       IN  \/ ~Authorized(header) /\ Ends("unauthorized")
           \/ Authorized(header) /\ name = Nameless /\ Ends("unprocessable")
           \/ Authorized(header) /\ name = "auto" /\ ArriveAuto
           \/ Authorized(header) /\ name \in Routes /\ Enter(name, {})

(* The classifier answered, or failed within its ten seconds: the route it leads to need *)
(* not be there by now.                                                                   *)
Classified ==
    /\ stage = "classifying"
    /\ \E r \in Named(rules) \cup Otherwise(rules, Spoken) : Enter(r, {})

ClassifierFails ==
    /\ stage = "classifying"
    /\ Otherwise(rules, Spoken) = {}
    /\ Ends("crashed")

-----------------------------------------------------------------------------
(* The attempts: _call reads the configuration when it runs, not when it is scheduled. *)

Target(a) == IF a = "primary" THEN hop ELSE plan.fallback

Untouched == UNCHANGED <<config, changes, stage, hopVars, rules, slots, answer, books>>

Callable(r) == Ready(r) /\ Implemented(config[r])

(* Both attempts send the messages as this hop's guardrails left them. *)
Send(a) ==
    /\ H!Send(a)
    /\ Callable(Target(a))
    /\ calls' = Append(calls, Request(Cardinality(visited), a, Target(a), messages, plan.rails))
    /\ Untouched

(* The route is gone, no longer servable, or its adapter is not written: nothing is sent, *)
(* and only the gateway's own misconfiguration is told apart.                             *)
Refuse(a) ==
    /\ task[a] = "created"
    /\ ~Callable(Target(a))
    /\ H!Refuse(a, IF config[Target(a)].present /\ ~Servable(Target(a)) THEN "config" ELSE "routing")
    /\ UNCHANGED calls
    /\ Untouched

(* This hop's entries for attempt a in the ledger: one, if its request was sent. *)
OfThisHop(a) == {i \in DOMAIN calls : calls[i].hop = Cardinality(visited) /\ calls[i].by = a}

Settled(a, res, completion) ==
    [i \in DOMAIN calls |->
        IF i \in OfThisHop(a) THEN [calls[i] EXCEPT !.res = res, !.got = completion] ELSE calls[i]]

NoText == [text |-> <<>>, tokens |-> 0]

Respond(a, answered) ==
    /\ task[a] = "running"
    /\ \E i \in OfThisHop(a) :
          LET made == Completion(calls[i].via, answered)
          IN  /\ H!End(a, Outcome(made))
              /\ calls' = Settled(a, Outcome(made), [text |-> made.text, tokens |-> made.tokens])
    /\ Untouched

Abandoned(a) ==
    /\ H!Cancelled(a)
    /\ calls' = Settled(a, "cancelled", NoText)
    /\ Untouched

(* hedged_call runs on to its next await. *)
Loop == H!LoopStep /\ UNCHANGED calls /\ Untouched

-----------------------------------------------------------------------------
(* What route_request makes of the outcome. *)

AccountedAlways(outcome, tokens, so) ==          \* mutant: before the guardrails
    [usage EXCEPT ![hop] = WithUsage(@, tokens, so)]

(* record_usage, for the route of this hop whichever attempt won *)
Accounted(outcome, tokens, so) ==
    IF outcome = "ok" THEN [usage EXCEPT ![hop] = WithUsage(@, tokens, so)] ELSE usage

Answered(outcome) ==
    CASE outcome = "ok" -> "ok" [] outcome = "blocked" -> "output_blocked" [] OTHER -> "crashed"

(* What the guardrails make of a completion.  resolve_usage comes before record_usage: an *)
(* estimate that raises makes a 500 of a text that was let through.                        *)
Outgoing(text, raises) ==
    LET out == AppliedToOutput(text, plan.rails)
    IN  IF out.outcome = "ok" /\ raises THEN Stopped("crashed", out.result) ELSE out

(* Output guardrails come before usage: blocked output leaves no trace of its cost. *)
Serve ==
    /\ stage = "calling"
    /\ phase = "returned"
    /\ \E i \in OfThisHop(winner), so \in Recordings, raises \in EstimateRaises :
          LET out == Outgoing(calls[i].got.text, raises)
              tokens == ResolveUsage(calls[i].got.tokens, out.result)
          IN  /\ Answer(Answered(out.outcome))
              /\ reply' = IF out.outcome = "ok" THEN out.result ELSE <<>>
              /\ usage' = Accounted(out.outcome, tokens, so)
              /\ redisErrors' = IF out.outcome = "ok" /\ so.error THEN redisErrors + 1 ELSE redisErrors
    /\ UNCHANGED <<config, changes, hopVars, rules, slots, calls, hedgeVars>>

Misconfigured ==
    /\ stage = "calling"
    /\ phase = "raised"
    /\ raised = "config"
    /\ Ends("misconfigured")

FailedOrUnrecorded == phase \in {"returned", "raised"}    \* mutant: telemetry inside the try

Failed == phase = "raised"

RetriesAnything(f) == f # "config"                        \* mutant: no retryable check

Retryable(f) == f \notin {"config", "permanent"}

FallBack ==
    /\ stage = "calling"
    /\ Failed
    /\ Retryable(raised)
    /\ plan.fallback \notin {NoRoute, hop}
    /\ Enter(plan.fallback, visited \cup {hop})

GiveUp ==
    /\ stage = "calling"
    /\ phase = "raised"
    /\ raised = "permanent" \/ (raised # "config" /\ plan.fallback \in {NoRoute, hop})
    /\ Ends("failed")

(* refresh_config: the whole configuration is replaced, between any two steps. *)
Reconfigure ==
    /\ changes < MaxChanges
    /\ stage # "answered"
    /\ config' \in Configs \ {config}
    /\ changes' = changes + 1
    /\ UNCHANGED <<stage, hopVars, rules, slots, calls, answer, books, hedgeVars>>

-----------------------------------------------------------------------------
Replies ==
    {StatusReply(s) : s \in Statuses} \cup {FaultReply(f) : f \in Faults \ {"none"}}
        \cup {BodyReply("completion", c.text, c.tokens) : c \in Completions}
        \cup {BodyReply("no choices", <<>>, 0)}

Handle == Serve \/ Misconfigured \/ FallBack \/ GiveUp

Next ==
    \/ \E header \in Headers, request \in ChatRequest(Routes \cup {"auto", Nameless}) :
          Arrive(header, request)
    \/ Classified \/ ClassifierFails
    \/ \E a \in H!Attempts :
          \/ Send(a) \/ Refuse(a) \/ Abandoned(a)
          \/ \E answered \in Replies : Respond(a, answered)
    \/ Loop
    \/ Handle
    \/ Reconfigure

Spec == Init /\ [][Next]_vars

(* The event loop runs what is ready; the classifier's 10 s timeout and the route's own *)
(* end every remote call.  Nobody has to replace the configuration.                     *)
FairSpec ==
    /\ Spec
    /\ WF_vars(Classified \/ ClassifierFails)
    /\ WF_vars(Loop) /\ WF_vars(Handle)
    /\ \A a \in H!Attempts :
          /\ WF_vars(Send(a) \/ Refuse(a))
          /\ WF_vars(Abandoned(a))
          /\ WF_vars(\E answered \in Replies : Respond(a, answered))

-----------------------------------------------------------------------------
(* What one client request may cost: no route is tried twice as the route of a hop, so a  *)
(* cyclic graph of fallbacks ends (llm_router.py:12-16), and a hop makes at most two calls. *)
SpendBounded ==
    /\ \A i, j \in DOMAIN calls :
          /\ calls[i].by = "primary" /\ calls[j].by = "primary" /\ calls[i].to = calls[j].to => i = j
          /\ calls[i].hop = calls[j].hop /\ calls[i].by = calls[j].by => i = j
    /\ Len(calls) <= 2 * MaxDepth

(* The limit of every route of the chain is honoured: whoever asked for a hop, its call  *)
(* is covered by a slot of its own route.  (A hedge's secondary call takes none.)        *)
HopsAreMetered ==
    \A r \in Routes :
        Cardinality({i \in DOMAIN calls : calls[i].by = "primary" /\ calls[i].to = r}) <= slots[r]

(* A response that arrived is never thrown away for another upstream call: once an attempt *)
(* has answered, no later hop exists, and the client gets that answer unless the output    *)
(* guardrails stop it (llm_router.py:235-239).                                             *)
AnswerIsFinal ==
    \A i \in DOMAIN calls : calls[i].res = "ok" =>
        /\ \A j \in DOMAIN calls : calls[j].hop <= calls[i].hop
        /\ answer \in {"none", "ok", "output_blocked", "crashed"}

(* A request that its own route refuses for good goes no further than the hedge that was *)
(* already under way (llm_router.py:219-223).                                            *)
RefusalIsFinal ==
    \A i \in DOMAIN calls : calls[i].res = "permanent" /\ calls[i].by = "primary" =>
        \A j \in DOMAIN calls : calls[j].hop <= calls[i].hop

(* Usage is recorded for the hop that was served and never for a failed request; once, *)
(* unless Redis failed, which is counted; and a text that is not empty costs something, *)
(* whatever the upstream reported (token_counter.py:73-75, redis_safety.py:11-12).       *)
UsageIsServed ==
    /\ \A r \in Routes : usage[r] # <<>> => answer = "ok" /\ r = hop /\ Len(usage[r]) = 1
    /\ answer = "ok" => usage[hop] # <<>> \/ redisErrors > 0
    /\ reply # <<>> => \A n \in DOMAIN usage[hop] : usage[hop][n] > 0

(* What an upstream is sent has been through the input guardrails of its hop and of every *)
(* hop before, message by message, and what the client gets through the output guardrails *)
(* of the hop that served it: "redaction has to land where the match was found"           *)
(* (guardrails.py:3-8).  No word that an author wrote and a rule must not let through is   *)
(* left, whatever the other rules made of the text before and after; and of a model's own  *)
(* words the client gets no more than a length guardrail allows, however long the          *)
(* replacements.  A hedge's secondary call is under the guardrails of its hop, not of the  *)
(* route it goes to.                                                                       *)
TextIsGuarded ==
    /\ \A i, j \in DOMAIN calls : calls[j].hop <= calls[i].hop =>
          PromptIsClean(calls[i].sent.messages, calls[j].rails)
    /\ answer = "ok" => CompletionIsClean(reply, plan.rails)

(* Every request that has arrived is answered. *)
RequestAnswered == (stage # "new") ~> (stage = "answered")

(* How the request, its hops and the hedged call of the current hop belong together: the *)
(* part of an inductive invariant that the properties above rest on.                     *)
Coherent ==
    /\ stage = "answered" <=> answer # "none"
    /\ stage \in {"new", "classifying"} =>
          hop = NoRoute /\ visited = {} /\ calls = <<>> /\ phase = "idle"
    /\ stage = "classifying" <=> rules # <<>>
    /\ stage = "calling" => hop \in Routes
    /\ hop \in Routes =>
          /\ hop \notin visited /\ Cardinality(visited) < MaxDepth
          /\ plan.present /\ slots[hop] > 0 /\ phase # "idle"
          /\ (task["secondary"] # "none" => plan.fallback \in Routes \ {hop})
    /\ phase = "raised" <=> raised # "none"
    /\ \A r \in visited : slots[r] > 0
    /\ \A i, j \in DOMAIN calls :
          calls[i].hop <= Cardinality(visited) /\ (i < j => calls[i].hop <= calls[j].hop)

IInv == TypeOK /\ H!IInv /\ Coherent

(* "A 400 or a bad API key will fail identically on the fallback route, so trying it just *)
(* burns a second upstream" (llm_router.py:219-221): a route that refused this request    *)
(* for good is not called again for it.                                                   *)
RefusedRouteNotCalledAgain ==
    \A i, j \in DOMAIN calls :
        i < j /\ calls[i].to = calls[j].to => calls[i].res # "permanent"

=============================================================================
