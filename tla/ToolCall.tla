------------------------------- MODULE ToolCall -------------------------------
(***************************************************************************)
(* The MCP gateway (mcp-gateway/app): a tool call from its arrival to its  *)
(* answer (api/tools.py), the rate limiter and the result cache it passes, *)
(* and the registry of servers and catalogue of tools that one poll loop   *)
(* replaces under it (router/config_store.py).                             *)
(*                                                                         *)
(* A step is what runs between two awaits: from its arrival to its first   *)
(* attempt a call has the process to itself.  Guardrails' verdicts, the    *)
(* routing model's and the tool servers' answers are inputs.  Calls of one *)
(* tool have the same arguments, so that they share a key of the cache.    *)
(* `ran' and `behind' are the tool server's side of a call: a timed-out    *)
(* attempt may still take effect, at any later time.                       *)
(***************************************************************************)
EXTENDS Integers, FiniteSets

CONSTANTS Calls,        (* calls that clients may make                           *)
          Callers,      (* client ids                                            *)
          CallerOf,     (* CallerOf[c]: the client id of call c                  *)
          Tools,        (* names of tools                                        *)
          Nobody,       (* not a call                                            *)
          Serves,       (* Serves[v]: tools with a healthy server in version v   *)
          MaxVersion,   (* bound: versions the control plane publishes           *)
          Cacheable,    (* tools tagged cacheable                                *)
          Rpm,          (* Rpm[t]: the tool's rate_limit_rpm tag                 *)
          DefaultRpm,   (* _DEFAULT_RPM                                          *)
          DegradedMode, (* rate_limit_degraded_mode                              *)
          MaxAttempts   (* _MAX_ATTEMPTS                                         *)

Versions == 0..MaxVersion

ASSUME ConstantsOK ==
    /\ CallerOf \in [Calls -> Callers]
    /\ Nobody \notin Calls
    /\ MaxVersion \in Nat /\ Serves \in [Versions -> SUBSET Tools]
    /\ Cacheable \subseteq Tools
    /\ Rpm \in [Tools -> Nat] /\ DefaultRpm \in Nat
    /\ DegradedMode \in {"local", "open", "closed"}
    /\ MaxAttempts \in Nat \ {0}

VARIABLES published,  (* the version the control plane serves                *)
          registry,   (* the version installed as _config; 0 is none yet     *)
          catalogue,  (* the tools _catalog describes                        *)
          poll,       (* the poll loop, and the version it was answered with *)
          window,     (* calls counted in Redis and in _local_window         *)
          cache,      (* cache[t]: the call whose result is cached           *)
          call,       (* call[c]: where call c is                            *)
          behind,     (* behind[c]: its abandoned attempts, still to run     *)
          ran         (* ran[c]: how often it made its tool run              *)

registryVars == <<published, registry, catalogue, poll>>
vars == <<registryVars, window, cache, call, behind, ran>>

Keys == {"redis", "local"} \X Tools \X Callers

Call == [pc      : {"idle", "routing", "calling", "pausing", "ended"},
         tool    : Tools \cup {Nobody},
         tagged  : BOOLEAN,                      \* did the catalogue know its tags
         tries   : 0..MaxAttempts,
         outcome : {"none", "answer", "refusal"}, \* what the tool server said in the end
         from    : Calls \cup {Nobody},          \* whose result there was for it, sent or lost
         res     : {"none", "ok", "error"}]

NoCall == [pc |-> "idle", tool |-> Nobody, tagged |-> FALSE, tries |-> 0,
           outcome |-> "none", from |-> Nobody, res |-> "none"]

TypeOK ==
    /\ published \in Versions /\ registry \in Versions
    /\ catalogue \subseteq Tools
    /\ poll \in [pc : {"asleep", "fetched", "discovering"}, seen : Versions]
    /\ window \in [Keys -> Nat]
    /\ cache \in [Tools -> Calls \cup {Nobody}]
    /\ call \in [Calls -> Call]
    /\ behind \in [Calls -> Nat] /\ ran \in [Calls -> Nat]

Init ==
    /\ published \in Versions
    /\ registry = 0 /\ catalogue = {}
    /\ poll = [pc |-> "asleep", seen |-> 0]
    /\ window = [k \in Keys |-> 0]
    /\ cache = [t \in Tools |-> Nobody]
    /\ call = [c \in Calls |-> NoCall]
    /\ behind = [c \in Calls |-> 0] /\ ran = [c \in Calls |-> 0]

-----------------------------------------------------------------------------
(* refresh_config, of which there is one at a time. *)

Publish ==
    /\ published < MaxVersion
    /\ published' = published + 1
    /\ UNCHANGED <<registry, catalogue, poll, window, cache, call, behind, ran>>

FetchServers ==
    /\ poll.pc = "asleep"
    /\ poll' = [pc |-> "fetched", seen |-> published]
    /\ UNCHANGED <<published, registry, catalogue, window, cache, call, behind, ran>>

(* The second fetch, for the guardrails: with it _config is replaced, but not yet _catalog. *)
Install ==
    /\ poll.pc = "fetched"
    /\ registry' = poll.seen
    /\ poll' = [poll EXCEPT !.pc = "discovering"]
    /\ UNCHANGED <<published, catalogue, window, cache, call, behind, ran>>

RefreshFails ==
    /\ poll.pc = "fetched"
    /\ poll' = [poll EXCEPT !.pc = "asleep"]
    /\ UNCHANGED <<published, registry, catalogue, window, cache, call, behind, ran>>

(* _discover_tools: a server that does not answer is left out, because the log.warning *)
(* ahead of the fallback to its capabilities takes no keyword argument.                *)
Discover ==
    /\ poll.pc = "discovering"
    /\ catalogue' \in SUBSET Serves[poll.seen]
    /\ poll' = [poll EXCEPT !.pc = "asleep"]
    /\ UNCHANGED <<published, registry, window, cache, call, behind, ran>>

-----------------------------------------------------------------------------
(* check_tool_rate_limit, and the windows and cache entries that end by themselves. *)

Key(where, c, t) == <<where, t, CallerOf[c]>>

(* resolve_rpm *)
Limit(t) == IF t \in catalogue THEN Rpm[t] ELSE DefaultRpm

(* The window that has a slot left for the call, if it is this one. *)
Free(where, c, t) == {k \in {Key(where, c, t)} : window[k] < Limit(t)}

Counted(slots) == window' = [k \in Keys |-> IF k \in slots THEN window[k] + 1 ELSE window[k]]

(* Redis failed; its script may have `taken' a slot, and only the reply have been lost. *)
Degraded(c, t, outcome, taken) ==
    IF DegradedMode = "local"
    THEN (outcome <=> Free("local", c, t) # {}) /\ Counted(taken \cup Free("local", c, t))
    ELSE (outcome <=> DegradedMode = "open") /\ Counted(taken)

RateLimit(c, t, outcome) ==
    \/ (outcome <=> Free("redis", c, t) # {}) /\ Counted(Free("redis", c, t))
    \/ \E taken \in {{}, Free("redis", c, t)} : Degraded(c, t, outcome, taken)

Slide(k) ==
    /\ window[k] > 0
    /\ window' = [window EXCEPT ![k] = @ - 1]
    /\ UNCHANGED <<registryVars, cache, call, behind, ran>>

Expire(t) ==
    /\ cache[t] # Nobody
    /\ cache' = [cache EXCEPT ![t] = Nobody]
    /\ UNCHANGED <<registryVars, window, call, behind, ran>>

-----------------------------------------------------------------------------
(* POST /v1/tools/execute: the catalogue as it is now, and up to two awaited questions to *)
(* the language model.  If neither is needed the request is as good as a /call.           *)

Begun(t) == [NoCall EXCEPT !.tool = t, !.tagged = t \in catalogue]

Ended(c, t, from, res) ==
    call' = [call EXCEPT ![c] = [Begun(t) EXCEPT !.pc = "ended", !.from = from, !.res = res]]

(* select_tool gives a tool of the catalogue, however weak the match. *)
Route(c) ==
    /\ call[c].pc = "idle"
    /\ \/ catalogue = {} /\ Ended(c, Nobody, Nobody, "error")
       \/ \E t \in catalogue : call' = [call EXCEPT ![c].pc = "routing", ![c].tool = t]
    /\ UNCHANGED <<registryVars, window, cache, behind, ran>>

(* extract_arguments got no JSON object from the language model: 500, because the          *)
(* log.warning ahead of its fallback takes no keyword argument.                           *)
RouteFails(c) ==
    /\ call[c].pc = "routing"
    /\ Ended(c, call[c].tool, Nobody, "error")
    /\ UNCHANGED <<registryVars, window, cache, behind, ran>>

-----------------------------------------------------------------------------
(* _execute up to its first await. *)

Denied(c, t) ==
    /\ RateLimit(c, t, FALSE)
    /\ Ended(c, t, Nobody, "error")

(* No server, or the arguments are blocked: the slot is gone all the same. *)
Unserved(c, t) ==
    /\ RateLimit(c, t, TRUE)
    /\ Ended(c, t, Nobody, "error")

Served(t) == t \in Serves[registry]

IsCacheable(c, t) == t \in Cacheable /\ t \in catalogue

(* The result is answered as it was stored, under the guardrails of that time. *)
Hit(c, t) ==
    /\ Served(t) /\ IsCacheable(c, t)
    /\ cache[t] # Nobody
    /\ RateLimit(c, t, TRUE)
    /\ Ended(c, t, cache[t], "ok")

(* Nothing cached, or Redis did not say. *)
Forward(c, t) ==
    /\ Served(t)
    /\ RateLimit(c, t, TRUE)
    /\ call' = [call EXCEPT ![c] = [Begun(t) EXCEPT !.pc = "calling", !.tries = 1]]

Enter(c, t) ==
    /\ Denied(c, t) \/ Unserved(c, t) \/ Hit(c, t) \/ Forward(c, t)
    /\ UNCHANGED <<registryVars, cache, behind, ran>>

Arrive(c, t) == call[c].pc = "idle" /\ Enter(c, t)

(* extract_arguments is done; the tool may have gone from the catalogue and from its server. *)
Routed(c) == call[c].pc = "routing" /\ Enter(c, call[c].tool)

-----------------------------------------------------------------------------
(* _forward, and what _execute makes of it. *)

(* The tool ran once more for call c, or did not. *)
Runs(c, did) == ran' = IF did THEN [ran EXCEPT ![c] = @ + 1] ELSE ran

CachedAnyway(c, clean) == TRUE                            \* mutant: stored before the guardrails

Storable(c, clean) == clean

(* set_cached, by the tags that the call began with *)
SetCached(c) == call[c].tagged /\ call[c].tool \in Cacheable

(* A JSON null needs no guardrail, and get_cached takes a stored null for no entry. *)
Stored(c, clean) ==
    \E entry \in {c} \cup (IF clean THEN {Nobody} ELSE {}) :
        cache' = [cache EXCEPT ![call[c].tool] = entry]

(* 200: set_cached if the output guardrails pass (`clean'), else 502.  If Redis then fails, *)
(* having stored it or not, set_cached's log.warning raises, and the tool has run for a 500. *)
Answered(c, clean) ==
    /\ call[c].pc = "calling"
    /\ Runs(c, TRUE)
    /\ LET storable == SetCached(c) /\ Storable(c, clean)
           ended == [call[c] EXCEPT !.pc = "ended", !.outcome = "answer", !.res = "error"]
           passed == [ended EXCEPT !.from = c]
       IN  \/ /\ call' = [call EXCEPT ![c] = IF clean THEN [passed EXCEPT !.res = "ok"] ELSE ended]
              /\ IF storable THEN Stored(c, clean) ELSE UNCHANGED cache
           \/ /\ storable
              /\ call' = [call EXCEPT ![c] = passed]
              /\ Stored(c, clean) \/ UNCHANGED cache
    /\ UNCHANGED <<registryVars, window, behind>>

RetriesRefusals(c, outcome) == call[c].tries < MaxAttempts         \* mutant: no break on a 4xx
TriesOnceMore(c, outcome) == outcome = "none" /\ call[c].tries <= MaxAttempts   \* mutant: <=

TriesAgain(c, outcome) == outcome = "none" /\ call[c].tries < MaxAttempts

(* An attempt is over without a result: the loop goes on, or its log.warning raises: 500. *)
Unanswered(c, outcome) ==
    call' = IF TriesAgain(c, outcome)
            THEN [call EXCEPT ![c].pc = "pausing", ![c].outcome = outcome]
            ELSE [call EXCEPT ![c].pc = "ended", ![c].outcome = outcome, ![c].res = "error"]

(* 4xx, "the tool's verdict on the request" (tools.py:208); the tool may have begun to run. *)
Refused(c) ==
    /\ call[c].pc = "calling"
    /\ \E did \in BOOLEAN : Runs(c, did)
    /\ Unanswered(c, "refusal")
    /\ UNCHANGED <<registryVars, window, cache, behind>>

(* 5xx, a 200 that is not JSON, no connection: whether the tool ran or not. *)
Fails(c) ==
    /\ call[c].pc = "calling"
    /\ \E did \in BOOLEAN : Runs(c, did)
    /\ Unanswered(c, "none")
    /\ UNCHANGED <<registryVars, window, cache, behind>>

(* 30 s have passed, and nothing stops the tool server. *)
TimesOut(c) ==
    /\ call[c].pc = "calling"
    /\ behind' = [behind EXCEPT ![c] = @ + 1]
    /\ Unanswered(c, "none")
    /\ UNCHANGED <<registryVars, window, cache, ran>>

Retry(c) ==
    /\ call[c].pc = "pausing"
    /\ call' = [call EXCEPT ![c].pc = "calling", ![c].tries = @ + 1]
    /\ UNCHANGED <<registryVars, window, cache, behind, ran>>

(* The tool server gets to an abandoned attempt, or never does. *)
CatchUp(c) ==
    /\ behind[c] > 0
    /\ behind' = [behind EXCEPT ![c] = @ - 1]
    /\ \E did \in BOOLEAN : Runs(c, did)
    /\ UNCHANGED <<registryVars, window, cache, call>>

(* The process ends, and its calls with it; the next one starts with nothing but Redis. *)
Crash ==
    /\ registry' = 0 /\ catalogue' = {}
    /\ poll' = [pc |-> "asleep", seen |-> 0]
    /\ window' = [k \in Keys |-> IF k[1] = "local" THEN 0 ELSE window[k]]
    /\ call' = [c \in Calls |-> IF call[c].pc \in {"idle", "ended"} THEN call[c]
                               ELSE [call[c] EXCEPT !.pc = "ended", !.res = "error"]]
    /\ behind' = [c \in Calls |-> IF call[c].pc = "calling" THEN behind[c] + 1 ELSE behind[c]]
    /\ UNCHANGED <<published, cache, ran>>

-----------------------------------------------------------------------------
Handle(c) ==
    \/ Route(c) \/ \E t \in Tools : Arrive(c, t)
    \/ Routed(c) \/ RouteFails(c)
    \/ \E clean \in BOOLEAN : Answered(c, clean)
    \/ Refused(c) \/ Fails(c) \/ TimesOut(c) \/ Retry(c) \/ CatchUp(c)

Next ==
    \/ Publish \/ FetchServers \/ Install \/ RefreshFails \/ Discover
    \/ \E k \in Keys : Slide(k)
    \/ \E t \in Tools : Expire(t)
    \/ \E c \in Calls : Handle(c)
    \/ Crash

Spec == Init /\ [][Next]_vars

-----------------------------------------------------------------------------
(* A call is answered with a result that its tool gave, for this call or for one before it *)
(* that was cached, and that the output guardrails let pass when it was given: never with  *)
(* a failure, a blocked result or one of a call that was abandoned (tools.py:148-169).     *)
Backed(c, t) ==
    /\ c \in Calls
    /\ call[c].tool = t /\ call[c].from = c
    /\ call[c].outcome = "answer" /\ ran[c] > 0

AnswerBacked ==
    \A c \in Calls : call[c].res = "ok" => Backed(call[c].from, call[c].tool)

(* One call makes its tool run as often as it was sent, _MAX_ATTEMPTS times at most, however *)
(* its attempts fail, time out and are caught up with after it was answered; and a call that *)
(* is answered from the cache was never sent (tools.py:148-154, 190-218).                    *)
EffectsBounded ==
    \A c \in Calls :
       /\ ran[c] + behind[c] + (IF call[c].pc = "calling" THEN 1 ELSE 0) <= call[c].tries
       /\ call[c].tries <= MaxAttempts
       /\ call[c].res = "ok" /\ call[c].from # c => call[c].tries = 0

(* What the tool server has answered or refused is not sent to it again, and the result of *)
(* a call that has ended stands (tools.py:208-211).                                        *)
Settled(c) == call[c].outcome # "none" \/ call[c].pc = "ended"

VerdictStands == [][\A c \in Calls : Settled(c) => call'[c] = call[c]]_vars

(* Why: inductive. *)
CacheBacked == \A t \in Tools : cache[t] # Nobody => Backed(cache[t], t)

CallsCoherent ==
    \A c \in Calls :
       /\ call[c].pc \in {"idle", "routing"} => call[c].tries = 0
       /\ call[c].pc = "routing" => call[c].tool \in Tools
       /\ call[c].pc # "ended" =>
             call[c].res = "none" /\ call[c].outcome = "none" /\ call[c].from = Nobody
       /\ call[c].pc = "pausing" => call[c].tries < MaxAttempts

IInv == TypeOK /\ CacheBacked /\ CallsCoherent /\ AnswerBacked /\ EffectsBounded

-----------------------------------------------------------------------------
(* What a call was given in the end is decided once, rests on a tool that ran for it or for *)
(* the call whose cached result it is, and a tool may run after all that (ToolService).     *)
Outcome(r) ==
    [state |-> IF r.pc \in {"idle", "ended"} THEN r.pc ELSE "open",
     tool |-> r.tool, from |-> r.from, res |-> r.res]

Outcomes == [c \in Calls |-> Outcome(call[c])]

Effective == {c \in Calls : ran[c] > 0}

Service == INSTANCE ToolService WITH given <- Outcomes, effects <- Effective

Implements == Service!ServiceSpec

=============================================================================
