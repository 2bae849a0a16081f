-------------------------- MODULE ConfigDistribution --------------------------
(***************************************************************************)
(* How a change in the broker's tables reaches the gateways: the control   *)
(* plane (control-plane/app: api/config.py, context/loader.py, main.py)    *)
(* and the gateways' refresh_config (gateway/app/router/config_store.py).  *)
(*                                                                         *)
(* The control plane is one process, and its handlers call the broker and  *)
(* Redis without awaiting: a handler, or one turn of the refresh loop, has *)
(* the process to itself (`job'), while the broker's tables change under   *)
(* it between its five fetches.  Gateways fetch when they like, and their  *)
(* requests and answers overtake each other.                               *)
(*                                                                         *)
(* A table is the number of its edits, the first of which filled it; 0 is  *)
(* the empty list, which is also what a failed fetch of it gives.          *)
(***************************************************************************)
EXTENDS Integers, Sequences, FiniteSets

CONSTANTS Gateways,     (* the processes that install what they are served          *)
          Fetchers,     (* calls of refresh_config one gateway may have in flight   *)
          Poller,       (* the one that poll_config makes                           *)
          NumParts,     (* tables, in the order build_full_context fetches them     *)
          McpParts,     (* those that mcp_registry.json.j2 renders                  *)
          Unrenderable, (* <<p, n>>: no template can show table p as edit n left it *)
          Drift,        (* the clock, less the counter, when a control plane starts *)
          MaxEvents     (* bound: edits, reload signals, restarts and failed calls  *)

Parts == 1..NumParts

ASSUME ConstantsOK ==
    /\ Poller \in Fetchers
    /\ NumParts \in Nat \ {0} /\ McpParts \subseteq Parts
    /\ Unrenderable \subseteq Parts \X (Nat \ {0})
    /\ Drift \subseteq Int
    /\ MaxEvents \in Nat

(* Between two restarts the version counter never outruns the clock it started from. *)
ASSUME Paced == Drift \subseteq Nat

VARIABLES broker,    (* the broker's tables                                      *)
          cache,     (* what Redis holds of them, or Uncached                    *)
          counter,   (* _version_counter                                         *)
          last,      (* _last_content                                            *)
          job,       (* what the control plane is doing                          *)
          fetch,     (* fetch[g][f]: the refresh_config call f of gateway g      *)
          installed, (* installed[g]: _config of gateway g                       *)
          floor,     (* floor[p]: table p when a reload signal for it was last handled *)
          events     (* edits, reload signals, restarts and failed calls so far *)

controlPlane == <<cache, counter, last, job>>
vars == <<broker, controlPlane, fetch, installed, floor, events>>

Uncached == -1
Nothing == <<>>                                \* _last_content.get(kind) is None
Calls == Gateways \X Fetchers
Nobody == <<>>                                 \* a client that is not modelled

Kinds == {"gateway", "mcp"}
Shown == [gateway |-> Parts, mcp |-> McpParts]

Content == [Parts -> Nat]
Config == [version : Nat, content : Content]
Empty == [version |-> 0, content |-> [p \in Parts |-> 0]]

Prints == {Nothing} \cup Content \cup [McpParts -> Nat]

Jobs == Kinds \cup {"context"}                 \* "context": nobody is served, nothing numbered

Job == [kind : Jobs \cup {"none"}, client : Calls \cup {Nobody},
        got : {s \in Seq(Nat) : Len(s) < NumParts}]
NoJob == [kind |-> "none", client |-> Nobody, got |-> <<>>]
Idle == [state |-> "idle", reply |-> Empty]

TypeOK ==
    /\ broker \in Content
    /\ cache \in [Parts -> Nat \cup {Uncached}]
    /\ counter \in Nat
    /\ last \in [Kinds -> Prints]
    /\ job \in Job
    /\ fetch \in [Calls -> [state : {"idle", "asked", "replied"}, reply : Config]]
    /\ installed \in [Gateways -> Config]
    /\ floor \in Content
    /\ events \in Nat

Init ==
    /\ broker = [p \in Parts |-> 1]
    /\ cache = [p \in Parts |-> Uncached]
    /\ counter = 1
    /\ last = [k \in Kinds |-> Nothing]
    /\ job = NoJob
    /\ fetch = [c \in Calls |-> Idle]
    /\ installed = [g \in Gateways |-> Empty]
    /\ floor = [p \in Parts |-> 0]
    /\ events = 0

Event == events < MaxEvents /\ events' = events + 1

-----------------------------------------------------------------------------
(* The broker's tables, and a cache entry that reaches its TTL or is evicted. *)

Edit(p) ==
    /\ Event
    /\ broker' = [broker EXCEPT ![p] = @ + 1]
    /\ UNCHANGED <<controlPlane, fetch, installed, floor>>

Expire(p) ==
    /\ cache[p] # Uncached
    /\ cache' = [cache EXCEPT ![p] = Uncached]
    /\ UNCHANGED <<broker, counter, last, job, fetch, installed, floor, events>>

-----------------------------------------------------------------------------
(* The control plane begins a job when it has none. *)

Begin(kind, client) == job = NoJob /\ job' = [kind |-> kind, client |-> client, got |-> <<>>]

(* GET /config/gateway by refresh_config of a gateway: at startup, in the poll loop, or *)
(* for the gateway's own /internal/reload                                               *)
BeginFetch(c) ==
    /\ fetch[c].state = "idle"
    /\ Begin("gateway", c)
    /\ fetch' = [fetch EXCEPT ![c].state = "asked"]
    /\ UNCHANGED <<broker, cache, counter, last, installed, floor, events>>

(* The MCP gateway, the registry or the agent gateway asks for a configuration, or somebody *)
(* for /internal/context                                                                    *)
BeginOther(kind) ==
    /\ Begin(kind, Nobody)
    /\ UNCHANGED <<broker, cache, counter, last, fetch, installed, floor, events>>

(* refresh_context drops every cached table first.  (If Redis fails at that, the turn *)
(* of the loop is over: no more than Expire.)                                         *)
BeginRefresh ==
    /\ Begin("context", Nobody)
    /\ cache' = [p \in Parts |-> Uncached]
    /\ UNCHANGED <<broker, counter, last, fetch, installed, floor, events>>

KeepsCached(S) == cache                        \* mutant: deletes a key nobody reads

Invalidated(S) == [p \in Parts |-> IF p \in S THEN Uncached ELSE cache[p]]

(* POST /internal/reload: the counter moves whether or not there is a key to delete, *)
(* and even if Redis then fails to delete it (S = {}).                               *)
Reload(S) ==
    /\ job = NoJob
    /\ Event
    /\ counter' = counter + 1
    /\ cache' = Invalidated(S)
    /\ floor' = [p \in Parts |-> IF p \in S THEN broker[p] ELSE floor[p]]
    /\ UNCHANGED <<broker, last, job, fetch, installed>>

-----------------------------------------------------------------------------
(* _cached_fetch of the job's next table; the job ends with the last one. *)

Fetching == job # NoJob

Table == Len(job.got) + 1

Fingerprint(kind, content) == [p \in Shown[kind] |-> content[p]]

VersionOfCounter(kind, content) == counter     \* mutant: only a reload signal moves it

(* _version_for_content *)
VersionFor(kind, content) ==
    IF last[kind] # Fingerprint(kind, content) THEN counter + 1 ELSE counter

Answer(content) ==
    /\ counter' = VersionFor(job.kind, content)
    /\ last' = [last EXCEPT ![job.kind] = Fingerprint(job.kind, content)]
    /\ fetch' = [c \in Calls |->
                   IF c = job.client
                   THEN [state |-> "replied", reply |-> [version |-> counter', content |-> content]]
                   ELSE fetch[c]]

(* The handler raises: 500, and whoever asked has to ask again. *)
NoAnswer ==
    /\ fetch' = [c \in Calls |-> IF c = job.client THEN Idle ELSE fetch[c]]
    /\ UNCHANGED <<counter, last>>

(* The templates ask for fields that the broker does not hand out: an observability *)
(* configuration, once it is provisioned, has no credentials (gateway_config.json.j2:64). *)
Renders(kind, content) == \A p \in Shown[kind] : <<p, content[p]>> \notin Unrenderable

Got(value) ==
    LET got == Append(job.got, value)
    IN  IF Table < NumParts
        THEN job' = [job EXCEPT !.got = got] /\ UNCHANGED <<counter, last, fetch>>
        ELSE /\ job' = NoJob
             /\ IF job.kind \in Kinds /\ Renders(job.kind, got) THEN Answer(got) ELSE NoAnswer

FetchCached ==
    /\ Fetching
    /\ cache[Table] # Uncached
    /\ Got(cache[Table])
    /\ UNCHANGED <<broker, cache, installed, floor, events>>

FetchFromBroker ==
    /\ Fetching
    /\ cache[Table] = Uncached
    /\ Got(broker[Table])
    /\ cache' = [cache EXCEPT ![Table] = broker[Table]]
    /\ UNCHANGED <<broker, installed, floor, events>>

(* The broker failed or timed out: an empty list, which is not cached. *)
FetchFails ==
    /\ Fetching
    /\ cache[Table] = Uncached
    /\ Event
    /\ Got(0)
    /\ UNCHANGED <<broker, cache, installed, floor>>

(* Redis failed: the handler answers 500. *)
JobFails ==
    /\ Fetching
    /\ Event
    /\ job' = NoJob
    /\ NoAnswer
    /\ UNCHANGED <<broker, cache, installed, floor>>

(* A new process starts its counter at the clock and has served nothing. *)
Restart(d) ==
    /\ Event
    /\ counter + d > 0
    /\ counter' = counter + d
    /\ last' = [k \in Kinds |-> Nothing]
    /\ fetch' = [c \in Calls |-> IF fetch[c].state = "asked" THEN Idle ELSE fetch[c]]
    /\ job' = NoJob
    /\ UNCHANGED <<broker, cache, installed, floor>>

-----------------------------------------------------------------------------
(* The gateway gets its answer, or does not. *)

Installs(new, old) == IF new.version # old.version THEN new ELSE old

Receive(c) ==
    /\ fetch[c].state = "replied"
    /\ installed' = [installed EXCEPT ![c[1]] = Installs(fetch[c].reply, @)]
    /\ fetch' = [fetch EXCEPT ![c] = Idle]
    /\ UNCHANGED <<broker, controlPlane, floor, events>>

(* The request or its answer is lost, or 5 s have passed; the handler goes on. *)
TimesOut(c) ==
    /\ fetch[c].state # "idle"
    /\ Event
    /\ fetch' = [fetch EXCEPT ![c] = Idle]
    /\ job' = IF job.client = c THEN [job EXCEPT !.client = Nobody] ELSE job
    /\ UNCHANGED <<broker, cache, counter, last, installed, floor>>

RestartGateway(g) ==
    /\ Event
    /\ installed' = [installed EXCEPT ![g] = Empty]
    /\ fetch' = [c \in Calls |-> IF c[1] = g THEN Idle ELSE fetch[c]]
    /\ job' = IF job.client # Nobody /\ job.client \in {g} \X Fetchers
              THEN [job EXCEPT !.client = Nobody] ELSE job
    /\ UNCHANGED <<broker, cache, counter, last, floor>>

-----------------------------------------------------------------------------
Work == FetchCached \/ FetchFromBroker

Next ==
    \/ \E p \in Parts : Edit(p) \/ Expire(p)
    \/ \E k \in Jobs : BeginOther(k)
    \/ BeginRefresh
    \/ \E S \in {{}} \cup {{p} : p \in Parts} : Reload(S)
    \/ Work \/ FetchFails \/ JobFails
    \/ \E d \in Drift : Restart(d)
    \/ \E c \in Calls : BeginFetch(c) \/ Receive(c) \/ TimesOut(c)
    \/ \E g \in Gateways : RestartGateway(g)

Spec == Init /\ [][Next]_vars

(* The event loop runs what is ready in turn, so nobody waits for the process for ever; *)
(* the refresh loop and every gateway's poll loop go on.                                *)
FairSpec ==
    /\ Spec
    /\ WF_vars(Work)
    /\ SF_vars(BeginRefresh)
    /\ \A g \in Gateways :
          /\ SF_vars(BeginFetch(<<g, Poller>>))
          /\ WF_vars(Receive(<<g, Poller>>))

-----------------------------------------------------------------------------
(* The configurations gateways have or are about to get. *)
Held == {installed[g] : g \in Gateways} \cup
        {fetch[c].reply : c \in {d \in Calls : fetch[d].state = "replied"}}

(* A gateway compares versions only (config_store.py:67): that is enough, because a version *)
(* is never given to two contents, whatever reload signals, other clients, failing fetches  *)
(* and paced restarts do to the counter (config.py:22-32).                                  *)
VersionNamesContent ==
    \A a, b \in Held : a.version = b.version => a.content = b.content

(* Once a reload signal for a table has been handled, no gateway is answered with an older *)
(* state of that table: no fetch that was under way puts it back into the cache.  A failed  *)
(* fetch alone may leave the table out (loader.py:58-79).                                   *)
FreshAfterReload ==
    [][\A c \in Calls : fetch[c].state = "asked" /\ fetch'[c].state = "replied" =>
          \A p \in Parts : fetch'[c].reply.content[p] \in {0} \cup {n \in Nat : n >= floor[p]}]_vars

(* When the broker's tables rest and calls no longer fail, every gateway comes to have them, *)
(* "even if a reload signal was missed" (config.py:23), and even if the tables could not be  *)
(* rendered for a while.                                                                     *)
EventuallyCurrent ==
    <>[](Renders("gateway", broker) => \A g \in Gateways : installed[g].content = broker)

(* Why: inductive, and what the two safety properties rest on. *)
Numbered ==
    /\ counter > 0
    /\ \A c \in Held : c.version <= counter /\ (c.version = 0 => c = Empty)
    /\ last["gateway"] # Nothing =>
          \A c \in Held : c.version = counter => c.content = last["gateway"]
    /\ VersionNamesContent

Fresh ==
    /\ \A p \in Parts : floor[p] <= broker[p]
    /\ \A p \in Parts : cache[p] = Uncached \/ cache[p] >= floor[p]
    /\ \A p \in DOMAIN job.got : job.got[p] = 0 \/ job.got[p] >= floor[p]

Awaited ==
    job.client # Nobody => job.kind = "gateway" /\ fetch[job.client].state = "asked"

IInv == TypeOK /\ Numbered /\ Fresh /\ Awaited

=============================================================================
