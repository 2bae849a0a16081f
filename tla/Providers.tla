------------------------------ MODULE Providers ------------------------------
(***************************************************************************)
(* The provider adapters (gateway/app/providers): which routes this build  *)
(* can serve, with which credential, and what an adapter makes of what     *)
(* came back from its upstream.  Stateless, so operators.                  *)
(***************************************************************************)
EXTENDS Integers, Sequences

CONSTANT Environment   (* the environment variables that are set, and not blank *)

Unnamed == ""          (* no variable, no key *)

(* What an adapter's class says of it: api_key_env and requires_api_key. *)
OpenAICompatible == [variable |-> "OPENAI_API_KEY", requiresKey |-> FALSE]

Ollama == [variable |-> Unnamed, requiresKey |-> FALSE]

Anthropic == [variable |-> "ANTHROPIC_API_KEY", requiresKey |-> TRUE]

(* The adapters register themselves on import. *)
Registry == [openai_compatible |-> OpenAICompatible, ollama |-> Ollama, anthropic |-> Anthropic]

(* get_provider: a KeyError otherwise *)
Registered(route) == route.provider \in DOMAIN Registry

(* The anthropic adapter is registered, but its calls raise NotImplementedError. *)
Implemented(route) == route.provider # "anthropic"

(* resolve_api_key: the variable that a route names goes before the provider's own. *)
VariableOf(route) == IF route.key # Unnamed THEN route.key ELSE Registry[route.provider].variable

KeyOf(route) == IF VariableOf(route) \in Environment THEN VariableOf(route) ELSE Unnamed

Authenticates(route) == Registry[route.provider].requiresKey \/ route.key # Unnamed

HasItsCredential(route) == Authenticates(route) => KeyOf(route) # Unnamed

(* What an adapter is asked to send, as far as this module tells requests apart *)
ProviderRequest(prompts) == [messages : prompts, key : Environment \cup {Unnamed}]

(* and what it sends: the messages as the router gives them, and a credential where the *)
(* upstream takes one.                                                                   *)
Payload(route, messages) ==
    [messages |-> messages, key |-> IF route.provider = "ollama" THEN Unnamed ELSE KeyOf(route)]

-----------------------------------------------------------------------------
(* What comes back: a status and a body, or a failure of httpx without one. *)
Statuses == {200, 307, 400, 401, 403, 404, 422, 429, 500, 502, 503, 529}

Faults == {"none", "timeout", "transport", "other"}

Bodies == {"completion", "no choices", "not json"}

StatusReply(s) == [status |-> s, fault |-> "none", body |-> "not json", text |-> <<>>, tokens |-> 0]

FaultReply(f) == [StatusReply(0) EXCEPT !.fault = f]

BodyReply(b, t, n) == [status |-> 200, fault |-> "none", body |-> b, text |-> t, tokens |-> n]

IsSuccess(status) == status \in 200..299

(* classify_http_error *)
HttpError(status) ==
    CASE status \in {401, 403} -> "auth"
      [] status = 429          -> "rate_limit"
      [] status >= 500         -> "overloaded"
      [] OTHER                 -> "bad_request"

(* wrap_transport_error: too many redirects, or a body that cannot be decoded, is a *)
(* plain ProviderError.                                                             *)
TransportError(fault) ==
    CASE fault = "timeout"   -> "timeout"
      [] fault = "transport" -> "connection"
      [] OTHER               -> "plain"

IsRetryable(error) == error \in {"rate_limit", "overloaded", "timeout", "connection"}

(* What chat_completion ends in: it returns a completion in the shape the gateway     *)
(* serves, or raises a ProviderError of this class, or an exception that is none.      *)
Returned(text, tokens) == [ending |-> "returned", text |-> text, tokens |-> tokens]

Raised(error) == [ending |-> error, text |-> <<>>, tokens |-> 0]

Exchanged(reply, made) ==
    IF reply.fault # "none"            THEN Raised(TransportError(reply.fault))
    ELSE IF ~IsSuccess(reply.status)   THEN Raised(HttpError(reply.status))
    ELSE IF reply.body = "not json"    THEN Raised("stray")
    ELSE made

(* _normalise: a completion without choices is the server's failure *)
Normalised(reply) ==
    IF reply.body = "completion" THEN Returned(reply.text, reply.tokens) ELSE Raised(HttpError(502))

(* Ollama's adapter makes an empty completion of a body without a message. *)
OllamaMakes(reply) ==
    Exchanged(reply, IF reply.body = "completion" THEN Returned(reply.text, reply.tokens)
                     ELSE Returned(<<>>, 0))

Completion(provider, reply) ==
    IF provider = "ollama" THEN OllamaMakes(reply) ELSE Exchanged(reply, Normalised(reply))

(* How the attempt ends for the router: stray exceptions count as worth a fallback. *)
Outcome(completion) ==
    CASE completion.ending = "returned" -> "ok"
      [] completion.ending = "stray" \/ IsRetryable(completion.ending) -> "retryable"
      [] OTHER -> "permanent"

=============================================================================
