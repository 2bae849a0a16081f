------------------------------- MODULE ChatApi -------------------------------
(***************************************************************************)
(* What POST /v1/chat/completions settles before it routes anything        *)
(* (gateway/app/main.py, middleware/auth.py): who asks, and for what.      *)
(***************************************************************************)
CONSTANTS RequireAuth,   (* settings.require_auth                                      *)
          ApiKeys,       (* settings.api_key_set                                       *)
          Headers,       (* the Authorization headers that may come: [bearer, key]     *)
          Nameless       (* no name in the request's `model' or `route'                *)

(* require_api_key: 401 otherwise *)
Authorized(header) == RequireAuth => header.bearer /\ header.key \in ApiKeys

(* A request, but for its messages: `model' is OpenAI's name for the route, `route' the old *)
(* one.  (`stream' decides between LLMRouter and StreamRequest, include_usage of            *)
(* stream_options is StreamRequest's `wanted'; the other fields are passed on or unused.)   *)
ChatRequest(names) == [model : names, route : names]

(* resolved_route: `model' goes before `route'; 422 if neither names anything *)
ResolvedRoute(request) == IF request.model # Nameless THEN request.model ELSE request.route

=============================================================================
