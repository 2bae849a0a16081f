------------------------------ MODULE Telemetry ------------------------------
(***************************************************************************)
(* What a served request leaves in Redis: token counts (token_counter.py)  *)
(* in a route's cost counters (cost_tracker.py), written so that a failing *)
(* Redis never fails the request (redis_safety.py).                        *)
(***************************************************************************)
EXTENDS Integers, Sequences

(* count_tokens estimates, by tiktoken's encoding or by the characters if there is none; *)
(* what counts is that only an empty text has none, and that the encoding refuses a text   *)
(* that spells one of its special tokens, which nobody catches.                            *)
CountTokens(text) == Len(text)

EstimateRaises == BOOLEAN

ReportedOnly(reported, text) == reported           \* mutant: takes 0 for an answer

(* resolve_usage, completion tokens: 0 for a text that is not empty is no report. *)
ResolveUsage(reported, text) == IF reported > 0 THEN reported ELSE CountTokens(text)

(* @redis_safe record_usage, as the ways it can go: the pipeline is one transaction, *)
(* which is done, is not done, or is done although its reply is lost; an error is    *)
(* counted (gateway_redis_errors_total) and forgotten.                               *)
Recordings == [written : BOOLEAN, error : BOOLEAN] \ {[written |-> FALSE, error |-> FALSE]}

WithUsage(counters, tokens, so) == IF so.written THEN Append(counters, tokens) ELSE counters

=============================================================================
