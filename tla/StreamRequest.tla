---------------------------- MODULE StreamRequest ----------------------------
(***************************************************************************)
(* stream_request (gateway/app/router/llm_router.py) and the SSE body that *)
(* main.py's event_stream makes of it: the provider's chunks go through    *)
(* StreamGuard to the client.  `sent' is the text the client has received, *)
(* in the order it received it, and `events' what else it was sent.        *)
(*                                                                         *)
(* The provider cuts its response wherever it likes, may stop without a    *)
(* finish_reason, and may fail.  An OpenAI-compatible server's chunks are  *)
(* passed on as they come: it may put text into the chunk with the         *)
(* finish_reason, go on after it and send another, and count tokens in any *)
(* chunk or none; Ollama's adapter makes two chunks of a last frame with   *)
(* text, of which the second has the counts, and stops there.  Lines that  *)
(* are no chunk (keep-alives, bad JSON) change nothing.                    *)
(***************************************************************************)
EXTENDS StreamGuard, Providers, Telemetry

CONSTANTS StreamRoutes,  (* the routes: [provider, key]                  *)
          Texts,         (* the texts: where the rules match in each     *)
          MaxChunk       (* bound: characters in one chunk               *)

ASSUME StreamConstantsOK ==
    /\ Texts \subseteq SUBSET Match
    /\ MaxChunk \in Nat

VARIABLES route,     (* the route that was asked for                          *)
          stage,     (* where the stream is                                   *)
          finished,  (* has a finish_reason been seen, and in bare chunks or  *)
                     (* in one that carries text                              *)
          sent,      (* the text the client got                               *)
          events,    (* the status of a refusal, error chunks, usage, [DONE]  *)
          reported,  (* completion tokens the provider reported, 0 if none    *)
          usage,     (* what record_usage has recorded, if anything           *)
          redisErrors (* gateway_redis_errors_total for record_usage          *)

books == <<reported, usage, redisErrors>>
vars == <<guardVars, route, stage, finished, sent, events, books>>

NotRecorded == [text |-> <<>>, tokens |-> 0]

Refusals == {"misconfigured", "limiter_down", "rate_limited", "bad_gateway"}

TypeOK ==
    /\ GuardTypeOK
    /\ route \in StreamRoutes
    /\ stage \in {"new", "refused", "open", "done", "blocked", "broken", "left"}
    /\ finished \in {"no", "bare", "text"}
    /\ sent \in Seq(Item)
    /\ events \in Seq(Refusals \cup {"error", "usage", "[DONE]"})
    /\ reported \in 0..1
    /\ usage \in [text : Seq(Item), tokens : Nat]
    /\ redisErrors \in Nat

Init ==
    /\ action \in UNION {[R -> Actions] : R \in SUBSET Rules}
    /\ found \in {M \in Texts : \A m \in M : m.rule \in InForce}
    /\ PerRule
    /\ received = 0
    /\ base = 0
    /\ released = <<>>
    /\ cuts = {}
    /\ route \in StreamRoutes
    /\ stage = "new"
    /\ finished = "no"
    /\ sent = <<>>
    /\ events = <<>>
    /\ reported = 0
    /\ usage = NotRecorded
    /\ redisErrors = 0

-----------------------------------------------------------------------------
(* _chat_stream prepares the request before the body starts: what is refused here still *)
(* has a status.                                                                         *)
IsServable == Registered(route) /\ HasItsCredential(route)

Refuse(outcome) ==
    /\ stage = "new"
    /\ outcome = "misconfigured" => ~IsServable
    /\ outcome \in {"limiter_down", "rate_limited"} => IsServable
    /\ stage' = "refused"
    /\ events' = <<outcome>>
    /\ UNCHANGED <<guardVars, route, finished, sent, books>>

Open ==
    /\ stage = "new"
    /\ IsServable
    /\ stage' = "open"
    /\ UNCHANGED <<guardVars, route, finished, sent, events, books>>

(* From now on a failure is an error chunk, and every body ends with [DONE]. *)
Close(how, last) ==
    /\ stage' = how
    /\ events' = events \o last \o <<"[DONE]">>

ErrorChunk == <<"error">>

(* GuardrailViolation out of push or flush: the error chunk, and the generator returns. *)
Block ==
    /\ Close("blocked", ErrorChunk)
    /\ UNCHANGED <<finished, sent, books>>

(* Only an OpenAI-compatible server's stream goes on after a finish_reason. *)
Streams ==
    /\ stage = "open" /\ Implemented(route)
    /\ finished = "no" \/ route.provider = "openai_compatible"

(* A chunk of n characters without a finish_reason. *)
Chunk(n) ==
    LET p == Pushed(n)
    IN  /\ Streams
        /\ received + n <= Length
        /\ received' = received + n
        /\ \/ /\ Blocked(p.text)
              /\ Block
              /\ UNCHANGED <<base, released>>
           \/ /\ ~Blocked(p.text)
              /\ base' = p.base
              /\ released' = released \o p.text
              /\ sent' = sent \o p.text
              /\ UNCHANGED <<stage, finished, events, books>>
        /\ UNCHANGED <<action, found, cuts, route>>

WithoutTail(safe, tail) == safe              \* mutant: the buffer is not flushed

(* What the client gets of the chunk with the finish_reason: the tail of the buffer is *)
(* yielded as a chunk of its own, ahead of the chunk that carries `safe'.              *)
LastWords(safe, tail) == tail \o safe

(* The chunk with the finish_reason may carry n characters of text. *)
MayCarry(n) == n = 0 \/ route.provider = "openai_compatible"

(* Ollama's adapter makes a chunk of its own of the end of the last frame, with the token *)
(* counts.                                                                                *)
CountedAtTheEnd == IF route.provider = "ollama" THEN 0..1 ELSE {reported}

(* The chunk with the finish_reason, with n characters of text if n > 0. *)
Finish(n) ==
    LET p == IF n = 0 THEN [base |-> base, text |-> <<>>] ELSE Pushed(n)
        tail == FlushedFrom(p.base, received + n)
    IN  /\ Streams
        /\ received + n <= Length
        /\ MayCarry(n)
        /\ received' = received + n
        /\ \/ /\ Blocked(p.text)
              /\ Block
              /\ UNCHANGED <<base, released, cuts>>
           \/ /\ ~Blocked(p.text) /\ Blocked(tail.text)
              /\ Block
              /\ base' = p.base
              /\ released' = released \o p.text
              /\ UNCHANGED cuts
           \/ /\ ~Blocked(p.text) /\ ~Blocked(tail.text)
              /\ base' = tail.base
              /\ released' = released \o p.text \o tail.text
              /\ sent' = sent \o LastWords(p.text, tail.text)
              /\ finished' = IF n = 0 /\ finished # "text" THEN "bare" ELSE "text"
              /\ cuts' = cuts \cup {received'}
              /\ reported' \in CountedAtTheEnd
              /\ UNCHANGED <<stage, events, usage, redisErrors>>
        /\ UNCHANGED <<action, found, route>>

(* An OpenAI-compatible server reports usage, in a chunk without choices or beside text. *)
Report ==
    /\ Streams
    /\ route.provider = "openai_compatible"
    /\ reported' = 1
    /\ UNCHANGED <<guardVars, route, stage, finished, sent, events, usage, redisErrors>>

(* record_usage of the text that was released *)
Recorded(so) ==
    IF so.written THEN [text |-> released, tokens |-> ResolveUsage(reported, released)]
    ELSE NotRecorded

(* The provider's stream ends, with or without a finish_reason; the client gets the *)
(* usage only if it asked for it.                                                    *)
End ==
    /\ stage = "open" /\ Implemented(route)
    /\ \E so \in Recordings, wanted \in BOOLEAN :
          /\ Close("done", IF wanted THEN <<"usage">> ELSE <<>>)
          /\ usage' = Recorded(so)
          /\ redisErrors' = IF so.error THEN redisErrors + 1 ELSE redisErrors
    /\ UNCHANGED <<guardVars, route, finished, sent, reported>>

(* It fails instead: an error status, a lost connection, an adapter that is not written,  *)
(* before any text a rule whose pattern does not compile, or after the last a count of the *)
(* tokens that raises (EstimateRaises).  Nothing is recorded.                              *)
Break ==
    /\ stage = "open"
    /\ Close("broken", ErrorChunk)
    /\ UNCHANGED <<guardVars, route, finished, sent, books>>

(* The client goes away: the generator is cancelled, and nothing is recorded. *)
Leave ==
    /\ stage = "open"
    /\ stage' = "left"
    /\ UNCHANGED <<guardVars, route, finished, sent, events, books>>

Next ==
    \/ \E outcome \in Refusals : Refuse(outcome)
    \/ Open
    \/ \E n \in 1..MaxChunk : Chunk(n)
    \/ \E n \in 0..MaxChunk : Finish(n)
    \/ Report
    \/ End
    \/ Break
    \/ Leave

Spec == Init /\ [][Next]_vars

-----------------------------------------------------------------------------
(* The matches that no flush has cut in two. *)
Whole == {m \in found : \A c \in cuts : ~(m.start < c /\ c < m.end)}

(* The response up to hi, redacted at once. *)
OneShot(hi) == Redacted(0, hi, Collected(0, hi) \cap Whole)

Separate == \A m, n \in found : m # n => ~Overlap(m, n)

Prefix(s, t) == Len(s) <= Len(t) /\ SubSeq(t, 1, Len(s)) = s

(* However the provider cuts the text, and wherever it stops, what is released is what    *)
(* redacting the whole text at once would give, and nothing of a blocked match is: a      *)
(* pattern split over two chunks is still caught (stream_guard.py:9-13, README.md:103),   *)
(* unless a chunk with a finish_reason came between them; and all of it is released when   *)
(* the stream ends with such a chunk.  Only for matches that do not overlap.               *)
ChunkingIndependent ==
    Separate =>
        /\ Prefix(released, OneShot(Length))
        /\ stage = "done" /\ received \in cuts => released = OneShot(received)

(* The buffer is bounded, although a release point is pulled back to the start of a match: *)
(* the client trails the provider by less than a hold-back and a pattern.                  *)
BufferBounded ==
    InForce # {} /\ stage = "open" => received - base < HoldBack + Span

(* The client is sent exactly the text that the trace and the usage record account for,   *)
(* in the same order unless a chunk with a finish_reason carried text, and after such a    *)
(* chunk nothing is left in the buffer.  A stream that ended is recorded, unless  *)
(* Redis failed, with tokens for a text that is not empty; no other stream is, and what    *)
(* was refused before the body started has sent nothing.                                   *)
SentIsAccounted ==
    /\ usage # NotRecorded => stage = "done"
    /\ stage = "done" /\ sent # <<>> =>
          \/ usage = NotRecorded /\ redisErrors > 0
          \/ usage.tokens > 0 /\ \A i \in DOMAIN usage.text :
                Cardinality({j \in DOMAIN usage.text : usage.text[j] = usage.text[i]}) =
                Cardinality({j \in DOMAIN sent : sent[j] = usage.text[i]})
    /\ stage # "blocked" /\ finished # "text" => sent = released
    /\ stage = "done" /\ received \in cuts => base = received
    /\ stage = "refused" => sent = <<>> /\ Len(events) = 1

IInv == TypeOK /\ PerRule /\ BufferBounded


(* What the client has is what the guard released, in that order: the deltas of a stream *)
(* "reassemble into the full message" (tests/test_streaming_api.py:96).                  *)
DeliveredInOrder == Prefix(sent, released)

=============================================================================
