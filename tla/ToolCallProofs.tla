---------------------------- MODULE ToolCallProofs ----------------------------
(***************************************************************************)
(* ToolCall's invariants hold, and it implements ToolService, for any      *)
(* number of calls, tools, versions and attempts.  A step changes one call *)
(* that has not ended (LEMMA OneCall), or none, or ends all there are.     *)
(***************************************************************************)
EXTENDS ToolCall, TLAPS

Parts == CacheBacked /\ CallsCoherent /\ AnswerBacked /\ EffectsBounded

USE DEF vars, registryVars

LEMMA InitIInv == Init => IInv
  BY ConstantsOK DEF Init, IInv, TypeOK, CacheBacked, CallsCoherent, AnswerBacked, EffectsBounded,
     Call, NoCall, Keys, Versions

(* Call c goes from where it was to r, its tool having run n times with m attempts behind. *)
Moves(c, r, n, m) ==
    /\ call' = [call EXCEPT ![c] = r]
    /\ ran' = [ran EXCEPT ![c] = n] /\ behind' = [behind EXCEPT ![c] = m]
    /\ \/ cache' = cache
       \/ cache' = [cache EXCEPT ![r.tool] = Nobody]
       \/ r.from = c /\ cache' = [cache EXCEPT ![r.tool] = c]

Lawful(c, r, n, m) ==
    /\ call[c].pc # "ended" /\ n >= ran[c]
    /\ r.pc \in {"idle", "routing"} => r.tries = 0
    /\ r.pc = "routing" => r.tool \in Tools
    /\ r.pc # "ended" => r.res = "none" /\ r.outcome = "none" /\ r.from = Nobody
    /\ r.pc = "pausing" => r.tries < MaxAttempts
    /\ n + m + (IF r.pc = "calling" THEN 1 ELSE 0) <= r.tries
    /\ r.from = c => r.outcome = "answer" /\ n > 0
    /\ r.res = "ok" /\ r.from # c => r.tries = 0 /\ Backed(r.from, r.tool)

LEMMA OneCall ==
  ASSUME IInv, NEW c \in Calls, NEW r \in Call, NEW n \in Nat, NEW m \in Nat,
         Moves(c, r, n, m), Lawful(c, r, n, m)
  PROVE  Parts'
<1> USE DEF Moves, Lawful
<1> USE DEF IInv, TypeOK
<1>1. /\ call' \in [Calls -> Call] /\ call'[c] = r /\ ran'[c] = n /\ behind'[c] = m
      /\ \A b \in Calls \ {c} : call'[b] = call[b] /\ ran'[b] = ran[b] /\ behind'[b] = behind[b]
  OBVIOUS
<1>2. ASSUME NEW b, NEW t, Backed(b, t) PROVE Backed(b, t)' /\ b # c
  <2>1. b # c
    BY <1>2, ConstantsOK DEF Backed, CallsCoherent
  <2> QED BY <1>1, <1>2, <2>1 DEF Backed
<1>3. r.res = "ok" \/ r.from = c => Backed(r.from, r.tool)'
  BY <1>1, <1>2 DEF Backed
<1>4. CacheBacked'
  <2> SUFFICES ASSUME NEW t \in Tools, cache'[t] # Nobody PROVE Backed(cache[t], t)'
    BY DEF CacheBacked
  <2>1. CASE cache'[t] = cache[t]
    BY <2>1, <1>2 DEF CacheBacked
  <2>2. CASE cache'[t] # cache[t]
    BY <2>2, <1>3 DEF Call
  <2> QED BY <2>1, <2>2
<1>5. CallsCoherent'
  BY <1>1 DEF CallsCoherent
<1>6. AnswerBacked'
  BY <1>1, <1>2, <1>3 DEF AnswerBacked
<1>7. EffectsBounded'
  BY <1>1 DEF EffectsBounded, Call
<1> QED BY <1>4, <1>5, <1>6, <1>7 DEF Parts

(* Nothing that the parts are about changes. *)
LEMMA Quiet ==
  ASSUME IInv, UNCHANGED <<call, cache, behind, ran>> PROVE Parts'
  BY DEF IInv, Parts, CacheBacked, CallsCoherent, AnswerBacked, EffectsBounded, Backed

(* The registry, its poll loop, the windows and the cache's expiry. *)
LEMMA RegistryKeeps ==
  ASSUME IInv, Publish \/ FetchServers \/ Install \/ RefreshFails \/ Discover
  PROVE  IInv'
<1>1. TypeOK'
  <2> USE ConstantsOK DEF IInv, TypeOK, Versions
  <2>1. CASE Publish BY <2>1 DEF Publish
  <2>2. CASE FetchServers BY <2>2 DEF FetchServers
  <2>3. CASE Install BY <2>3 DEF Install
  <2>4. CASE RefreshFails BY <2>4 DEF RefreshFails
  <2>5. CASE Discover BY <2>5 DEF Discover
  <2> QED BY <2>1, <2>2, <2>3, <2>4, <2>5
<1>2. UNCHANGED <<call, cache, behind, ran>>
  BY DEF Publish, FetchServers, Install, RefreshFails, Discover
<1>3. Parts'
  BY <1>2, Quiet
<1> QED BY <1>1, <1>3 DEF IInv, Parts

LEMMA SlideKeeps ==
  ASSUME IInv, NEW k \in Keys, Slide(k) PROVE IInv'
<1>1. TypeOK'
  BY DEF IInv, TypeOK, Slide
<1>2. Parts'
  BY Quiet DEF Slide
<1> QED BY <1>1, <1>2 DEF IInv, Parts

LEMMA ExpireKeeps ==
  ASSUME IInv, NEW t \in Tools, Expire(t) PROVE IInv'
  BY ConstantsOK DEF IInv, TypeOK, Expire, CacheBacked, CallsCoherent, AnswerBacked, EffectsBounded, Backed

-----------------------------------------------------------------------------
(* What is left of the state's type while a call moves. *)
LEMMA OthersTyped ==
  ASSUME IInv, UNCHANGED registryVars, window' \in [Keys -> Nat],
         NEW c \in Calls, NEW r \in Call, NEW n \in Nat, NEW m \in Nat,
         call' = [call EXCEPT ![c] = r],
         ran' = [ran EXCEPT ![c] = n], behind' = [behind EXCEPT ![c] = m],
         cache' \in [Tools -> Calls \cup {Nobody}]
  PROVE  TypeOK'
  BY DEF IInv, TypeOK

LEMMA LimitTyped ==
  ASSUME IInv, NEW c \in Calls, NEW t \in Tools, NEW outcome, RateLimit(c, t, outcome)
  PROVE  window' \in [Keys -> Nat]
<1>1. \A where \in {"redis", "local"} : Key(where, c, t) \in Keys
  BY ConstantsOK DEF Key, Keys
<1>2. \E slots \in SUBSET Keys : Counted(slots)
  BY <1>1 DEF RateLimit, Degraded, Free
<1> QED BY <1>2 DEF Counted, IInv, TypeOK

(* A request before its first attempt: nothing has been sent for it. *)
LEMMA Unsent ==
  ASSUME IInv, NEW c \in Calls, call[c].pc \in {"idle", "routing"}
  PROVE  ran[c] = 0 /\ behind[c] = 0 /\ call[c].tries = 0
<1>1. ran[c] \in Nat /\ behind[c] \in Nat /\ call[c].tries = 0
  BY DEF IInv, TypeOK, CallsCoherent
<1>2. ran[c] + behind[c] + 0 <= 0
  BY <1>1 DEF IInv, EffectsBounded
<1> QED BY <1>1, <1>2

LEMMA BegunTyped ==
  ASSUME NEW t \in Tools \cup {Nobody}
  PROVE  /\ Begun(t) \in Call /\ Begun(t).pc = "idle" /\ Begun(t).tool = t
         /\ Begun(t).tries = 0 /\ Begun(t).outcome = "none"
         /\ Begun(t).from = Nobody /\ Begun(t).res = "none"
<1>1. NoCall \in Call
  <2>1. 0 \in 0..MaxAttempts
    BY ConstantsOK
  <2> QED BY <2>1 DEF NoCall, Call
<1>2. PICK x \in BOOLEAN : Begun(t) = [NoCall EXCEPT !.tool = t, !.tagged = x]
  <2>1. CASE t \in catalogue
    <3>1. (t \in catalogue) = TRUE
      BY <2>1, Zenon
    <3>2. Begun(t) = [NoCall EXCEPT !.tool = t, !.tagged = TRUE]
      BY <3>1, Zenon DEF Begun
    <3> QED BY <3>2, Zenon
  <2>2. CASE ~(t \in catalogue)
    <3>1. (t \in catalogue) = FALSE
      BY <2>2, SMT
    <3>2. Begun(t) = [NoCall EXCEPT !.tool = t, !.tagged = FALSE]
      BY <3>1, Zenon DEF Begun
    <3> QED BY <3>2, Zenon
  <2> QED BY <2>1, <2>2
<1>3. Begun(t) \in Call
  BY <1>1, <1>2 DEF Call
<1> QED BY <1>2, <1>3, <1>1 DEF NoCall, Call

(* What Enter and Route make of a call that has not been sent. *)
LEMMA EntersWith ==
  ASSUME IInv, NEW c \in Calls, call[c].pc \in {"idle", "routing"},
         NEW r \in Call, call' = [call EXCEPT ![c] = r],
         UNCHANGED <<registryVars, cache, behind, ran>>, window' \in [Keys -> Nat],
         r.pc = "idle" \/ r.pc = "routing" => r.tries = 0,
         r.pc = "routing" => r.tool \in Tools,
         r.pc # "ended" => r.res = "none" /\ r.outcome = "none" /\ r.from = Nobody,
         r.pc # "pausing",
         r.pc = "calling" => r.tries = 1,
         r.from = Nobody \/ Backed(r.from, r.tool),
         r.res = "ok" => r.tries = 0 /\ Backed(r.from, r.tool)
  PROVE  IInv'
<1>1. ran' = [ran EXCEPT ![c] = 0] /\ behind' = [behind EXCEPT ![c] = 0] /\ ran[c] = 0
  BY Unsent DEF IInv, TypeOK
<1>2. r.from # c
  BY ConstantsOK DEF Backed, IInv, CallsCoherent
<1>3. 0 + 0 + (IF r.pc = "calling" THEN 1 ELSE 0) <= r.tries
  BY DEF Call
<1>4. Moves(c, r, 0, 0)
  BY <1>1 DEF Moves
<1>5. Parts'
  <2>1. Lawful(c, r, 0, 0)
    BY <1>1, <1>2, <1>3 DEF Lawful
  <2> QED BY <1>4, <2>1, OneCall
<1>6. TypeOK'
  BY <1>1, OthersTyped DEF IInv, TypeOK
<1> QED BY <1>5, <1>6 DEF IInv, Parts

LEMMA EnterKeeps ==
  ASSUME IInv, NEW c \in Calls, NEW t \in Tools, call[c].pc \in {"idle", "routing"}, Enter(c, t)
  PROVE  IInv'
<1> DEFINE b == Begun(t)
<1>1. /\ b \in Call /\ b.pc = "idle" /\ b.tool = t /\ b.tries = 0 /\ b.outcome = "none"
      /\ b.from = Nobody /\ b.res = "none"
  BY BegunTyped, Zenon
<1>2. window' \in [Keys -> Nat]
  BY LimitTyped DEF Enter, Denied, Unserved, Hit, Forward
<1>3. UNCHANGED <<registryVars, cache, behind, ran>>
  BY DEF Enter
<1> HIDE DEF b
<1>4. CASE \E from \in Calls \cup {Nobody}, res \in {"ok", "error"} :
               /\ call' = [call EXCEPT ![c] = [b EXCEPT !.pc = "ended", !.from = from, !.res = res]]
               /\ IF res = "ok" THEN Backed(from, t) ELSE from = Nobody
  <2>1. PICK from \in Calls \cup {Nobody}, res \in {"ok", "error"} :
               /\ call' = [call EXCEPT ![c] = [b EXCEPT !.pc = "ended", !.from = from, !.res = res]]
               /\ IF res = "ok" THEN Backed(from, t) ELSE from = Nobody
    BY <1>4
  <2> DEFINE r == [b EXCEPT !.pc = "ended", !.from = from, !.res = res]
  <2>2. r \in Call /\ r.pc = "ended" /\ r.from = from /\ r.res = res /\ r.tries = 0 /\ r.tool = t
    BY <1>1 DEF Call
  <2> HIDE DEF r
  <2>3. call' = [call EXCEPT ![c] = r]
    BY <2>1 DEF r
  <2> QED BY <1>2, <1>3, <2>1, <2>2, <2>3, EntersWith
<1>5. CASE call' = [call EXCEPT ![c] = [b EXCEPT !.pc = "calling", !.tries = 1]]
  <2> DEFINE r == [b EXCEPT !.pc = "calling", !.tries = 1]
  <2>3. 1 \in 0..MaxAttempts
    BY ConstantsOK
  <2>1. /\ r \in Call /\ r.pc = "calling" /\ r.tries = 1
        /\ r.from = Nobody /\ r.res = "none" /\ r.outcome = "none"
    BY <1>1, <2>3 DEF Call
  <2> HIDE DEF r
  <2>2. call' = [call EXCEPT ![c] = r]
    BY <1>5 DEF r
  <2> QED BY <1>2, <1>3, <2>1, <2>2, EntersWith
<1>6. CASE Hit(c, t)
  <2>1. Backed(cache[t], t) /\ cache[t] \in Calls
    BY <1>6 DEF Hit, IInv, CacheBacked, Backed
  <2> QED BY <1>4, <1>6, <2>1 DEF Hit, Ended, b
<1>7. CASE Denied(c, t) \/ Unserved(c, t)
  BY <1>4, <1>7 DEF Denied, Unserved, Ended, b
<1>8. CASE Forward(c, t)
  BY <1>5, <1>8 DEF Forward, b
<1> QED BY <1>6, <1>7, <1>8 DEF Enter

LEMMA RouteKeeps ==
  ASSUME IInv, NEW c \in Calls, Route(c) \/ RouteFails(c) PROVE IInv'
<1>1. call[c].pc \in {"idle", "routing"} /\ window' \in [Keys -> Nat] /\ catalogue \subseteq Tools
  BY DEF Route, RouteFails, IInv, TypeOK
<1>2. CASE \E t \in Tools \cup {Nobody} : Ended(c, t, Nobody, "error")
  <2>1. PICK t \in Tools \cup {Nobody} : Ended(c, t, Nobody, "error")
    BY <1>2
  <2> DEFINE r == [Begun(t) EXCEPT !.pc = "ended", !.from = Nobody, !.res = "error"]
  <2>4. Begun(t) \in Call
    BY BegunTyped, Zenon
  <2>2. r \in Call /\ r.pc = "ended" /\ r.res = "error" /\ r.from = Nobody
    BY <2>4 DEF Call
  <2> HIDE DEF r
  <2>3. call' = [call EXCEPT ![c] = r]
    BY <2>1 DEF r, Ended
  <2> QED BY <1>1, <2>2, <2>3, EntersWith DEF Route, RouteFails
<1>3. CASE Route(c) /\ \E t \in catalogue : call' = [call EXCEPT ![c].pc = "routing", ![c].tool = t]
  <2>1. PICK t \in Tools : call' = [call EXCEPT ![c].pc = "routing", ![c].tool = t]
    BY <1>1, <1>3
  <2> DEFINE r == [call[c] EXCEPT !.pc = "routing", !.tool = t]
  <2>2. /\ r \in Call /\ r.pc = "routing" /\ r.tool \in Tools /\ r.res = "none" /\ r.outcome = "none"
        /\ r.from = Nobody /\ r.tries = 0
    BY <1>3, Unsent DEF Route, IInv, TypeOK, CallsCoherent, Call
  <2> HIDE DEF r
  <2>3. call' = [call EXCEPT ![c] = r]
    BY <2>1 DEF r, IInv, TypeOK, Call
  <2> QED BY <1>1, <1>3, <2>2, <2>3, EntersWith DEF Route
<1>4. call[c].tool \in Tools \cup {Nobody}
  BY DEF IInv, TypeOK, Call
<1> QED BY <1>2, <1>3, <1>4 DEF Route, RouteFails

-----------------------------------------------------------------------------
(* A call that was sent moves lawfully: what is left of its step is its type. *)
LEMMA SentKeeps ==
  ASSUME IInv, NEW c \in Calls, NEW r \in Call, NEW n \in Nat, NEW m \in Nat,
         Moves(c, r, n, m), Lawful(c, r, n, m), UNCHANGED <<registryVars, window>>, r.tool \in Tools \cup {Nobody}
  PROVE  IInv'
<1>1. Parts'
  BY OneCall
<1>2. cache' \in [Tools -> Calls \cup {Nobody}]
  BY DEF IInv, TypeOK, Moves
<1>3. TypeOK'
  BY <1>2, OthersTyped DEF Moves, IInv, TypeOK
<1> QED BY <1>1, <1>3 DEF IInv, Parts

(* A call with an attempt under way. *)
LEMMA Calling ==
  ASSUME IInv, NEW c \in Calls, call[c].pc = "calling"
  PROVE  /\ call[c] \in Call /\ call[c].res = "none" /\ call[c].outcome = "none"
         /\ call[c].from = Nobody /\ call[c].tries \in Nat /\ call[c].tries <= MaxAttempts
         /\ ran[c] \in Nat /\ behind[c] \in Nat /\ ran[c] + behind[c] + 1 <= call[c].tries
         /\ MaxAttempts \in Nat
<1>1. call[c] \in Call /\ ran[c] \in Nat /\ behind[c] \in Nat /\ MaxAttempts \in Nat
  BY ConstantsOK DEF IInv, TypeOK
<1>2. ran[c] + behind[c] + 1 <= call[c].tries
  BY <1>1 DEF IInv, EffectsBounded
<1>3. call[c].res = "none" /\ call[c].outcome = "none" /\ call[c].from = Nobody
  BY DEF IInv, CallsCoherent
<1> QED BY <1>1, <1>2, <1>3 DEF Call

LEMMA RunsTyped ==
  ASSUME IInv, NEW c \in Calls, NEW did \in BOOLEAN, Runs(c, did)
  PROVE  /\ ran[c] \in Nat /\ ran[c] + 1 \in Nat
         /\ \/ ran' = [ran EXCEPT ![c] = ran[c]]
            \/ ran' = [ran EXCEPT ![c] = ran[c] + 1]
<1>1. ran \in [Calls -> Nat]
  BY DEF IInv, TypeOK
<1>2. CASE did
  BY <1>1, <1>2 DEF Runs
<1>3. CASE ~did
  BY <1>1, <1>3 DEF Runs
<1> QED BY <1>2, <1>3

LEMMA UnansweredKeeps ==
  ASSUME IInv, NEW c \in Calls, call[c].pc = "calling",
         NEW outcome \in {"none", "refusal"}, Unanswered(c, outcome),
         NEW n \in Nat, NEW m \in Nat, n >= ran[c], n + m <= ran[c] + behind[c] + 1,
         ran' = [ran EXCEPT ![c] = n], behind' = [behind EXCEPT ![c] = m],
         UNCHANGED <<registryVars, window, cache>>
  PROVE  IInv'
<1> DEFINE r == IF TriesAgain(c, outcome)
                THEN [call[c] EXCEPT !.pc = "pausing", !.outcome = outcome]
                ELSE [call[c] EXCEPT !.pc = "ended", !.outcome = outcome, !.res = "error"]
<1>1. call' = [call EXCEPT ![c] = r]
  <2>1. CASE TriesAgain(c, outcome)
    BY <2>1 DEF Unanswered, IInv, TypeOK, Call
  <2>2. CASE ~TriesAgain(c, outcome)
    BY <2>2 DEF Unanswered, IInv, TypeOK, Call
  <2> QED BY <2>1, <2>2
<1>2. /\ r \in Call /\ r.pc \in {"pausing", "ended"} /\ r.tries = call[c].tries
      /\ r.res # "ok" /\ r.from = Nobody /\ r.tool \in Tools \cup {Nobody}
      /\ r.pc = "pausing" => /\ r.res = "none" /\ r.outcome = "none" /\ r.from = Nobody
                             /\ r.tries < MaxAttempts
  BY Calling DEF Call, TriesAgain
<1> HIDE DEF r
<1>3. Moves(c, r, n, m)
  BY <1>1 DEF Moves
<1>4. Lawful(c, r, n, m)
  BY <1>2, Calling, ConstantsOK DEF Lawful
<1> QED BY <1>2, <1>3, <1>4, SentKeeps

LEMMA FailureKeeps ==
  ASSUME IInv, NEW c \in Calls, Refused(c) \/ Fails(c) \/ TimesOut(c) PROVE IInv'
<1>1. call[c].pc = "calling" /\ UNCHANGED <<registryVars, window, cache>>
  BY DEF Refused, Fails, TimesOut
<1>2. PICK outcome \in {"none", "refusal"} : Unanswered(c, outcome)
  BY DEF Refused, Fails, TimesOut
<1>3. ran[c] \in Nat /\ behind[c] \in Nat /\ ran \in [Calls -> Nat] /\ behind \in [Calls -> Nat]
  BY DEF IInv, TypeOK
<1>4. CASE Refused(c) \/ Fails(c)
  <2>1. PICK did \in BOOLEAN : Runs(c, did)
    BY <1>4 DEF Refused, Fails
  <2>2. behind' = [behind EXCEPT ![c] = behind[c]]
    BY <1>3, <1>4 DEF Refused, Fails
  <2>3. CASE ran' = [ran EXCEPT ![c] = ran[c]]
    <3>1. ran[c] >= ran[c] /\ ran[c] + behind[c] <= ran[c] + behind[c] + 1
      BY <1>3
    <3> QED BY <1>1, <1>2, <1>3, <2>2, <2>3, <3>1, UnansweredKeeps
  <2>4. CASE ran' = [ran EXCEPT ![c] = ran[c] + 1]
    <3>1. /\ ran[c] + 1 \in Nat /\ ran[c] + 1 >= ran[c]
          /\ ran[c] + 1 + behind[c] <= ran[c] + behind[c] + 1
      BY <1>3
    <3> QED BY <1>1, <1>2, <1>3, <2>2, <2>4, <3>1, UnansweredKeeps
  <2> QED BY <2>1, <2>3, <2>4, RunsTyped
<1>5. CASE TimesOut(c)
  <2>1. ran' = [ran EXCEPT ![c] = ran[c]]
    BY <1>3, <1>5 DEF TimesOut
  <2>2. behind' = [behind EXCEPT ![c] = behind[c] + 1]
    BY <1>3, <1>5 DEF TimesOut
  <2>3. /\ ran[c] >= ran[c] /\ behind[c] + 1 \in Nat
        /\ ran[c] + (behind[c] + 1) <= ran[c] + behind[c] + 1
    BY <1>3
  <2> QED BY <1>1, <1>2, <1>3, <2>1, <2>2, <2>3, UnansweredKeeps
<1> QED BY <1>4, <1>5

LEMMA AnsweredKeeps ==
  ASSUME IInv, NEW c \in Calls, NEW clean \in BOOLEAN, Answered(c, clean) PROVE IInv'
<1>1. call[c].pc = "calling" /\ UNCHANGED <<registryVars, window, behind>>
  BY DEF Answered
<1>2. /\ ran \in [Calls -> Nat] /\ behind \in [Calls -> Nat] /\ call \in [Calls -> Call]
      /\ ran[c] \in Nat /\ behind[c] \in Nat /\ ran[c] + 1 \in Nat
  BY DEF IInv, TypeOK
<1>3. ran' = [ran EXCEPT ![c] = ran[c] + 1] /\ behind' = [behind EXCEPT ![c] = behind[c]]
  BY <1>1, <1>2 DEF Answered, Runs
<1> DEFINE e == [call[c] EXCEPT !.pc = "ended", !.outcome = "answer", !.res = "error"]
           p == [e EXCEPT !.from = c]
           o == [p EXCEPT !.res = "ok"]
<1>4. /\ e \in Call /\ e.pc = "ended" /\ e.tries = call[c].tries /\ e.res = "error"
      /\ e.from = Nobody
      /\ p \in Call /\ p.pc = "ended" /\ p.tries = call[c].tries /\ p.res = "error" /\ p.from = c
      /\ p.outcome = "answer" /\ p.tool = call[c].tool
      /\ o \in Call /\ o.pc = "ended" /\ o.tries = call[c].tries /\ o.res = "ok" /\ o.from = c
      /\ o.outcome = "answer" /\ o.tool = call[c].tool /\ e.tool = call[c].tool
      /\ call[c].tool \in Tools \cup {Nobody}
  BY Calling, <1>1 DEF Call
<1>5. \/ call' = [call EXCEPT ![c] = e] /\ cache' = cache
      \/ /\ call' = [call EXCEPT ![c] = p] \/ call' = [call EXCEPT ![c] = o]
         /\ \/ cache' = cache
            \/ cache' = [cache EXCEPT ![call[c].tool] = c]
            \/ cache' = [cache EXCEPT ![call[c].tool] = Nobody]
  BY DEF Answered, Storable, Stored
<1> HIDE DEF e, o, p
<1>6. CASE call' = [call EXCEPT ![c] = e] /\ cache' = cache
  <2>1. Moves(c, e, ran[c] + 1, behind[c])
    BY <1>3, <1>6 DEF Moves
  <2>2. Lawful(c, e, ran[c] + 1, behind[c])
    BY <1>1, <1>4, Calling, ConstantsOK DEF Lawful
  <2> QED BY <1>1, <1>2, <1>4, <2>1, <2>2, SentKeeps
<1>7. CASE /\ call' = [call EXCEPT ![c] = p] \/ call' = [call EXCEPT ![c] = o]
           /\ \/ cache' = cache
              \/ cache' = [cache EXCEPT ![call[c].tool] = c]
              \/ cache' = [cache EXCEPT ![call[c].tool] = Nobody]
  <2>1. PICK r \in {p, o} : call' = [call EXCEPT ![c] = r]
    BY <1>7
  <2>2. /\ r \in Call /\ r.pc = "ended" /\ r.tries = call[c].tries /\ r.from = c
        /\ r.outcome = "answer" /\ r.tool = call[c].tool
    BY <1>4, <2>1
  <2>3. Moves(c, r, ran[c] + 1, behind[c])
    BY <1>3, <1>7, <2>1, <2>2 DEF Moves
  <2>4. Lawful(c, r, ran[c] + 1, behind[c])
    BY <1>1, <2>2, Calling DEF Lawful
  <2> QED BY <1>1, <1>2, <1>4, <2>2, <2>3, <2>4, SentKeeps
<1> QED BY <1>5, <1>6, <1>7

LEMMA RetryKeeps ==
  ASSUME IInv, NEW c \in Calls, Retry(c) PROVE IInv'
<1>1. /\ call[c] \in Call /\ call \in [Calls -> Call] /\ ran[c] \in Nat /\ behind[c] \in Nat
      /\ ran \in [Calls -> Nat] /\ behind \in [Calls -> Nat] /\ MaxAttempts \in Nat
  BY ConstantsOK DEF IInv, TypeOK
<1>2. /\ call[c].pc = "pausing" /\ call[c].tries < MaxAttempts
      /\ call[c].res = "none" /\ call[c].outcome = "none" /\ call[c].from = Nobody
  BY DEF Retry, IInv, CallsCoherent
<1>3. ran[c] + behind[c] + 0 <= call[c].tries
  BY <1>1, <1>2 DEF IInv, EffectsBounded
<1> DEFINE r == [call[c] EXCEPT !.pc = "calling", !.tries = @ + 1]
<1>4. call[c].tries \in Nat /\ call[c].tries + 1 \in 0..MaxAttempts
  BY <1>1, <1>2 DEF Call
<1>5. /\ r \in Call /\ r.pc = "calling" /\ r.tries = call[c].tries + 1 /\ r.res = "none"
      /\ r.outcome = "none" /\ r.from = Nobody /\ r.tool \in Tools \cup {Nobody}
  BY <1>1, <1>2, <1>4 DEF Call
<1>6. call' = [call EXCEPT ![c] = r]
  BY <1>1 DEF Retry, Call
<1> HIDE DEF r
<1>7. Moves(c, r, ran[c], behind[c])
  BY <1>1, <1>6 DEF Moves, Retry
<1>8. Lawful(c, r, ran[c], behind[c])
  BY <1>1, <1>2, <1>3, <1>4, <1>5, ConstantsOK DEF Lawful
<1> QED BY <1>1, <1>5, <1>7, <1>8, SentKeeps DEF Retry

(* The tool catches up with a call wherever it is: only its effect is counted. *)
LEMMA CatchUpKeeps ==
  ASSUME IInv, NEW c \in Calls, CatchUp(c) PROVE IInv'
<1>1. /\ ran \in [Calls -> Nat] /\ behind \in [Calls -> Nat] /\ behind[c] \in Nat /\ behind[c] > 0
      /\ ran[c] \in Nat
  BY DEF IInv, TypeOK, CatchUp
<1>2. PICK did \in BOOLEAN : Runs(c, did)
  BY DEF CatchUp
<1>3. \/ ran' = [ran EXCEPT ![c] = ran[c]]
      \/ ran' = [ran EXCEPT ![c] = ran[c] + 1]
  BY <1>2, RunsTyped
<1>4. behind' = [behind EXCEPT ![c] = behind[c] - 1] /\ behind[c] - 1 \in Nat
  BY <1>1 DEF CatchUp
<1>5. UNCHANGED <<registryVars, window, cache, call>>
  BY DEF CatchUp
<1>6. TypeOK'
  BY <1>1, <1>3, <1>4, <1>5 DEF IInv, TypeOK
<1>7. ASSUME NEW b, NEW t, Backed(b, t) PROVE Backed(b, t)'
  <2>1. b \in Calls /\ ran[b] > 0 /\ ran'[b] \in Nat /\ ran'[b] >= ran[b] /\ ran[b] \in Nat
    BY <1>1, <1>3, <1>7 DEF Backed
  <2> QED BY <2>1, <1>5, <1>7 DEF Backed
<1>8. CacheBacked' /\ AnswerBacked' /\ CallsCoherent'
  BY <1>5, <1>7 DEF IInv, CacheBacked, AnswerBacked, CallsCoherent
<1>9. EffectsBounded'
  <2> SUFFICES ASSUME NEW b \in Calls
               PROVE  ran'[b] + behind'[b] <= ran[b] + behind[b] /\ call'[b] = call[b]
                      /\ ran'[b] \in Nat /\ behind'[b] \in Nat /\ ran[b] \in Nat /\ behind[b] \in Nat
    <3>1. \A b \in Calls : call[b].tries \in Nat
      BY ConstantsOK DEF IInv, TypeOK, Call
    <3> QED BY <3>1 DEF IInv, EffectsBounded
  <2>1. CASE b = c
    BY <2>1, <1>1, <1>3, <1>4, <1>5
  <2>2. CASE b # c
    BY <2>2, <1>1, <1>3, <1>4, <1>5
  <2> QED BY <2>1, <2>2
<1> QED BY <1>6, <1>8, <1>9 DEF IInv

(* Every call under way ends; an attempt under way becomes one left behind. *)
LEMMA CrashKeeps ==
  ASSUME IInv, Crash PROVE IInv'
<1> DEFINE fell(c) == call[c].pc \notin {"idle", "ended"}
<1>1. /\ call \in [Calls -> Call] /\ ran \in [Calls -> Nat] /\ behind \in [Calls -> Nat]
      /\ window \in [Keys -> Nat] /\ ran' = ran /\ cache' = cache
  BY DEF IInv, TypeOK, Crash
<1>2. ASSUME NEW c \in Calls, fell(c)
      PROVE  /\ call'[c] = [call[c] EXCEPT !.pc = "ended", !.res = "error"]
             /\ call'[c] \in Call /\ call'[c].pc = "ended" /\ call'[c].res = "error"
             /\ call'[c].tries = call[c].tries
  BY <1>1, <1>2 DEF Crash, Call
<1>3. ASSUME NEW c \in Calls, ~fell(c) PROVE call'[c] = call[c]
  BY <1>3 DEF Crash
<1>4. ASSUME NEW c \in Calls
      PROVE  behind'[c] = IF call[c].pc = "calling" THEN behind[c] + 1 ELSE behind[c]
  BY DEF Crash
<1>5. TypeOK'
  <2>1. call' \in [Calls -> Call]
    BY <1>1, <1>2, <1>3 DEF Crash
  <2>2. behind' \in [Calls -> Nat]
    <3>1. behind' = [c \in Calls |-> IF call[c].pc = "calling" THEN behind[c] + 1 ELSE behind[c]]
      BY DEF Crash
    <3>2. ASSUME NEW c \in Calls
          PROVE  (IF call[c].pc = "calling" THEN behind[c] + 1 ELSE behind[c]) \in Nat
      BY <1>1
    <3> QED BY <3>1, <3>2
  <2>3. window' \in [Keys -> Nat]
    <3>1. window' = [k \in Keys |-> IF k[1] = "local" THEN 0 ELSE window[k]]
      BY DEF Crash
    <3>2. ASSUME NEW k \in Keys PROVE (IF k[1] = "local" THEN 0 ELSE window[k]) \in Nat
      BY <1>1
    <3> QED BY <3>1, <3>2
  <2>4. 0 \in Versions
    BY ConstantsOK DEF Versions
  <2> QED BY <1>1, <2>1, <2>2, <2>3, <2>4 DEF IInv, TypeOK, Crash
<1>6. ASSUME NEW b, NEW t, Backed(b, t) PROVE Backed(b, t)'
  <2>1. b \in Calls /\ call[b].pc = "ended"
    BY <1>6 DEF Backed, IInv, CallsCoherent
  <2> QED BY <1>1, <1>3, <1>6, <2>1 DEF Backed
<1>7. CacheBacked'
  BY <1>1, <1>6 DEF IInv, CacheBacked
<1>8. AnswerBacked'
  BY <1>2, <1>3, <1>6 DEF IInv, AnswerBacked
<1>9. CallsCoherent'
  <2> SUFFICES ASSUME NEW c \in Calls
               PROVE  /\ call'[c].pc \in {"idle", "routing"} => call'[c].tries = 0
                      /\ call'[c].pc = "routing" => call'[c].tool \in Tools
                      /\ call'[c].pc # "ended" => /\ call'[c].res = "none" /\ call'[c].outcome = "none"
                                                /\ call'[c].from = Nobody
                      /\ call'[c].pc = "pausing" => call'[c].tries < MaxAttempts
    BY DEF CallsCoherent
  <2>1. CASE fell(c)
    BY <1>2, <2>1
  <2>2. CASE ~fell(c)
    BY <1>3, <2>2 DEF IInv, CallsCoherent
  <2> QED BY <2>1, <2>2
<1>10. EffectsBounded'
  <2> SUFFICES ASSUME NEW c \in Calls
               PROVE  /\ ran'[c] + behind'[c] + (IF call'[c].pc = "calling" THEN 1 ELSE 0) <= call'[c].tries
                      /\ call'[c].tries <= MaxAttempts
                      /\ call'[c].res = "ok" /\ call'[c].from # c => call'[c].tries = 0
    BY DEF EffectsBounded
  <2>1. ran[c] \in Nat /\ behind[c] \in Nat /\ call[c].tries \in Nat
    BY <1>1, ConstantsOK DEF Call
  <2>2. CASE fell(c)
    <3>1. /\ ran[c] + behind[c] + (IF call[c].pc = "calling" THEN 1 ELSE 0) <= call[c].tries
          /\ call[c].tries <= MaxAttempts /\ call[c].res # "ok"
      BY <2>2 DEF IInv, EffectsBounded, CallsCoherent
    <3>2. call'[c].pc = "ended" /\ call'[c].res = "error" /\ call'[c].tries = call[c].tries
      BY <1>2, <2>2
    <3>3. CASE call[c].pc = "calling"
      <4>1. behind'[c] = behind[c] + 1
        BY <1>4, <3>3
      <4> QED BY <1>1, <2>1, <3>1, <3>2, <3>3, <4>1
    <3>4. CASE call[c].pc # "calling"
      <4>1. behind'[c] = behind[c]
        BY <1>4, <3>4
      <4> QED BY <1>1, <2>1, <3>1, <3>2, <3>4, <4>1
    <3> QED BY <3>3, <3>4
  <2>3. CASE ~fell(c)
    BY <1>1, <1>3, <1>4, <2>1, <2>3 DEF IInv, EffectsBounded
  <2> QED BY <2>2, <2>3
<1> QED BY <1>5, <1>7, <1>8, <1>9, <1>10 DEF IInv

-----------------------------------------------------------------------------
LEMMA HandleKeeps ==
  ASSUME IInv, NEW c \in Calls, Handle(c) PROVE IInv'
<1>1. CASE Route(c) \/ RouteFails(c)
  BY <1>1, RouteKeeps
<1>2. CASE \E t \in Tools : Arrive(c, t)
  BY <1>2, EnterKeeps DEF Arrive
<1>3. CASE Routed(c)
  <2>1. CASE call[c].tool \in Tools
    BY <1>3, <2>1, EnterKeeps DEF Routed
  <2>2. CASE call[c].tool \notin Tools
    BY <1>3, <2>2 DEF Routed, IInv, CallsCoherent
  <2> QED BY <2>1, <2>2
<1>4. CASE \E clean \in BOOLEAN : Answered(c, clean)
  BY <1>4, AnsweredKeeps
<1>5. CASE Refused(c) \/ Fails(c) \/ TimesOut(c)
  BY <1>5, FailureKeeps
<1>6. CASE Retry(c)
  BY <1>6, RetryKeeps
<1>7. CASE CatchUp(c)
  BY <1>7, CatchUpKeeps
<1> QED BY <1>1, <1>2, <1>3, <1>4, <1>5, <1>6, <1>7 DEF Handle

LEMMA NextIInv == IInv /\ [Next]_vars => IInv'
<1> SUFFICES ASSUME IInv, [Next]_vars PROVE IInv'
  OBVIOUS
<1>1. CASE Publish \/ FetchServers \/ Install \/ RefreshFails \/ Discover
  BY <1>1, RegistryKeeps
<1>2. CASE \E k \in Keys : Slide(k)
  BY <1>2, SlideKeeps
<1>3. CASE \E t \in Tools : Expire(t)
  BY <1>3, ExpireKeeps
<1>4. CASE \E c \in Calls : Handle(c)
  BY <1>4, HandleKeeps
<1>5. CASE Crash
  BY <1>5, CrashKeeps
<1>6. CASE UNCHANGED vars
  BY <1>6 DEF IInv, TypeOK, CacheBacked, CallsCoherent, AnswerBacked, EffectsBounded, Backed
<1> QED BY <1>1, <1>2, <1>3, <1>4, <1>5, <1>6 DEF Next

(* Every reachable state of the MCP gateway: an answer or a cached result is one that a tool *)
(* gave, and a tool runs for a call as often as it was sent, MaxAttempts times at most.      *)
THEOREM Inductive == Spec => []IInv
  BY InitIInv, NextIInv, PTL DEF Spec

(* The answers alone (api/tools.py:148-187). *)
THEOREM AnswersBacked == Spec => []AnswerBacked
  BY Inductive, PTL DEF IInv

(* The runs of the tools alone (api/tools.py:190-218). *)
THEOREM RunsBounded == Spec => []EffectsBounded
  BY Inductive, PTL DEF IInv

-----------------------------------------------------------------------------
(* Once its tool has answered or refused, or it has ended, a call is left as it is. *)
LEMMA NextStands ==
  ASSUME IInv, [Next]_vars, NEW c \in Calls,
         call[c].outcome # "none" \/ call[c].pc = "ended"
  PROVE  call'[c] = call[c]
<1>1. call[c].pc = "ended"
  BY DEF IInv, CallsCoherent
<1>2. call \in [Calls -> Call]
  BY DEF IInv, TypeOK
<1>3. ASSUME NEW b \in Calls, Handle(b) PROVE call'[c] = call[c]
  <2>1. ASSUME NEW t, call[b].pc # "ended", Enter(b, t) PROVE call'[c] = call[c]
    <3>1. b # c
      BY <1>1, <2>1
    <3> QED BY <2>1, <3>1, <1>2 DEF Enter, Denied, Unserved, Hit, Forward, Ended
  <2>2. CASE Route(b) \/ RouteFails(b)
    BY <1>1, <1>2, <2>2 DEF Route, RouteFails, Ended
  <2>3. CASE (\E t \in Tools : Arrive(b, t)) \/ Routed(b)
    BY <2>1, <2>3 DEF Arrive, Routed
  <2>4. CASE \E clean \in BOOLEAN : Answered(b, clean)
    BY <1>1, <1>2, <2>4 DEF Answered
  <2>5. CASE Refused(b) \/ Fails(b) \/ TimesOut(b)
    BY <1>1, <1>2, <2>5 DEF Refused, Fails, TimesOut, Unanswered
  <2>6. CASE Retry(b) \/ CatchUp(b)
    BY <1>1, <1>2, <2>6 DEF Retry, CatchUp
  <2> QED BY <1>3, <2>2, <2>3, <2>4, <2>5, <2>6 DEF Handle
<1>4. CASE Publish \/ FetchServers \/ Install \/ RefreshFails \/ Discover
  BY <1>4 DEF Publish, FetchServers, Install, RefreshFails, Discover
<1>5. CASE (\E k \in Keys : Slide(k)) \/ (\E t \in Tools : Expire(t)) \/ UNCHANGED vars
  BY <1>5 DEF Slide, Expire
<1>6. CASE Crash
  BY <1>1, <1>6 DEF Crash
<1> QED BY <1>3, <1>4, <1>5, <1>6 DEF Next

HIDE DEF vars, registryVars

(* A verdict stands (api/tools.py:208-211), for any number of attempts. *)
THEOREM VerdictsStand == Spec => VerdictStands
<1>1. IInv /\ [Next]_vars => [\A c \in Calls : Settled(c) => call'[c] = call[c]]_vars
  BY NextStands DEF Settled
<1> QED BY <1>1, Inductive, PTL DEF Spec, VerdictStands

-----------------------------------------------------------------------------
(* The refinement: what one step makes of Outcomes and Effective. *)

LEMMA OneOutcome ==
  ASSUME IInv, NEW c \in Calls, NEW r \in Call, call' = [call EXCEPT ![c] = r]
  PROVE  /\ Outcomes' = [Outcomes EXCEPT ![c] = Outcome(r)]
         /\ Outcomes[c] = Outcome(call[c])
  BY DEF IInv, TypeOK, Outcomes, Outcome

LEMMA NoEffect == ASSUME ran' = ran PROVE Effective' = Effective
  BY DEF Effective

LEMMA OneEffect ==
  ASSUME IInv, NEW c \in Calls, ran' = [ran EXCEPT ![c] = ran[c] + 1]
  PROVE  Effective' = Effective \cup {c}
  BY DEF IInv, TypeOK, Effective

LEMMA Effects ==
  ASSUME IInv, NEW c \in Calls, NEW did \in BOOLEAN, Runs(c, did)
  PROVE  Effective' = Effective \/ Effective' = Effective \cup {c}
<1>1. ran \in [Calls -> Nat]
  BY DEF IInv, TypeOK
<1>2. CASE did
  BY <1>1, <1>2, OneEffect DEF Runs
<1>3. CASE ~did
  BY <1>1, <1>3, NoEffect DEF Runs
<1> QED BY <1>2, <1>3

LEMMA OwnBacked ==
  ASSUME IInv, NEW b, NEW t, Backed(b, t) PROVE Service!Own(b, t)
  BY DEF Backed, Service!Own, Outcomes, Outcome, Effective

Step == Service!ServiceNext \/ UNCHANGED <<Outcomes, Effective>>

(* A call is refused before it was sent, or ends in error. *)
LEMMA ErrorStep ==
  ASSUME IInv, NEW c \in Calls, call[c].pc # "ended", NEW r \in Call,
         call' = [call EXCEPT ![c] = r], r.pc = "ended", r.res = "error",
         call[c].pc # "idle" => r.tool = call[c].tool,
         \/ r.from = Nobody /\ Effective' = Effective
         \/ /\ call[c].pc # "idle" /\ r.from \in {c, Nobody}
            /\ Effective' = Effective \cup {c}
  PROVE  Step
<1>1. /\ Outcomes' = [Outcomes EXCEPT ![c] = Outcome(r)]
      /\ Outcomes[c] = Outcome(call[c]) /\ r.tool \in Tools \cup {Nobody}
  BY OneOutcome DEF Call
<1>2. CASE call[c].pc = "idle"
  <2>2. r.from = Nobody /\ Effective' = Effective
    BY <1>2
  <2>3. Outcomes[c].state = "idle"
    BY <1>1, <1>2 DEF Outcome
  <2>4. Outcomes' = [Outcomes EXCEPT ![c] = [state |-> "ended", tool |-> r.tool,
                                             from |-> Nobody, res |-> "error"]]
    BY <1>1, <2>2 DEF Outcome
  <2>1. Service!Refuse(c, r.tool)
    BY <2>2, <2>3, <2>4 DEF Service!Refuse, Service!Concluded
  <2> QED BY <1>1, <2>1 DEF Step, Service!ServiceNext, Service!Accepts
<1>3. CASE call[c].pc # "idle"
  <2>2. c # Nobody
    BY ConstantsOK
  <2>3. /\ r.from \in {c, Nobody}
        /\ Effective' \in {Effective \cup {c}} \cup (IF r.from = c THEN {} ELSE {Effective})
    <3>1. CASE r.from = Nobody /\ Effective' = Effective
      BY <2>2, <3>1
    <3>2. CASE r.from \in {c, Nobody} /\ Effective' = Effective \cup {c}
      BY <3>2
    <3> QED BY <3>1, <3>2
  <2>4. Outcomes[c].state = "open" /\ Outcomes[c].tool = r.tool
    BY <1>1, <1>3 DEF Outcome
  <2>5. Outcomes' = [Outcomes EXCEPT ![c] = [state |-> "ended", tool |-> r.tool,
                                             from |-> r.from, res |-> "error"]]
    BY <1>1 DEF Outcome
  <2>1. Service!Answer(c, r.from, "error")
    BY <2>3, <2>4, <2>5 DEF Service!Answer, Service!Concluded
  <2> QED BY <2>1, <2>3 DEF Step, Service!ServiceNext, Service!Handles
<1> QED BY <1>2, <1>3

(* A call is taken up, or stays where the service cannot tell. *)
LEMMA OpenStep ==
  ASSUME IInv, NEW c \in Calls, call[c].pc # "ended", NEW r \in Call,
         call' = [call EXCEPT ![c] = r], r.pc \notin {"idle", "ended"},
         r.from = Nobody, r.res = "none",
         IF call[c].pc = "idle" THEN r.tool \in Tools ELSE r.tool = call[c].tool,
         \/ Effective' = Effective
         \/ call[c].pc # "idle" /\ Effective' = Effective \cup {c}
  PROVE  Step
<1>1. /\ Outcomes' = [Outcomes EXCEPT ![c] = Outcome(r)]
      /\ Outcomes[c] = Outcome(call[c])
  BY OneOutcome
<1>2. CASE call[c].pc = "idle"
  <2>2. Outcome(r) = [state |-> "open", tool |-> r.tool, from |-> Nobody, res |-> "none"]
    BY DEF Outcome
  <2>3. Outcomes[c].state = "idle" /\ Effective' = Effective /\ r.tool \in Tools
    BY <1>1, <1>2 DEF Outcome
  <2>1. Service!TakeUp(c, r.tool)
    BY <1>1, <2>2, <2>3 DEF Service!TakeUp
  <2> QED BY <2>1, <2>3 DEF Step, Service!ServiceNext, Service!Accepts
<1>3. CASE call[c].pc # "idle"
  <2>1. Outcome(r) = Outcome(call[c])
    BY <1>3 DEF Outcome, IInv, CallsCoherent
  <2>2. Outcomes' = Outcomes
    BY <1>1, <2>1 DEF Outcomes
  <2>3. CASE Effective' = Effective
    BY <2>2, <2>3 DEF Step
  <2>4. CASE Effective' = Effective \cup {c}
    <3>1. Service!TakeEffect(c)
      BY <1>1, <1>3, <2>2, <2>4 DEF Service!TakeEffect, Outcome
    <3> QED BY <3>1 DEF Step, Service!ServiceNext, Service!Handles
  <2> QED BY <1>3, <2>3, <2>4
<1> QED BY <1>2, <1>3

LEMMA EnterStep ==
  ASSUME IInv, NEW c \in Calls, NEW t \in Tools, Enter(c, t),
         call[c].pc = "idle" \/ (call[c].pc = "routing" /\ t = call[c].tool)
  PROVE  Step
<1>1. /\ Begun(t) \in Call /\ Begun(t).tool = t /\ Begun(t).from = Nobody /\ Begun(t).res = "none"
  BY BegunTyped, Zenon
<1>2. Effective' = Effective
  BY NoEffect DEF Enter
<1>3. ASSUME NEW from \in Calls \cup {Nobody}, NEW res \in {"ok", "error"}, Ended(c, t, from, res)
      PROVE  \E r \in Call : /\ call' = [call EXCEPT ![c] = r] /\ r.pc = "ended" /\ r.tool = t
                             /\ r.from = from /\ r.res = res
  <2> DEFINE r == [Begun(t) EXCEPT !.pc = "ended", !.from = from, !.res = res]
  <2>1. r \in Call /\ r.pc = "ended" /\ r.tool = t /\ r.from = from /\ r.res = res
    BY <1>1 DEF Call
  <2>2. call' = [call EXCEPT ![c] = r]
    BY <1>3 DEF Ended
  <2> HIDE DEF r
  <2> QED BY <2>1, <2>2
<1>4. CASE Denied(c, t) \/ Unserved(c, t)
  <2>1. Ended(c, t, Nobody, "error")
    BY <1>4 DEF Denied, Unserved
  <2>2. PICK r \in Call : /\ call' = [call EXCEPT ![c] = r] /\ r.pc = "ended" /\ r.tool = t
                          /\ r.from = Nobody /\ r.res = "error"
    BY <2>1, <1>3
  <2> QED BY <1>2, <2>2, ErrorStep
<1>5. CASE Hit(c, t)
  <2>1. Ended(c, t, cache[t], "ok") /\ Backed(cache[t], t) /\ cache[t] \in Calls
    BY <1>5 DEF Hit, IInv, CacheBacked, Backed
  <2>2. PICK r \in Call : /\ call' = [call EXCEPT ![c] = r] /\ r.pc = "ended" /\ r.tool = t
                          /\ r.from = cache[t] /\ r.res = "ok"
    BY <2>1, <1>3
  <2>3. Outcomes' = [Outcomes EXCEPT ![c] = Outcome(r)] /\ Outcomes[c] = Outcome(call[c])
    BY <2>2, OneOutcome
  <2>4. c \notin Effective
    BY Unsent DEF Effective
  <2>5. Service!Own(cache[t], t)
    BY <2>1, OwnBacked
  <2>6. Service!Recall(c, t, cache[t])
    BY <1>2, <2>2, <2>3, <2>4, <2>5 DEF Service!Recall, Service!Concluded, Outcome
  <2>7. Outcomes[c].state \in {"idle", "open"}
    BY <2>3 DEF Outcome
  <2> QED BY <2>1, <2>6, <2>7 DEF Step, Service!ServiceNext, Service!Accepts, Service!Handles
<1>6. CASE Forward(c, t)
  <2> DEFINE r == [Begun(t) EXCEPT !.pc = "calling", !.tries = 1]
  <2>1. 1 \in 0..MaxAttempts
    BY ConstantsOK
  <2>2. r \in Call /\ r.pc = "calling" /\ r.tool = t /\ r.from = Nobody /\ r.res = "none"
    BY <1>1, <2>1 DEF Call
  <2>3. call' = [call EXCEPT ![c] = r]
    BY <1>6 DEF Forward
  <2> HIDE DEF r
  <2> QED BY <1>2, <2>2, <2>3, OpenStep
<1> QED BY <1>4, <1>5, <1>6 DEF Enter

LEMMA RouteStep ==
  ASSUME IInv, NEW c \in Calls, Route(c) \/ RouteFails(c) PROVE Step
<1>1. /\ Effective' = Effective /\ call[c].pc \in {"idle", "routing"}
      /\ call \in [Calls -> Call] /\ catalogue \subseteq Tools
  BY NoEffect DEF Route, RouteFails, IInv, TypeOK
<1>2. CASE \E t \in Tools \cup {Nobody} :
              Ended(c, t, Nobody, "error") /\ (call[c].pc # "idle" => t = call[c].tool)
  <2>1. PICK t \in Tools \cup {Nobody} :
              Ended(c, t, Nobody, "error") /\ (call[c].pc # "idle" => t = call[c].tool)
    BY <1>2
  <2> DEFINE r == [Begun(t) EXCEPT !.pc = "ended", !.from = Nobody, !.res = "error"]
  <2>2. Begun(t) \in Call /\ Begun(t).tool = t
    BY BegunTyped, Zenon
  <2>3. r \in Call /\ r.pc = "ended" /\ r.tool = t /\ r.from = Nobody /\ r.res = "error"
    BY <2>2 DEF Call
  <2>4. call' = [call EXCEPT ![c] = r]
    BY <2>1 DEF Ended
  <2> HIDE DEF r
  <2> QED BY <1>1, <2>1, <2>3, <2>4, ErrorStep
<1>3. CASE \E t \in catalogue :
              call[c].pc = "idle" /\ call' = [call EXCEPT ![c].pc = "routing", ![c].tool = t]
  <2>1. PICK t \in Tools :
              call[c].pc = "idle" /\ call' = [call EXCEPT ![c].pc = "routing", ![c].tool = t]
    BY <1>1, <1>3
  <2> DEFINE r == [call[c] EXCEPT !.pc = "routing", !.tool = t]
  <2>2. call[c].from = Nobody /\ call[c].res = "none"
    BY <2>1 DEF IInv, CallsCoherent
  <2>3. r \in Call /\ r.pc = "routing" /\ r.tool = t /\ r.from = Nobody /\ r.res = "none"
    BY <1>1, <2>2 DEF Call
  <2>4. call' = [call EXCEPT ![c] = r]
    BY <1>1, <2>1 DEF Call
  <2> HIDE DEF r
  <2> QED BY <1>1, <2>1, <2>3, <2>4, OpenStep
<1>4. call[c].tool \in Tools \cup {Nobody}
  BY <1>1 DEF Call
<1> QED BY <1>2, <1>3, <1>4 DEF Route, RouteFails

LEMMA AnsweredStep ==
  ASSUME IInv, NEW c \in Calls, NEW clean \in BOOLEAN, Answered(c, clean) PROVE Step
<1>1. call[c].pc = "calling" /\ call \in [Calls -> Call] /\ call[c].from = Nobody
  BY DEF Answered, IInv, TypeOK, CallsCoherent
<1>2. Effective' = Effective \cup {c}
  BY OneEffect DEF Answered, Runs
<1> DEFINE e == [call[c] EXCEPT !.pc = "ended", !.outcome = "answer", !.res = "error"]
           p == [e EXCEPT !.from = c]
           o == [p EXCEPT !.res = "ok"]
<1>3. /\ e \in Call /\ e.pc = "ended" /\ e.res = "error" /\ e.from = Nobody /\ e.tool = call[c].tool
      /\ p \in Call /\ p.pc = "ended" /\ p.res = "error" /\ p.from = c /\ p.tool = call[c].tool
      /\ o \in Call /\ o.pc = "ended" /\ o.res = "ok" /\ o.from = c /\ o.tool = call[c].tool
  BY <1>1 DEF Call
<1>4. \/ call' = [call EXCEPT ![c] = e] \/ call' = [call EXCEPT ![c] = p]
      \/ call' = [call EXCEPT ![c] = o]
  BY DEF Answered
<1> HIDE DEF e, o, p
<1>5. CASE call' = [call EXCEPT ![c] = e] \/ call' = [call EXCEPT ![c] = p]
  BY <1>1, <1>2, <1>3, <1>5, ErrorStep
<1>6. CASE call' = [call EXCEPT ![c] = o]
  <2>1. Outcomes' = [Outcomes EXCEPT ![c] = Outcome(o)] /\ Outcomes[c] = Outcome(call[c])
    BY <1>3, <1>6, OneOutcome
  <2>2. Outcomes[c].state = "open" /\ Outcomes[c].tool = call[c].tool
    BY <1>1, <2>1 DEF Outcome
  <2>3. Outcome(o) = [state |-> "ended", tool |-> call[c].tool, from |-> c, res |-> "ok"]
    BY <1>3 DEF Outcome
  <2>4. Service!Answer(c, c, "ok")
    BY <1>2, <2>1, <2>2, <2>3 DEF Service!Answer, Service!Concluded
  <2> QED BY <2>4 DEF Step, Service!ServiceNext, Service!Handles
<1> QED BY <1>4, <1>5, <1>6

LEMMA FailureStep ==
  ASSUME IInv, NEW c \in Calls, Refused(c) \/ Fails(c) \/ TimesOut(c) PROVE Step
<1>1. /\ call[c].pc = "calling" /\ call \in [Calls -> Call]
      /\ call[c].from = Nobody /\ call[c].res = "none"
  BY DEF Refused, Fails, TimesOut, IInv, TypeOK, CallsCoherent
<1>2. Effective' = Effective \/ Effective' = Effective \cup {c}
  <2>1. CASE Refused(c) \/ Fails(c)
    BY <2>1, Effects DEF Refused, Fails
  <2>2. CASE TimesOut(c)
    BY <2>2, NoEffect DEF TimesOut
  <2> QED BY <2>1, <2>2
<1>3. PICK outcome \in {"none", "refusal"} : Unanswered(c, outcome)
  BY DEF Refused, Fails, TimesOut
<1> DEFINE p == [call[c] EXCEPT !.pc = "pausing", !.outcome = outcome]
           e == [call[c] EXCEPT !.pc = "ended", !.outcome = outcome, !.res = "error"]
<1>4. /\ p \in Call /\ p.pc = "pausing" /\ p.res = "none" /\ p.from = Nobody /\ p.tool = call[c].tool
      /\ e \in Call /\ e.pc = "ended" /\ e.res = "error" /\ e.from = Nobody /\ e.tool = call[c].tool
  BY <1>1 DEF Call
<1>5. call' = [call EXCEPT ![c] = p] \/ call' = [call EXCEPT ![c] = e]
  BY <1>1, <1>3 DEF Unanswered, Call
<1> HIDE DEF p, e
<1>6. CASE call' = [call EXCEPT ![c] = p]
  BY <1>1, <1>2, <1>4, <1>6, OpenStep
<1>7. CASE call' = [call EXCEPT ![c] = e]
  BY <1>1, <1>2, <1>4, <1>7, ErrorStep
<1> QED BY <1>5, <1>6, <1>7

LEMMA RetryStep ==
  ASSUME IInv, NEW c \in Calls, Retry(c) PROVE Step
<1>1. /\ call[c].pc = "pausing" /\ call \in [Calls -> Call] /\ Effective' = Effective
      /\ call[c].from = Nobody /\ call[c].res = "none"
      /\ call[c].tries + 1 \in 0..MaxAttempts
  BY ConstantsOK, NoEffect DEF Retry, IInv, TypeOK, CallsCoherent, Call
<1> DEFINE r == [call[c] EXCEPT !.pc = "calling", !.tries = @ + 1]
<1>2. r \in Call /\ r.pc = "calling" /\ r.res = "none" /\ r.from = Nobody /\ r.tool = call[c].tool
  BY <1>1 DEF Call
<1>3. call' = [call EXCEPT ![c] = r]
  BY <1>1 DEF Retry, Call
<1> HIDE DEF r
<1> QED BY <1>1, <1>2, <1>3, OpenStep

LEMMA CatchUpStep ==
  ASSUME IInv, NEW c \in Calls, CatchUp(c) PROVE Step
<1>1. Outcomes' = Outcomes
  BY DEF CatchUp, Outcomes
<1>2. Effective' = Effective \/ Effective' = Effective \cup {c}
  BY Effects DEF CatchUp
<1>3. call[c].pc # "idle"
  BY Unsent DEF CatchUp
<1>4. Outcomes[c].state # "idle"
  BY <1>3 DEF Outcomes, Outcome
<1>5. CASE Effective' = Effective \cup {c}
  <2>1. Service!TakeEffect(c)
    BY <1>1, <1>4, <1>5 DEF Service!TakeEffect
  <2> QED BY <2>1 DEF Step, Service!ServiceNext, Service!Handles
<1> QED BY <1>1, <1>2, <1>5 DEF Step

LEMMA CrashStep == ASSUME IInv, Crash PROVE Step
<1>1. Effective' = Effective /\ call \in [Calls -> Call]
  BY NoEffect DEF Crash, IInv, TypeOK
<1>2. ASSUME NEW c \in Calls
      PROVE  Outcomes'[c] = IF Outcomes[c].state = "open"
                            THEN [Outcomes[c] EXCEPT !.state = "ended", !.res = "error"]
                            ELSE Outcomes[c]
  <2>1. CASE call[c].pc \in {"idle", "ended"}
    <3>1. call'[c] = call[c]
      BY <2>1 DEF Crash
    <3> QED BY <2>1, <3>1 DEF Outcomes, Outcome
  <2>2. CASE call[c].pc \notin {"idle", "ended"}
    <3>1. call'[c] = [call[c] EXCEPT !.pc = "ended", !.res = "error"]
      BY <2>2 DEF Crash
    <3>2. /\ call'[c].pc = "ended" /\ call'[c].res = "error"
          /\ call'[c].tool = call[c].tool /\ call'[c].from = call[c].from
      BY <1>1, <3>1 DEF Call
    <3> QED BY <2>2, <3>2 DEF Outcomes, Outcome
  <2> QED BY <2>1, <2>2
<1>3. Outcomes' = [c \in Calls |-> IF Outcomes[c].state = "open"
                                   THEN [Outcomes[c] EXCEPT !.state = "ended", !.res = "error"]
                                   ELSE Outcomes[c]]
  BY <1>2, Zenon DEF Outcomes
<1>4. Service!GoDown
  BY <1>1, <1>3 DEF Service!GoDown
<1> QED BY <1>4 DEF Step, Service!ServiceNext

LEMMA NextStep == IInv /\ [Next]_vars => Step
<1> SUFFICES ASSUME IInv, [Next]_vars PROVE Step
  OBVIOUS
<1>1. CASE UNCHANGED <<call, ran>>
  BY <1>1 DEF Step, Outcomes, Effective
<1>2. ASSUME NEW c \in Calls, Handle(c) PROVE Step
  <2>1. CASE \E t \in Tools : Arrive(c, t)
    BY <2>1, EnterStep DEF Arrive
  <2>2. CASE Routed(c)
    <3>1. call[c].tool \in Tools
      BY <2>2 DEF Routed, IInv, CallsCoherent
    <3> QED BY <2>2, <3>1, EnterStep DEF Routed
  <2> QED BY <1>2, <2>1, <2>2, RouteStep, AnsweredStep, FailureStep, RetryStep, CatchUpStep DEF Handle
<1>3. CASE Publish \/ FetchServers \/ Install \/ RefreshFails \/ Discover
  BY <1>1, <1>3 DEF Publish, FetchServers, Install, RefreshFails, Discover
<1>4. CASE (\E k \in Keys : Slide(k)) \/ (\E t \in Tools : Expire(t)) \/ UNCHANGED vars
  BY <1>1, <1>4 DEF Slide, Expire, vars
<1> QED BY <1>2, <1>3, <1>4, CrashStep DEF Next

(* The MCP gateway keeps the promise of ToolService, on which the agents rely: for any      *)
(* number of calls, tools, configurations and attempts, and whatever crashes.               *)
THEOREM Refinement == Spec => Implements
<1>1. Init => Service!ServiceInit
  BY DEF Init, Service!ServiceInit, Outcomes, Outcome, Effective, NoCall, Service!NotGiven
<1>2. IInv /\ [Next]_vars => [Service!ServiceNext]_(Service!serviceVars)
  BY NextStep DEF Step, Service!serviceVars
<1> QED BY <1>1, <1>2, Inductive, PTL DEF Spec, Implements, Service!ServiceSpec

=============================================================================
