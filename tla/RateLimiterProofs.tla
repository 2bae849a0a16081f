-------------------------- MODULE RateLimiterProofs --------------------------
(***************************************************************************)
(* The limiter's guarantees for every number of replicas, keys, limits and *)
(* every clock skew: IInv is inductive, it bounds what each window grants  *)
(* and justifies what it denies, the limiter implements WindowLimiter, and *)
(* tables, outages and waiting times are bounded.                          *)
(***************************************************************************)
EXTENDS RateLimiter, FiniteSetTheorems, TLAPS

USE ConstantsOK

-----------------------------------------------------------------------------
LEMMA InitTypeOK == Init => TypeOK
  BY DEF Init, TypeOK, Idle

(* The script's step, shared by a check whose reply arrives and one whose is lost. *)
LEMMA ScriptTypeOK ==
    ASSUME TypeOK, NEW k \in Keys, NEW l \in Limits, NEW n \in Int,
           NEW answered \in BOOLEAN, Script(k, l, n, answered)
    PROVE  /\ now' \in Nat /\ mode' \in Modes
           /\ store' \in [Windows -> [Keys -> SUBSET Decision]]
           /\ expires' \in [Keys -> Nat]
           /\ used' \in [Replicas -> [Keys -> Nat]]
           /\ gen' \in [Windows -> [Keys -> Nat]]
           /\ checks' \in Nat
           /\ log' \subseteq Decision
<1> DEFINE kept == Purged(Live(k), n)
           d == [id |-> checks + 1, w |-> Redis, key |-> k, gen |-> gen[Redis][k],
                 t |-> now, score |-> n, limit |-> l, ok |-> Admits(kept, l),
                 answered |-> answered]
<1>1. Redis \in Windows
  BY DEF Windows
<1>2. Admits(kept, l) \in BOOLEAN
  BY DEF Admits
<1>3. d \in Decision
  <2> HIDE DEF kept
  <2> QED BY <1>1, <1>2 DEF Decision, TypeOK
<1>4. kept \subseteq Decision
  BY <1>1 DEF Purged, Live, TypeOK
<1>5. Slots(kept, d) \subseteq Decision
  BY <1>3, <1>4 DEF Slots
<1> HIDE DEF kept, d
<1>6. /\ store' = [store EXCEPT ![Redis][k] = Slots(kept, d)]
      /\ expires' = [expires EXCEPT ![k] = now + Window + ExpirySlack]
      /\ checks' = checks + 1
      /\ log' = log \cup {d}
      /\ UNCHANGED <<now, mode, used, gen>>
  BY DEF Script, kept, d
<1>7. store' \in [Windows -> [Keys -> SUBSET Decision]]
  BY <1>1, <1>5, <1>6 DEF TypeOK
<1>8. QED
  BY <1>3, <1>6, <1>7 DEF TypeOK

(* An answer from r's own window, with whatever the table evicts on the way. *)
LEMMA LocalTypeOK ==
    ASSUME TypeOK, NEW r \in Replicas, DegradeLocal(r)
    PROVE  TypeOK'
<1> DEFINE k == pending[r].key
           l == pending[r].limit
           kept == Purged(store[r][k], now)
           d == [id |-> checks + 1, w |-> r, key |-> k, gen |-> gen[r][k], t |-> now,
                 score |-> now, limit |-> l, ok |-> Admits(kept, l), answered |-> TRUE]
           last == [used[r] EXCEPT ![k] = checks + 1]
           gone == IF d.ok THEN Evicted(Tracked(r) \cup {k}, last) ELSE {}
<1>1. r \in Windows
  BY DEF Windows
<1>2. k \in Keys /\ l \in Limits
  BY DEF TypeOK, DegradeLocal
<1>3. Admits(kept, l) \in BOOLEAN
  BY DEF Admits
<1>4. d \in Decision
  <2> HIDE DEF kept, k, l
  <2> QED BY <1>1, <1>2, <1>3 DEF Decision, TypeOK
<1>5. kept \subseteq Decision
  BY <1>1, <1>2 DEF Purged, TypeOK
<1>6. Slots(kept, d) \subseteq Decision
  BY <1>4, <1>5 DEF Slots
<1>7. last \in [Keys -> Nat]
  BY <1>2 DEF TypeOK
<1> HIDE DEF kept, d, last, gone, k, l
<1>8. /\ store' = [store EXCEPT ![r] = [x \in Keys |-> IF x \in gone THEN {}
                                                       ELSE IF x = k THEN Slots(kept, d)
                                                       ELSE @[x]]]
      /\ used' = [used EXCEPT ![r] = [x \in Keys |-> IF x \in gone THEN 0 ELSE last[x]]]
      /\ gen' = [gen EXCEPT ![r] = [x \in Keys |-> IF x \in gone THEN @[x] + 1 ELSE @[x]]]
      /\ pending' = [pending EXCEPT ![r] = Idle]
      /\ checks' = checks + 1
      /\ log' = log \cup {d}
      /\ UNCHANGED <<now, mode, expires>>
  BY DEF DegradeLocal, kept, d, last, gone, k, l
<1>9. store' \in [Windows -> [Keys -> SUBSET Decision]]
  BY <1>1, <1>6, <1>8 DEF TypeOK
<1>10. gen' \in [Windows -> [Keys -> Nat]]
  BY <1>1, <1>8 DEF TypeOK
<1>11. used' \in [Replicas -> [Keys -> Nat]]
  BY <1>7, <1>8 DEF TypeOK
<1>12. pending' \in [Replicas -> [key : Keys, limit : Limits] \cup {Idle}]
  BY <1>8 DEF TypeOK
<1>13. QED
  BY <1>4, <1>8, <1>9, <1>10, <1>11, <1>12 DEF TypeOK

LEMMA NextTypeOK == TypeOK /\ [Next]_vars => TypeOK'
<1> SUFFICES ASSUME TypeOK, [Next]_vars
             PROVE  TypeOK'
  OBVIOUS
<1>1. CASE Tick
  BY <1>1 DEF Tick, TypeOK
<1>2. ASSUME NEW k \in Keys, RedisLoses(k)
      PROVE  TypeOK'
  BY <1>2 DEF RedisLoses, TypeOK, Windows
<1>3. ASSUME NEW r \in Replicas, DegradeLocal(r)
      PROVE  TypeOK'
  BY <1>3, LocalTypeOK
<1>4. ASSUME NEW r \in Replicas, DegradeBlind(r)
      PROVE  TypeOK'
  <2>0. mode \in {"open", "closed"}
    BY <1>4 DEF DegradeBlind
  <2>1. /\ pending[r].key \in Keys /\ pending[r].limit \in Nat
        /\ now \in Int /\ checks + 1 \in Nat /\ 0 \in Nat
    <3>1. pending[r] # Idle
      BY <1>4 DEF DegradeBlind
    <3>2. pending[r] \in [key : Keys, limit : Limits]
      BY <3>1 DEF TypeOK
    <3>3. pending[r].key \in Keys /\ pending[r].limit \in Limits
      BY <3>2
    <3>4. now \in Int /\ checks + 1 \in Nat
      BY DEF TypeOK
    <3>5. QED
      BY <3>3, <3>4
  <2>2. AdmitsBlindly \in BOOLEAN
    BY DEF AdmitsBlindly
  <2> DEFINE d == [id |-> checks + 1, w |-> mode, key |-> pending[r].key, gen |-> 0,
                   t |-> now, score |-> now, limit |-> pending[r].limit,
                   ok |-> AdmitsBlindly, answered |-> TRUE]
  <2>3. d \in Decision
    BY <2>0, <2>1, <2>2, Zenon DEF Decision
  <2> HIDE DEF d
  <2>4. /\ pending' = [pending EXCEPT ![r] = Idle]
        /\ checks' = checks + 1
        /\ log' = log \cup {d}
        /\ UNCHANGED <<now, mode, store, expires, used, gen>>
    BY <1>4 DEF DegradeBlind, d
  <2>5. QED
    BY <2>3, <2>4 DEF TypeOK
<1>5. ASSUME NEW r \in Replicas, Restart(r)
      PROVE  TypeOK'
  BY <1>5 DEF Restart, TypeOK, Windows
<1>6. ASSUME NEW r \in Replicas, NEW k \in Keys, NEW l \in Limits, Check(r, k, l)
      PROVE  TypeOK'
  <2>1. PICK n \in Readings : Script(k, l, n, TRUE)
    BY <1>6 DEF Check
  <2>2. n \in Int
    BY DEF Readings, TypeOK
  <2>3. QED
    BY <1>6, <2>1, <2>2, ScriptTypeOK DEF Check, TypeOK
<1>7. ASSUME NEW r \in Replicas, NEW k \in Keys, NEW l \in Limits, CheckReplyLost(r, k, l)
      PROVE  TypeOK'
  <2>1. PICK n \in Readings : Script(k, l, n, FALSE)
    BY <1>7 DEF CheckReplyLost
  <2>2. n \in Int
    BY DEF Readings, TypeOK
  <2>3. QED
    BY <1>7, <2>1, <2>2, ScriptTypeOK DEF CheckReplyLost, TypeOK
<1>8. ASSUME NEW r \in Replicas, NEW k \in Keys, NEW l \in Limits, CheckUnreachable(r, k, l)
      PROVE  TypeOK'
  BY <1>8 DEF CheckUnreachable, TypeOK
<1>9. CASE UNCHANGED vars
  BY <1>9 DEF vars, TypeOK
<1>10. QED
  BY <1>1, <1>2, <1>3, <1>4, <1>5, <1>6, <1>7, <1>8, <1>9 DEF Next

(* Every reachable state is well typed: in particular every pending check names a key *)
(* and a limit, and every window holds checks of this history only.                   *)
THEOREM TypeCorrect == Spec => []TypeOK
  BY InitTypeOK, NextTypeOK, PTL DEF Spec

-----------------------------------------------------------------------------
(* The inductive invariant.  A check is answered from the part `kept' of a window's    *)
(* content; what matters is that kept holds every grant that surely counts and none    *)
(* that cannot.                                                                        *)

LEMMA PurgeShared ==
    ASSUME IInv, NEW k \in Keys, NEW n \in Readings
    PROVE  /\ Purged(Live(k), n) \subseteq store[Redis][k]
           /\ \A b \in store[Redis][k] : b.t > now - Span[Redis] => b \in Purged(Live(k), n)
           /\ \A b \in Purged(Live(k), n) : b.t > now - Reach[Redis]
<1>1. Redis \in Windows /\ n \in Int /\ now - Lag <= n /\ n <= now + Lead /\ now \in Nat
  BY DEF Windows, Readings, IInv, TypeOK
<1>2. Span[Redis] = Window - Lag - Lead /\ Reach[Redis] = Window + Lag + Lead
  BY <1>1 DEF Span, Reach
<1>3. Purged(Live(k), n) \subseteq store[Redis][k]
  BY DEF Purged, Live
<1>4. ASSUME NEW b \in store[Redis][k]
      PROVE  /\ b.t \in Int /\ b.score \in Int
             /\ b.t - Lag <= b.score /\ b.score <= b.t + Lead
             /\ b.t + Window + ExpirySlack <= expires[k]
  <2>1. b \in Decision /\ b \in log /\ b.w = Redis
    BY <1>1 DEF IInv, TypeOK, HoldsOnlyGrants
  <2>2. b.t \in Int /\ b.score \in Int
    BY <2>1 DEF Decision
  <2>3. b.t - Lag <= b.score /\ b.score <= b.t + Lead
    BY <1>1, <2>1 DEF IInv, Scores
  <2>4. b.t + Window + ExpirySlack <= expires[k]
    BY DEF IInv, NotExpiredEarly
  <2>5. QED
    BY <2>2, <2>3, <2>4
<1>5. ASSUME NEW b \in store[Redis][k], b.t > now - Span[Redis]
      PROVE  b \in Purged(Live(k), n)
  <2>1. expires[k] \in Nat
    BY DEF IInv, TypeOK
  <2>2. ~(now >= expires[k])
    BY <1>1, <1>2, <1>4, <1>5, <2>1
  <2>3. b.score > n - Window
    BY <1>1, <1>2, <1>4, <1>5
  <2>4. QED
    BY <2>2, <2>3 DEF Purged, Live
<1>6. ASSUME NEW b \in Purged(Live(k), n)
      PROVE  b.t > now - Reach[Redis]
  <2>1. b \in store[Redis][k] /\ b.score > n - Window
    BY <1>3 DEF Purged
  <2>2. QED
    BY <1>1, <1>2, <1>4, <2>1
<1>7. QED
  BY <1>3, <1>5, <1>6

LEMMA PurgeLocal ==
    ASSUME IInv, NEW r \in Replicas, NEW k \in Keys
    PROVE  /\ Purged(store[r][k], now) \subseteq store[r][k]
           /\ \A b \in store[r][k] : b.t > now - Span[r] => b \in Purged(store[r][k], now)
           /\ \A b \in Purged(store[r][k], now) : b.t > now - Reach[r]
<1>1. r \in Windows /\ r # Redis
  BY DEF Windows
<1>2. Span[r] = Window /\ Reach[r] = Window
  BY <1>1 DEF Span, Reach
<1>3. \A b \in store[r][k] : b.t = b.score
  BY <1>1 DEF IInv, Scores, HoldsOnlyGrants
<1>4. QED
  BY <1>2, <1>3 DEF Purged

(* The common part of every answer given from a window. *)
AnswerFrom(w, k, kept, d) ==
    /\ d \in Decision
    /\ d.id = checks + 1 /\ d.w = w /\ d.key = k /\ d.gen = gen[w][k] /\ d.t = now
    /\ d.ok = (Cardinality(kept) < d.limit)
    /\ kept \subseteq store[w][k]
    /\ \A b \in store[w][k] : b.t > now - Span[w] => b \in kept
    /\ \A b \in kept : b.t > now - Reach[w]
    /\ checks' = checks + 1
    /\ log' = log \cup {d}
    /\ now' = now

LEMMA ScriptAnswers ==
    ASSUME IInv, NEW k \in Keys, NEW l \in Limits, NEW n \in Readings,
           NEW answered \in BOOLEAN, Script(k, l, n, answered)
    PROVE  \E d \in Decision :
              /\ AnswerFrom(Redis, k, Purged(Live(k), n), d)
              /\ d.score = n
              /\ store' = [store EXCEPT ![Redis][k] = Slots(Purged(Live(k), n), d)]
              /\ expires' = [expires EXCEPT ![k] = now + Window + ExpirySlack]
              /\ gen' = gen
<1> DEFINE kept == Purged(Live(k), n)
           d == [id |-> checks + 1, w |-> Redis, key |-> k, gen |-> gen[Redis][k],
                 t |-> now, score |-> n, limit |-> l, ok |-> Admits(kept, l),
                 answered |-> answered]
<1>1. Redis \in Windows /\ n \in Int
  BY DEF Windows, Readings, IInv, TypeOK
<1>2. Admits(kept, l) \in BOOLEAN
  BY DEF Admits
<1>3. d \in Decision
  <2> HIDE DEF kept
  <2> QED BY <1>1, <1>2 DEF Decision, IInv, TypeOK
<1>4. d.ok = (Cardinality(kept) < d.limit)
  BY DEF Admits
<1>5. /\ store' = [store EXCEPT ![Redis][k] = Slots(kept, d)]
      /\ expires' = [expires EXCEPT ![k] = now + Window + ExpirySlack]
      /\ checks' = checks + 1
      /\ log' = log \cup {d}
      /\ now' = now /\ gen' = gen
  BY DEF Script
<1>6. /\ kept \subseteq store[Redis][k]
      /\ \A b \in store[Redis][k] : b.t > now - Span[Redis] => b \in kept
      /\ \A b \in kept : b.t > now - Reach[Redis]
  BY PurgeShared
<1>7. /\ d.id = checks + 1 /\ d.w = Redis /\ d.key = k /\ d.gen = gen[Redis][k]
      /\ d.t = now /\ d.score = n
  OBVIOUS
<1> HIDE DEF d, kept
<1>8. AnswerFrom(Redis, k, kept, d)
  BY <1>3, <1>4, <1>5, <1>6, <1>7 DEF AnswerFrom
<1>9. QED
  BY <1>3, <1>5, <1>7, <1>8 DEF kept

LEMMA LocalAnswers ==
    ASSUME IInv, NEW r \in Replicas, DegradeLocal(r)
    PROVE  \E k \in Keys, d \in Decision, gone \in SUBSET Keys :
              LET kept == Purged(store[r][k], now) IN
              /\ AnswerFrom(r, k, kept, d)
              /\ d.score = now
              /\ store' = [store EXCEPT ![r] = [x \in Keys |-> IF x \in gone THEN {}
                                                               ELSE IF x = k THEN Slots(kept, d)
                                                               ELSE @[x]]]
              /\ gen' = [gen EXCEPT ![r] = [x \in Keys |-> IF x \in gone THEN @[x] + 1 ELSE @[x]]]
              /\ expires' = expires
<1> DEFINE k == pending[r].key
           l == pending[r].limit
           kept == Purged(store[r][k], now)
           d == [id |-> checks + 1, w |-> r, key |-> k, gen |-> gen[r][k], t |-> now,
                 score |-> now, limit |-> l, ok |-> Admits(kept, l), answered |-> TRUE]
           last == [used[r] EXCEPT ![k] = checks + 1]
           gone == IF d.ok THEN Evicted(Tracked(r) \cup {k}, last) ELSE {}
<1>1. r \in Windows
  BY DEF Windows
<1>2. k \in Keys /\ l \in Limits
  BY DEF IInv, TypeOK, DegradeLocal
<1>3. Admits(kept, l) \in BOOLEAN
  BY DEF Admits
<1>4. d \in Decision
  <2> HIDE DEF kept, k, l
  <2> QED BY <1>1, <1>2, <1>3 DEF Decision, IInv, TypeOK
<1>5. d.ok = (Cardinality(kept) < d.limit)
  BY DEF Admits
<1>6. /\ kept \subseteq store[r][k]
      /\ \A b \in store[r][k] : b.t > now - Span[r] => b \in kept
      /\ \A b \in kept : b.t > now - Reach[r]
  <2> HIDE DEF k
  <2> QED BY <1>2, PurgeLocal
<1>7. gone \in SUBSET Keys
  BY <1>2 DEF Evicted, Tracked
<1>8. /\ d.id = checks + 1 /\ d.w = r /\ d.key = k /\ d.gen = gen[r][k]
      /\ d.t = now /\ d.score = now
  OBVIOUS
<1>9. /\ store' = [store EXCEPT ![r] = [x \in Keys |-> IF x \in gone THEN {}
                                                       ELSE IF x = k THEN Slots(kept, d)
                                                       ELSE @[x]]]
      /\ gen' = [gen EXCEPT ![r] = [x \in Keys |-> IF x \in gone THEN @[x] + 1 ELSE @[x]]]
      /\ checks' = checks + 1
      /\ log' = log \cup {d}
      /\ now' = now /\ expires' = expires
  BY DEF DegradeLocal
<1> HIDE DEF d, gone, l, last, kept
<1>10. AnswerFrom(r, k, kept, d)
  BY <1>4, <1>5, <1>6, <1>8, <1>9 DEF AnswerFrom
<1>11. QED
  <2> HIDE DEF k
  <2> QED BY <1>2, <1>4, <1>7, <1>8, <1>9, <1>10 DEF kept

LEMMA LogGrows ==
    ASSUME IInv, TypeOK', NEW d \in Decision, d.id = checks + 1, d.t = now,
           checks' = checks + 1, log' = log \cup {d}, now' = now,
           d.w \in Windows => d.gen = gen[d.w][d.key],
           \A w \in Windows, k \in Keys : gen'[w][k] >= gen[w][k],
           d.w \in Windows => IF d.w = Redis THEN d.t - Lag <= d.score /\ d.score <= d.t + Lead
                                             ELSE d.score = d.t
    PROVE  Ledger' /\ Scores'
<1>1. IsFiniteSet(log')
  BY FS_AddElement DEF IInv, Ledger
<1>2. \A a \in log' : a.id <= checks' /\ a.t <= now'
  BY DEF IInv, Ledger, TypeOK, Decision
<1>3. \A a, b \in log' : a.id = b.id => a = b
  <2>1. \A a \in log : a.id # d.id
    BY DEF IInv, Ledger, TypeOK, Decision
  <2>2. QED
    BY <2>1 DEF IInv, Ledger
<1>4. ASSUME NEW a \in log', a.w \in Windows
      PROVE  a.gen <= gen'[a.w][a.key]
  <2>1. a \in Decision /\ a.key \in Keys /\ a.gen \in Nat
    BY DEF TypeOK, Decision
  <2>2. gen[a.w][a.key] \in Nat /\ gen'[a.w][a.key] \in Nat
    BY <1>4, <2>1 DEF IInv, TypeOK
  <2>3. a.gen <= gen[a.w][a.key]
    BY <1>4, <2>1, <2>2 DEF IInv, Ledger
  <2>4. QED
    BY <1>4, <2>1, <2>2, <2>3
<1>5. Scores'
  BY DEF IInv, Scores
<1>6. QED
  BY <1>1, <1>2, <1>3, <1>4, <1>5 DEF Ledger

LEMMA ScriptKeepsIInv ==
    ASSUME IInv, TypeOK', NEW k \in Keys, NEW l \in Limits, NEW n \in Readings,
           NEW answered \in BOOLEAN, Script(k, l, n, answered)
    PROVE  IInv'
<1> DEFINE kept == Purged(Live(k), n)
<1>1. PICK d \in Decision :
              /\ AnswerFrom(Redis, k, kept, d)
              /\ d.score = n
              /\ store' = [store EXCEPT ![Redis][k] = Slots(kept, d)]
              /\ expires' = [expires EXCEPT ![k] = now + Window + ExpirySlack]
              /\ gen' = gen
  BY ScriptAnswers
<1> HIDE DEF kept
<1>2. /\ Redis \in Windows /\ n \in Int /\ now - Lag <= n /\ n <= now + Lead
      /\ now \in Nat /\ d.w = Redis /\ d.key = k /\ d.t = now /\ d.gen = gen[Redis][k]
      /\ d.id = checks + 1 /\ log' = log \cup {d} /\ checks' = checks + 1 /\ now' = now
  BY <1>1 DEF Windows, Readings, IInv, TypeOK, AnswerFrom
<1>3. \A w \in Windows, x \in Keys : gen'[w][x] >= gen[w][x]
  BY <1>1 DEF IInv, TypeOK
<1>4. Ledger' /\ Scores'
  BY <1>1, <1>2, <1>3, LogGrows
<1>5. \A w \in Windows, x \in Keys :
         store'[w][x] = IF w = Redis /\ x = k THEN Slots(kept, d) ELSE store[w][x]
  BY <1>1, <1>2 DEF IInv, TypeOK
<1>6. kept \subseteq store[Redis][k]
  BY <1>1 DEF AnswerFrom
<1>7. HoldsOnlyGrants'
  BY <1>1, <1>2, <1>5, <1>6 DEF IInv, HoldsOnlyGrants, Slots
<1>8. ASSUME NEW a \in log', a.w \in Windows, a.ok, a.gen = gen'[a.w][a.key],
             a.t > now' - Span[a.w]
      PROVE  a \in store'[a.w][a.key]
  <2>1. a.key \in Keys
    BY DEF TypeOK, Decision
  <2>2. CASE a = d
    BY <1>2, <1>5, <1>8, <2>1, <2>2 DEF Slots
  <2>3. CASE a \in log
    <3>1. a \in store[a.w][a.key]
      BY <1>1, <1>2, <1>8, <2>3 DEF IInv, HoldsEveryGrant
    <3>2. a.w = Redis /\ a.key = k => a \in kept
      BY <1>1, <1>2, <1>8, <3>1 DEF AnswerFrom
    <3>3. QED
      BY <1>5, <1>8, <2>1, <3>1, <3>2 DEF Slots
  <2>4. QED
    BY <1>2, <2>2, <2>3
<1>9. HoldsEveryGrant'
  BY <1>8 DEF HoldsEveryGrant, Span
<1>10. ASSUME NEW x \in Keys, NEW e \in store'[Redis][x]
       PROVE  e.t + Window + ExpirySlack <= expires'[x]
  <2>1. CASE x # k
    BY <1>1, <1>2, <1>5, <2>1 DEF IInv, NotExpiredEarly, TypeOK
  <2>2. CASE x = k
    <3>1. e \in log' /\ e.t <= now /\ e.t \in Int
      BY <1>2, <1>4, <1>7 DEF HoldsOnlyGrants, Ledger, TypeOK, Decision
    <3>2. expires'[k] = now + Window + ExpirySlack
      BY <1>1 DEF IInv, TypeOK
    <3>3. QED
      BY <1>2, <2>2, <3>1, <3>2
  <2>3. QED
    BY <2>1, <2>2
<1>11. QED
  BY <1>4, <1>7, <1>9, <1>10 DEF IInv, NotExpiredEarly

LEMMA LocalKeepsIInv ==
    ASSUME IInv, TypeOK', NEW r \in Replicas, DegradeLocal(r)
    PROVE  IInv'
<1>1. PICK k \in Keys, d \in Decision, gone \in SUBSET Keys :
              LET kept == Purged(store[r][k], now) IN
              /\ AnswerFrom(r, k, kept, d)
              /\ d.score = now
              /\ store' = [store EXCEPT ![r] = [x \in Keys |-> IF x \in gone THEN {}
                                                               ELSE IF x = k THEN Slots(kept, d)
                                                               ELSE @[x]]]
              /\ gen' = [gen EXCEPT ![r] = [x \in Keys |-> IF x \in gone THEN @[x] + 1 ELSE @[x]]]
              /\ expires' = expires
  BY LocalAnswers
<1> DEFINE kept == Purged(store[r][k], now)
<1>2. /\ r \in Windows /\ r # Redis /\ now \in Nat
      /\ d.w = r /\ d.key = k /\ d.t = now /\ d.score = now /\ d.gen = gen[r][k]
      /\ d.id = checks + 1 /\ log' = log \cup {d} /\ checks' = checks + 1 /\ now' = now
  BY <1>1 DEF Windows, IInv, TypeOK, AnswerFrom
<1>3. \A w \in Windows, x \in Keys :
         gen'[w][x] = IF w = r /\ x \in gone THEN gen[w][x] + 1 ELSE gen[w][x]
  BY <1>1, <1>2 DEF IInv, TypeOK
<1>4. \A w \in Windows, x \in Keys :
         store'[w][x] = IF w = r /\ x \in gone THEN {}
                        ELSE IF w = r /\ x = k THEN Slots(kept, d) ELSE store[w][x]
  BY <1>1, <1>2 DEF IInv, TypeOK
<1>5. /\ kept \subseteq store[r][k]
      /\ \A b \in store[r][k] : b.t > now - Span[r] => b \in kept
  BY <1>1 DEF AnswerFrom
<1> HIDE DEF kept
<1>6. \A w \in Windows, x \in Keys : gen'[w][x] >= gen[w][x] /\ gen[w][x] \in Nat
  <2>1. \A w \in Windows, x \in Keys : gen[w][x] \in Nat
    BY DEF IInv, TypeOK
  <2>2. QED
    BY <1>3, <2>1
<1>7. Ledger' /\ Scores'
  BY <1>1, <1>2, <1>6, LogGrows
<1>8. HoldsOnlyGrants'
  BY <1>2, <1>3, <1>4, <1>5 DEF IInv, HoldsOnlyGrants, Slots
<1>9. ASSUME NEW a \in log', a.w \in Windows, a.ok, a.gen = gen'[a.w][a.key],
             a.t > now' - Span[a.w]
      PROVE  a \in store'[a.w][a.key]
  <2>1. a.key \in Keys /\ a.gen \in Nat
    BY DEF TypeOK, Decision
  <2>2. a.gen <= gen[a.w][a.key]
    BY <1>2, <1>6, <1>9, <2>1 DEF IInv, Ledger
  <2>3. ~(a.w = r /\ a.key \in gone) /\ a.gen = gen[a.w][a.key]
    BY <1>3, <1>6, <1>9, <2>1, <2>2
  <2>4. CASE a = d
    BY <1>2, <1>4, <1>9, <2>1, <2>3, <2>4 DEF Slots
  <2>5. CASE a \in log
    <3>1. a \in store[a.w][a.key]
      BY <1>2, <1>9, <2>3, <2>5 DEF IInv, HoldsEveryGrant
    <3>2. a.w = r /\ a.key = k => a \in kept
      BY <1>2, <1>5, <1>9, <3>1
    <3>3. QED
      BY <1>4, <1>9, <2>1, <2>3, <3>1, <3>2 DEF Slots
  <2>6. QED
    BY <1>2, <2>4, <2>5
<1>10. HoldsEveryGrant'
  BY <1>9 DEF HoldsEveryGrant, Span
<1>11. NotExpiredEarly'
  BY <1>1, <1>2, <1>4 DEF IInv, NotExpiredEarly, Windows
<1>12. QED
  BY <1>7, <1>8, <1>10, <1>11 DEF IInv

LEMMA BlindKeepsIInv ==
    ASSUME IInv, TypeOK', NEW r \in Replicas, DegradeBlind(r)
    PROVE  IInv'
<1> DEFINE d == [id |-> checks + 1, w |-> mode, key |-> pending[r].key, gen |-> 0,
                 t |-> now, score |-> now, limit |-> pending[r].limit,
                 ok |-> AdmitsBlindly, answered |-> TRUE]
<1>0. mode \in {"open", "closed"} /\ d.id = checks + 1 /\ d.t = now /\ d.w = mode
  BY DEF DegradeBlind
<1>1a. log' = log \cup {d}
  BY DEF DegradeBlind
<1> HIDE DEF d
<1>1. /\ log' = log \cup {d} /\ d.id = checks + 1 /\ d.t = now
      /\ d.w \in {"open", "closed"}
  BY <1>0, <1>1a
<1>2. /\ checks' = checks + 1
      /\ UNCHANGED <<now, mode, store, expires, used, gen>>
  BY DEF DegradeBlind
<1>3. d \in Decision /\ d.w \notin Windows
  BY <1>1 DEF TypeOK
<1>4. \A w \in Windows, k \in Keys : gen'[w][k] >= gen[w][k]
  BY <1>2 DEF IInv, TypeOK
<1>5. Ledger' /\ Scores'
  BY <1>1, <1>2, <1>3, <1>4, LogGrows
<1>6. HoldsOnlyGrants' /\ HoldsEveryGrant' /\ NotExpiredEarly'
  BY <1>1, <1>2, <1>3 DEF IInv, HoldsOnlyGrants, HoldsEveryGrant, NotExpiredEarly, Span
<1>7. QED
  BY <1>5, <1>6 DEF IInv

LEMMA TickKeepsIInv ==
    ASSUME IInv, TypeOK', Tick
    PROVE  IInv'
<1>1. /\ now' = now + 1 /\ now \in Nat
      /\ UNCHANGED <<mode, store, expires, used, gen, pending, checks, log>>
  BY DEF Tick, IInv, TypeOK
<1>2. \A a \in log : a.t \in Int /\ a.id \in Nat
  BY DEF IInv, TypeOK, Decision
<1>3. Ledger'
  BY <1>1, <1>2 DEF IInv, Ledger
<1>4. Scores' /\ HoldsOnlyGrants' /\ NotExpiredEarly'
  BY <1>1 DEF IInv, Scores, HoldsOnlyGrants, NotExpiredEarly
<1>5. HoldsEveryGrant'
  <2>1. \A w \in Windows : Span[w] \in Int
    BY DEF Span
  <2>2. ASSUME NEW a \in log, a.w \in Windows, a.t > now + 1 - Span[a.w]
        PROVE  a.t > now - Span[a.w]
    BY <1>1, <1>2, <2>1, <2>2
  <2>3. QED
    BY <1>1, <2>2 DEF IInv, HoldsEveryGrant, Span
<1>6. QED
  BY <1>3, <1>4, <1>5 DEF IInv

(* Losing keys of one window: nothing of the new generation is in the log yet. *)
LEMMA LossKeepsIInv ==
    ASSUME IInv, TypeOK', NEW v \in Windows, NEW lost \in SUBSET Keys,
           \A w \in Windows, k \in Keys :
              /\ store'[w][k] = IF w = v /\ k \in lost THEN {} ELSE store[w][k]
              /\ gen'[w][k] = IF w = v /\ k \in lost THEN gen[w][k] + 1 ELSE gen[w][k],
           UNCHANGED <<now, expires, checks, log>>
    PROVE  IInv'
<1>1. \A w \in Windows, k \in Keys : gen[w][k] \in Nat
  BY DEF IInv, TypeOK
<1>2. \A a \in log : a.key \in Keys /\ a.gen \in Nat
  BY DEF IInv, TypeOK, Decision
<1>3. Ledger'
  <2>1. \A a \in log : a.w \in Windows => a.gen <= gen'[a.w][a.key]
    BY <1>1, <1>2 DEF IInv, Ledger
  <2>2. QED
    BY <2>1 DEF IInv, Ledger
<1>4. Scores' /\ HoldsOnlyGrants'
  BY DEF IInv, Scores, HoldsOnlyGrants
<1>5. ASSUME NEW a \in log, a.w \in Windows, a.gen = gen'[a.w][a.key]
      PROVE  gen'[a.w][a.key] = gen[a.w][a.key] /\ store'[a.w][a.key] = store[a.w][a.key]
  <2>1. a.gen <= gen[a.w][a.key]
    BY <1>5 DEF IInv, Ledger
  <2>2. QED
    BY <1>1, <1>2, <1>5, <2>1
<1>6. HoldsEveryGrant'
  BY <1>5 DEF IInv, HoldsEveryGrant, Span
<1>7. NotExpiredEarly'
  BY DEF IInv, NotExpiredEarly, Windows
<1>8. QED
  BY <1>3, <1>4, <1>6, <1>7 DEF IInv

LEMMA InitIInv == Init => IInv
  BY InitTypeOK, FS_EmptySet
     DEF Init, IInv, Ledger, Scores, HoldsOnlyGrants, HoldsEveryGrant, NotExpiredEarly, Windows

LEMMA NextIInv == IInv /\ [Next]_vars => IInv'
<1> SUFFICES ASSUME IInv, [Next]_vars
             PROVE  IInv'
  OBVIOUS
<1>0. TypeOK'
  BY NextTypeOK DEF IInv
<1>1. CASE Tick
  BY <1>0, <1>1, TickKeepsIInv
<1>2. ASSUME NEW k \in Keys, RedisLoses(k)
      PROVE  IInv'
  <2> DEFINE lost == {k}
  <2>1. \A w \in Windows, x \in Keys :
           /\ store'[w][x] = IF w = Redis /\ x \in lost THEN {} ELSE store[w][x]
           /\ gen'[w][x] = IF w = Redis /\ x \in lost THEN gen[w][x] + 1 ELSE gen[w][x]
    BY <1>2 DEF RedisLoses, IInv, TypeOK, Windows
  <2>2. UNCHANGED <<now, expires, checks, log>> /\ Redis \in Windows
    BY <1>2 DEF RedisLoses, Windows
  <2>3. lost \in SUBSET Keys
    OBVIOUS
  <2> HIDE DEF lost
  <2>4. QED
    BY <1>0, <2>1, <2>2, <2>3, LossKeepsIInv
<1>3. ASSUME NEW r \in Replicas, DegradeLocal(r)
      PROVE  IInv'
  BY <1>0, <1>3, LocalKeepsIInv
<1>4. ASSUME NEW r \in Replicas, DegradeBlind(r)
      PROVE  IInv'
  BY <1>0, <1>4, BlindKeepsIInv
<1>5. ASSUME NEW r \in Replicas, Restart(r)
      PROVE  IInv'
  <2>1. \A w \in Windows, x \in Keys :
           /\ store'[w][x] = IF w = r /\ x \in Keys THEN {} ELSE store[w][x]
           /\ gen'[w][x] = IF w = r /\ x \in Keys THEN gen[w][x] + 1 ELSE gen[w][x]
    BY <1>5 DEF Restart, IInv, TypeOK, Windows
  <2>2. UNCHANGED <<now, expires, checks, log>> /\ r \in Windows
    BY <1>5 DEF Restart, Windows
  <2>3. QED
    BY <1>0, <2>1, <2>2, LossKeepsIInv
<1>6. ASSUME NEW r \in Replicas, NEW k \in Keys, NEW l \in Limits, Check(r, k, l)
      PROVE  IInv'
  BY <1>0, <1>6, ScriptKeepsIInv DEF Check
<1>7. ASSUME NEW r \in Replicas, NEW k \in Keys, NEW l \in Limits, CheckReplyLost(r, k, l)
      PROVE  IInv'
  BY <1>0, <1>7, ScriptKeepsIInv DEF CheckReplyLost
<1>8. ASSUME NEW r \in Replicas, NEW k \in Keys, NEW l \in Limits, CheckUnreachable(r, k, l)
      PROVE  IInv'
  BY <1>0, <1>8 DEF CheckUnreachable, IInv, Ledger, Scores, HoldsOnlyGrants,
                    HoldsEveryGrant, NotExpiredEarly, Span
<1>9. CASE UNCHANGED vars
  BY <1>0, <1>9 DEF vars, IInv, Ledger, Scores, HoldsOnlyGrants, HoldsEveryGrant,
                    NotExpiredEarly, Span
<1>10. QED
  BY <1>1, <1>2, <1>3, <1>4, <1>5, <1>6, <1>7, <1>8, <1>9 DEF Next

(* The inductive invariant holds: no window holds a slot that is not a live grant of its *)
(* own, and none has dropped a grant that still counts.                                  *)
THEOREM Inductive == Spec => []IInv
  BY InitIInv, NextIInv, PTL DEF Spec

-----------------------------------------------------------------------------
(* What the invariant buys: every answer is fair. *)

LEMMA AnswerFair ==
    ASSUME IInv, NEW w \in Windows, NEW k \in Keys, NEW kept, NEW d, AnswerFrom(w, k, kept, d)
    PROVE  /\ \A x \in Int : IsFiniteSet(Abs!Grants(w, k, x))
           /\ d.ok => Cardinality(Abs!Grants(w, k, Span[w])) < d.limit
           /\ ~d.ok => Cardinality(Abs!Grants(w, k, Reach[w])) >= d.limit
<1>1. \A x \in Int : Abs!Grants(w, k, x) \in SUBSET log
  BY DEF Abs!Grants
<1>2. \A x \in Int : IsFiniteSet(Abs!Grants(w, k, x))
  BY <1>1, FS_Subset DEF IInv, Ledger
<1>3. kept \in SUBSET log /\ IsFiniteSet(kept)
  <2>1. kept \in SUBSET log
    BY DEF AnswerFrom, IInv, HoldsOnlyGrants
  <2>2. QED
    BY <2>1, FS_Subset DEF IInv, Ledger
<1>4. Span[w] \in Int /\ Reach[w] \in Int
  BY DEF Span, Reach
<1>5. Abs!Grants(w, k, Span[w]) \in SUBSET kept
  BY DEF Abs!Grants, AnswerFrom, IInv, HoldsEveryGrant
<1>6. kept \in SUBSET Abs!Grants(w, k, Reach[w])
  BY <1>3 DEF Abs!Grants, AnswerFrom, IInv, HoldsOnlyGrants
<1>7. Cardinality(Abs!Grants(w, k, Span[w])) <= Cardinality(kept)
  BY <1>3, <1>5, FS_Subset
<1>8. Cardinality(kept) <= Cardinality(Abs!Grants(w, k, Reach[w]))
  BY <1>2, <1>4, <1>6, FS_Subset
<1>9. /\ Cardinality(kept) \in Nat
      /\ Cardinality(Abs!Grants(w, k, Span[w])) \in Nat
      /\ Cardinality(Abs!Grants(w, k, Reach[w])) \in Nat
      /\ d.limit \in Nat
  BY <1>2, <1>3, <1>4, FS_CardinalityType DEF AnswerFrom, Decision
<1>10. d.ok => Cardinality(kept) < d.limit
  BY Zenon DEF AnswerFrom
<1>11. ~d.ok => ~(Cardinality(kept) < d.limit)
  BY Zenon DEF AnswerFrom
<1>12. d.ok => Cardinality(Abs!Grants(w, k, Span[w])) < d.limit
  BY <1>7, <1>9, <1>10
<1>13. ~d.ok => Cardinality(Abs!Grants(w, k, Reach[w])) >= d.limit
  BY <1>8, <1>9, <1>11
<1>14. QED
  BY <1>2, <1>12, <1>13

(* Later answers change nothing for the checks answered before them. *)
LEMMA HistoryStands ==
    ASSUME IInv, NEW d, d.id = checks + 1, log' = log \cup {d},
           NEW a \in log, NEW x \in Int
    PROVE  GrantsTo(a, x)' = GrantsTo(a, x)
<1>1. a.id \in Nat /\ a.id <= checks /\ checks \in Nat
  BY DEF IInv, TypeOK, Ledger, Decision
<1>2. ~(d.id <= a.id)
  BY <1>1
<1>3. QED
  BY <1>2 DEF GrantsTo

Bounds == WindowBound /\ DenialJustified

LEMMA AnswerKeepsBounds ==
    ASSUME IInv, Bounds, NEW w \in Windows, NEW k \in Keys, NEW kept, NEW d,
           AnswerFrom(w, k, kept, d)
    PROVE  Bounds'
<1>1. /\ d.id = checks + 1 /\ log' = log \cup {d} /\ d.t = now
      /\ d.w = w /\ d.key = k /\ d.gen = gen[w][k] /\ d.limit \in Nat
  BY DEF AnswerFrom, Decision
<1>2. \A v \in Windows : Span[v] \in Int /\ Reach[v] \in Int /\ Span'[v] = Span[v]
                         /\ Reach'[v] = Reach[v]
  BY DEF Span, Reach
<1>3. GrantsTo(d, Span[w])' \in SUBSET (Abs!Grants(w, k, Span[w]) \cup {d})
  BY <1>1, <1>2 DEF GrantsTo, Abs!Grants
<1>4. Abs!Grants(w, k, Reach[w]) \in SUBSET GrantsTo(d, Reach[w])'
  <2>1. \A b \in log : b.id <= d.id
    BY <1>1 DEF IInv, TypeOK, Ledger, Decision
  <2>2. QED
    BY <1>1, <1>2, <2>1 DEF GrantsTo, Abs!Grants
<1>5. IsFiniteSet(log')
  BY <1>1, FS_AddElement DEF IInv, Ledger
<1>6. GrantsTo(d, Reach[w])' \in SUBSET log' /\ GrantsTo(d, Span[w])' \in SUBSET log'
  BY DEF GrantsTo
<1>7. IsFiniteSet(GrantsTo(d, Reach[w])') /\ IsFiniteSet(GrantsTo(d, Span[w])')
  BY <1>5, <1>6, FS_Subset
<1>8. IsFiniteSet(Abs!Grants(w, k, Span[w])) /\ IsFiniteSet(Abs!Grants(w, k, Reach[w]))
  BY <1>2, AnswerFair
<1>9. ASSUME d.ok
      PROVE  Cardinality(GrantsTo(d, Span[w])') <= d.limit
  <2>1. Cardinality(Abs!Grants(w, k, Span[w])) < d.limit
    BY <1>9, AnswerFair
  <2>2. /\ IsFiniteSet(Abs!Grants(w, k, Span[w]) \cup {d})
        /\ Cardinality(Abs!Grants(w, k, Span[w]) \cup {d})
              <= Cardinality(Abs!Grants(w, k, Span[w])) + 1
    <3> DEFINE G == Abs!Grants(w, k, Span[w])
    <3>1. IsFiniteSet(G) /\ Cardinality(G) \in Nat
      BY <1>8, FS_CardinalityType
    <3> HIDE DEF G
    <3>2. /\ IsFiniteSet(G \cup {d})
          /\ Cardinality(G \cup {d}) = IF d \in G THEN Cardinality(G) ELSE Cardinality(G) + 1
      BY <3>1, FS_AddElement
    <3>3. QED
      BY <3>1, <3>2 DEF G
  <2>3. Cardinality(GrantsTo(d, Span[w])')
          <= Cardinality(Abs!Grants(w, k, Span[w]) \cup {d})
    BY <1>3, <2>2, FS_Subset
  <2>4. /\ Cardinality(Abs!Grants(w, k, Span[w])) \in Nat
        /\ Cardinality(Abs!Grants(w, k, Span[w]) \cup {d}) \in Nat
        /\ Cardinality(GrantsTo(d, Span[w])') \in Nat
    BY <1>7, <1>8, <2>2, FS_CardinalityType
  <2>5. QED
    BY <1>1, <2>1, <2>2, <2>3, <2>4
<1>10. ASSUME ~d.ok
       PROVE  Cardinality(GrantsTo(d, Reach[w])') >= d.limit
  <2>1. Cardinality(Abs!Grants(w, k, Reach[w])) >= d.limit
    BY <1>10, AnswerFair
  <2>2. Cardinality(Abs!Grants(w, k, Reach[w])) <= Cardinality(GrantsTo(d, Reach[w])')
    BY <1>4, <1>7, FS_Subset
  <2>3. /\ Cardinality(Abs!Grants(w, k, Reach[w])) \in Nat
        /\ Cardinality(GrantsTo(d, Reach[w])') \in Nat
    BY <1>7, <1>8, FS_CardinalityType
  <2>4. QED
    BY <1>1, <2>1, <2>2, <2>3
<1>11. ASSUME NEW a \in log', a.w \in Windows
       PROVE  /\ a.ok => Cardinality(GrantsTo(a, Span[a.w])') <= a.limit
              /\ ~a.ok => Cardinality(GrantsTo(a, Reach[a.w])') >= a.limit
  <2>1. CASE a \in log
    BY <1>1, <1>2, <1>11, <2>1, HistoryStands DEF Bounds, WindowBound, DenialJustified
  <2>2. CASE a = d
    BY <1>1, <1>9, <1>10, <2>2
  <2>3. QED
    BY <1>1, <2>1, <2>2
<1>12. QED
  BY <1>2, <1>11 DEF Bounds, WindowBound, DenialJustified, Span, Reach

(* What a step does, as the abstract limiter sees it. *)
LEMMA StepKinds ==
    ASSUME IInv, [Next]_vars
    PROVE  \/ \E w \in Windows, k \in Keys, kept \in SUBSET log, d \in Decision :
                 AnswerFrom(w, k, kept, d) /\ Abs!Forgetting(w)
           \/ \E d \in Decision : /\ d.w \notin Windows /\ d.id = checks + 1
                                  /\ log' = log \cup {d} /\ UNCHANGED <<now, gen>>
           \/ (\E w \in Windows : Abs!Forgetting(w)) /\ UNCHANGED <<now, log>>
           \/ now' > now /\ UNCHANGED <<gen, log>>
           \/ UNCHANGED <<now, gen, log>>
<1>0. TypeOK' /\ gen \in [Windows -> [Keys -> Nat]] /\ gen' \in [Windows -> [Keys -> Nat]]
  BY NextTypeOK DEF IInv, TypeOK
<1>a. ASSUME NEW w \in Windows, NEW k \in Keys, NEW kept, NEW d, AnswerFrom(w, k, kept, d)
      PROVE  kept \in SUBSET log
  BY <1>a DEF AnswerFrom, IInv, HoldsOnlyGrants
<1>b. ASSUME NEW k \in Keys, NEW l \in Limits, NEW n \in Readings,
             NEW answered \in BOOLEAN, Script(k, l, n, answered)
      PROVE  \E w \in Windows, x \in Keys, kept \in SUBSET log, d \in Decision :
                 AnswerFrom(w, x, kept, d) /\ Abs!Forgetting(w)
  <2>1. PICK d \in Decision :
              AnswerFrom(Redis, k, Purged(Live(k), n), d) /\ gen' = gen
    BY <1>b, ScriptAnswers
  <2>2. Redis \in Windows
    BY DEF Windows
  <2>3. \A x \in Keys : gen'[Redis][x] >= gen[Redis][x]
    BY <1>0, <2>1, <2>2
  <2>4. Abs!Forgetting(Redis)
    BY <1>0, <2>1, <2>3 DEF Abs!Forgetting
  <2>5. QED
    BY <1>a, <2>1, <2>2, <2>4
<1>1. CASE Tick
  BY <1>1 DEF Tick, IInv, TypeOK
<1>2. ASSUME NEW k \in Keys, RedisLoses(k)
      PROVE  (\E w \in Windows : Abs!Forgetting(w)) /\ UNCHANGED <<now, log>>
  <2>1. Redis \in Windows /\ UNCHANGED <<now, log>> /\ gen' = [gen EXCEPT ![Redis][k] = @ + 1]
    BY <1>2 DEF RedisLoses, Windows
  <2>2. \A x \in Keys : gen[Redis][x] \in Nat
    BY <1>0, <2>1
  <2>3. /\ \A x \in Keys : gen'[Redis][x] >= gen[Redis][x]
        /\ \A v \in Windows \ {Redis} : gen'[v] = gen[v]
    BY <1>0, <2>1, <2>2
  <2>4. QED
    BY <1>0, <2>1, <2>3 DEF Abs!Forgetting
<1>3. ASSUME NEW r \in Replicas, DegradeLocal(r)
      PROVE  \E w \in Windows, x \in Keys, kept \in SUBSET log, d \in Decision :
                 AnswerFrom(w, x, kept, d) /\ Abs!Forgetting(w)
  <2>1. PICK k \in Keys, d \in Decision, gone \in SUBSET Keys :
              /\ AnswerFrom(r, k, Purged(store[r][k], now), d)
              /\ gen' = [gen EXCEPT ![r] = [x \in Keys |-> IF x \in gone THEN @[x] + 1 ELSE @[x]]]
    BY <1>3, LocalAnswers
  <2>2. r \in Windows
    BY DEF Windows
  <2>3. \A x \in Keys : gen[r][x] \in Nat
    BY <1>0, <2>2
  <2>4. /\ \A x \in Keys : gen'[r][x] >= gen[r][x]
        /\ \A v \in Windows \ {r} : gen'[v] = gen[v]
    BY <1>0, <2>1, <2>2, <2>3
  <2>5. Abs!Forgetting(r)
    BY <1>0, <2>4 DEF Abs!Forgetting
  <2>6. QED
    BY <1>a, <2>1, <2>2, <2>5
<1>4. ASSUME NEW r \in Replicas, DegradeBlind(r)
      PROVE  \E d \in Decision : /\ d.w \notin Windows /\ d.id = checks + 1
                                 /\ log' = log \cup {d} /\ UNCHANGED <<now, gen>>
  <2> DEFINE d == [id |-> checks + 1, w |-> mode, key |-> pending[r].key, gen |-> 0,
                   t |-> now, score |-> now, limit |-> pending[r].limit,
                   ok |-> AdmitsBlindly, answered |-> TRUE]
  <2>1. d.w \notin Windows /\ d.id = checks + 1
    BY <1>4 DEF DegradeBlind
  <2>2. log' = log \cup {d} /\ UNCHANGED <<now, gen>>
    BY <1>4 DEF DegradeBlind
  <2> HIDE DEF d
  <2>3. d \in Decision
    BY <1>0, <2>2 DEF TypeOK
  <2>4. QED
    BY <2>1, <2>2, <2>3
<1>5. ASSUME NEW r \in Replicas, Restart(r)
      PROVE  (\E w \in Windows : Abs!Forgetting(w)) /\ UNCHANGED <<now, log>>
  <2>1. /\ r \in Windows /\ UNCHANGED <<now, log>>
        /\ gen' = [gen EXCEPT ![r] = [k \in Keys |-> @[k] + 1]]
    BY <1>5 DEF Restart, Windows
  <2>2. \A x \in Keys : gen[r][x] \in Nat
    BY <1>0, <2>1
  <2>3. /\ \A x \in Keys : gen'[r][x] >= gen[r][x]
        /\ \A v \in Windows \ {r} : gen'[v] = gen[v]
    BY <1>0, <2>1, <2>2
  <2>4. QED
    BY <1>0, <2>1, <2>3 DEF Abs!Forgetting
<1>6. ASSUME NEW r \in Replicas, NEW k \in Keys, NEW l \in Limits, Check(r, k, l)
      PROVE  \E w \in Windows, x \in Keys, kept \in SUBSET log, d \in Decision :
                 AnswerFrom(w, x, kept, d) /\ Abs!Forgetting(w)
  BY <1>6, <1>b DEF Check
<1>7. ASSUME NEW r \in Replicas, NEW k \in Keys, NEW l \in Limits, CheckReplyLost(r, k, l)
      PROVE  \E w \in Windows, x \in Keys, kept \in SUBSET log, d \in Decision :
                 AnswerFrom(w, x, kept, d) /\ Abs!Forgetting(w)
  BY <1>7, <1>b DEF CheckReplyLost
<1>8. ASSUME NEW r \in Replicas, NEW k \in Keys, NEW l \in Limits, CheckUnreachable(r, k, l)
      PROVE  UNCHANGED <<now, gen, log>>
  BY <1>8 DEF CheckUnreachable
<1>9. CASE UNCHANGED vars
  BY <1>9 DEF vars
<1>10. CASE Next
  BY <1>1, <1>2, <1>3, <1>4, <1>5, <1>6, <1>7, <1>8, <1>10 DEF Next
<1>11. QED
  BY <1>9, <1>10

LEMMA NextBounds == IInv /\ Bounds /\ [Next]_vars => Bounds'
<1> SUFFICES ASSUME IInv, Bounds, [Next]_vars
             PROVE  Bounds'
  OBVIOUS
<1>1. ASSUME NEW w \in Windows, NEW k \in Keys, NEW kept, NEW d, AnswerFrom(w, k, kept, d)
      PROVE  Bounds'
  BY <1>1, AnswerKeepsBounds
<1>2. ASSUME NEW d \in Decision, d.w \notin Windows, d.id = checks + 1, log' = log \cup {d}
      PROVE  Bounds'
  <2>1. \A w \in Windows : Span[w] \in Int /\ Reach[w] \in Int
    BY DEF Span, Reach
  <2>2. \A a \in log, x \in Int : GrantsTo(a, x)' = GrantsTo(a, x)
    BY <1>2, HistoryStands
  <2>3. \A a \in log' : a.w \in Windows => a \in log
    BY <1>2
  <2>4. \A a \in log' : a.ok /\ a.w \in Windows => Cardinality(GrantsTo(a, Span[a.w])') <= a.limit
    BY <2>1, <2>2, <2>3 DEF Bounds, WindowBound
  <2>5. \A a \in log' : ~a.ok /\ a.w \in Windows => Cardinality(GrantsTo(a, Reach[a.w])') >= a.limit
    BY <2>1, <2>2, <2>3 DEF Bounds, DenialJustified
  <2>6. QED
    BY <2>4, <2>5 DEF Bounds, WindowBound, DenialJustified, Span, Reach
<1>3. ASSUME log' = log
      PROVE  Bounds'
  BY <1>3 DEF Bounds, WindowBound, DenialJustified, GrantsTo, Span, Reach
<1>4. QED
  BY <1>1, <1>2, <1>3, StepKinds

(* No window ever grants more than the limit within the span of real time its clocks     *)
(* allow for: for the shared window the configured one less the clocks' lag and lead.    *)
THEOREM LimitHolds == Spec => []WindowBound
<1>1. Init => Bounds
  BY DEF Init, Bounds, WindowBound, DenialJustified
<1>2. QED
  BY <1>1, InitIInv, NextIInv, NextBounds, PTL DEF Spec, Bounds

(* No check is ever denied but for `limit' genuine grants within reach: denied traffic   *)
(* does not extend its own penalty.                                                      *)
THEOREM DenialsAreDue == Spec => []DenialJustified
<1>1. Init => Bounds
  BY DEF Init, Bounds, WindowBound, DenialJustified
<1>2. QED
  BY <1>1, InitIInv, NextIInv, NextBounds, PTL DEF Spec, Bounds

-----------------------------------------------------------------------------
(* The instance's Cardinality is the module's. *)
LEMMA SameCardinality == \A S : Abs!Cardinality(S) = Cardinality(S)
  BY DEF Abs!Cardinality, Cardinality, Abs!IsFiniteSet, IsFiniteSet

LEMMA InitRefines == Init => Abs!AbsInit
  BY DEF Init, Abs!AbsInit

LEMMA NextRefines == IInv /\ [Next]_vars => [Abs!AbsNext]_(Abs!absVars)
<1> SUFFICES ASSUME IInv, [Next]_vars
             PROVE  [Abs!AbsNext]_(Abs!absVars)
  OBVIOUS
<1>1. ASSUME NEW w \in Windows, NEW k \in Keys, NEW kept, NEW d,
             AnswerFrom(w, k, kept, d), Abs!Forgetting(w)
      PROVE  Abs!AbsDecide(w, k)
  <2> DEFINE seen == {x \in log : x.w \in Windows}
  <2>1. /\ d.w = w /\ d.key = k /\ d.gen = gen[w][k] /\ d.t = now /\ d.id = checks + 1
        /\ log' = log \cup {d} /\ now' = now
    BY <1>1 DEF AnswerFrom
  <2>2. seen' = seen \cup {d} /\ d \in seen'
    BY <2>1
  <2>3. \A b \in seen : b.id # d.id
    BY <2>1 DEF IInv, TypeOK, Ledger, Decision
  <2>4. IF d.ok THEN Cardinality(Abs!Grants(w, k, Span[w])) < d.limit
                ELSE Cardinality(Abs!Grants(w, k, Reach[w])) >= d.limit
    BY <1>1, AnswerFair, Zenon
  <2>5. \E e \in seen' :
           /\ e.w = w /\ e.key = k /\ e.gen = gen[w][k] /\ e.t = now
           /\ \A b \in seen : b.id # e.id
           /\ IF e.ok THEN Cardinality(Abs!Grants(w, k, Span[w])) < e.limit
                      ELSE Cardinality(Abs!Grants(w, k, Reach[w])) >= e.limit
           /\ seen' = seen \cup {e}
    <3> HIDE DEF seen
    <3> QED BY <2>1, <2>2, <2>3, <2>4, Zenon
  <2>6. QED
    BY <1>1, <2>1, <2>5, SameCardinality, Zenon DEF Abs!AbsDecide
<1>2. ASSUME NEW d, d.w \notin Windows, log' = log \cup {d}, UNCHANGED <<now, gen>>
      PROVE  UNCHANGED Abs!absVars
  BY <1>2 DEF Abs!absVars
<1>3. ASSUME NEW w \in Windows, Abs!Forgetting(w), UNCHANGED <<now, log>>
      PROVE  Abs!AbsForget(w)
  BY <1>3 DEF Abs!AbsForget
<1>4. ASSUME now' > now, UNCHANGED <<gen, log>>
      PROVE  Abs!AbsTick
  BY <1>4 DEF Abs!AbsTick
<1>5. ASSUME UNCHANGED <<now, gen, log>>
      PROVE  UNCHANGED Abs!absVars
  BY <1>5 DEF Abs!absVars
<1>6. QED
  BY <1>1, <1>2, <1>3, <1>4, <1>5, StepKinds DEF Abs!AbsNext

(* The shared window and every local one implement the abstract limiter: in each step    *)
(* they answer one check within its bounds, forget keys, or let time pass.               *)
THEOREM Refinement == Spec => RefinesWindowLimiter
<1>1. Spec => []IInv
  BY Inductive
<1>2. QED
  BY <1>1, InitRefines, NextRefines, PTL DEF Spec, RefinesWindowLimiter, Abs!AbsSpec

-----------------------------------------------------------------------------
(* What the answers are worth: the local table is bounded, an outage of Redis lets through *)
(* no more than one limit per window that may answer, and the time a denied caller is told *)
(* to wait is exact.                                                                        *)

-----------------------------------------------------------------------------
(* Finite sets. *)

(* Something finite has a least element. *)
LEMMA Least ==
    ASSUME NEW S, IsFiniteSet(S), S # {}, NEW f \in [S -> Int]
    PROVE  \E x \in S : \A y \in S : f[x] <= f[y]
  <1> DEFINE below == [x \in S |-> {y \in S : f[y] < f[x]}]
  <1> DEFINE B == {below[x] : x \in S}
  <1>1. IsWellFoundedOn(StrictSubsetOrdering(S), FiniteSubsetsOf(S))
    BY FS_StrictSubsetOrderingWellFounded
  <1>2. B \subseteq FiniteSubsetsOf(S) /\ B # {}
    <2>1. FiniteSubsetsOf(S) = SUBSET S
      BY FS_FiniteSubsetsOfFinite
    <2>2. \A x \in S : below[x] \in SUBSET S
      OBVIOUS
    <2> HIDE DEF below
    <2> QED
      BY <2>1, <2>2
  <1>3. PICK T \in B : \A U \in B : <<U, T>> \notin StrictSubsetOrdering(S)
    <2> HIDE DEF B
    <2> QED
      BY <1>1, <1>2, WFMin
  <1>4. PICK x \in S : T = below[x]
    OBVIOUS
  <1>5. ASSUME NEW z \in S, f[z] < f[x] PROVE FALSE
    <2>1. below[z] \subseteq below[x]
      BY <1>5
    <2>2. z \in below[x] /\ z \notin below[z]
      BY <1>5
    <2>3. <<below[z], below[x]>> \in StrictSubsetOrdering(S)
      BY <2>1, <2>2 DEF StrictSubsetOrdering
    <2> QED
      BY <1>3, <1>4, <2>3
  <1> QED
    BY <1>5

(* And, where it is a number, a greatest. *)
LEMMA Greatest ==
    ASSUME NEW S, IsFiniteSet(S), S # {}, NEW f \in [S -> Int]
    PROVE  \E x \in S : \A y \in S : f[y] <= f[x]
  <1> DEFINE g == [x \in S |-> -f[x]]
  <1>1. g \in [S -> Int]
    OBVIOUS
  <1>2. PICK x \in S : \A y \in S : g[x] <= g[y]
    <2> HIDE DEF g
    <2> QED
      BY <1>1, Least
  <1> QED
    BY <1>2

(* As many boxes as W has elements, with m things in each, hold m * Cardinality(W) things. *)
LEMMA Boxes ==
    ASSUME NEW L, IsFiniteSet(L), NEW W, IsFiniteSet(W), NEW h \in [L -> W], NEW m \in Nat,
           \A w \in W : Cardinality({b \in L : h[b] = w}) <= m
    PROVE  Cardinality(L) <= m * Cardinality(W)
  <1> DEFINE box == [w \in W |-> {b \in L : h[b] = w}]
  <1>1. \A w \in W : Injection(box[w], 1..m) # {}
    <2> SUFFICES ASSUME NEW w \in W PROVE Injection(box[w], 1..m) # {}
      OBVIOUS
    <2> DEFINE n == Cardinality(box[w])
    <2>1. IsFiniteSet(box[w])
      <3>1. box[w] \in SUBSET L
        OBVIOUS
      <3> QED
        BY <3>1, FS_Subset
    <2>2. n \in Nat /\ n <= m
      <3>1. box[w] = {b \in L : h[b] = w}
        OBVIOUS
      <3> QED
        BY <2>1, <3>1, FS_CardinalityType
    <2>3. IsFiniteSet(1..n) /\ Cardinality(1..n) = n
      BY <2>2, FS_Interval
    <2>4. PICK f : f \in Bijection(box[w], 1..n)
      <3>1. Cardinality(box[w]) = Cardinality(1..n)
        BY <2>3
      <3> HIDE DEF n, box
      <3>2. ExistsBijection(box[w], 1..n)
        BY <2>1, <2>3, <3>1, FS_SameCardinalityBij
      <3> QED
        BY <3>2 DEF ExistsBijection
    <2>5. f \in Injection(box[w], 1..m)
      <3>1. f \in [box[w] -> 1..n] /\ IsInjective(f)
        BY <2>4 DEF Bijection, Injection
      <3> HIDE DEF n, box
      <3>2. f \in [box[w] -> 1..m]
        BY <2>2, <3>1
      <3> QED
        BY <3>1, <3>2 DEF Injection
    <2> QED
      BY <2>5
  <1> DEFINE f == [w \in W |-> CHOOSE g : g \in Injection(box[w], 1..m)]
  <1>2. \A w \in W : f[w] \in Injection(box[w], 1..m)
    <2> SUFFICES ASSUME NEW w \in W PROVE f[w] \in Injection(box[w], 1..m)
      OBVIOUS
    <2>1. \E g : g \in Injection(box[w], 1..m)
      BY <1>1
    <2> QED
      BY <2>1
  <1> DEFINE place == [b \in L |-> <<h[b], f[h[b]][b]>>]
  <1>3. \A b \in L : h[b] \in W /\ b \in box[h[b]]
    OBVIOUS
  <1> HIDE DEF f, box
  <1>4. place \in Injection(L, W \X (1..m))
    <2>1. \A b \in L : f[h[b]][b] \in 1..m
      BY <1>2, <1>3 DEF Injection
    <2>2. place \in [L -> W \X (1..m)]
      BY <1>3, <2>1
    <2>3. ASSUME NEW b \in L, NEW c \in L, place[b] = place[c] PROVE b = c
      <3>1. h[b] = h[c] /\ f[h[b]][b] = f[h[b]][c]
        BY <2>3
      <3>2. b \in box[h[b]] /\ c \in box[h[b]]
        BY <1>3, <3>1
      <3>3. f[h[b]] \in Injection(box[h[b]], 1..m)
        BY <1>2, <1>3
      <3> QED
        BY <3>1, <3>2, <3>3 DEF Injection, IsInjective
    <2> QED
      BY <2>2, <2>3 DEF Injection, IsInjective
  <1>5. IsFiniteSet(1..m) /\ Cardinality(1..m) = m
    BY FS_Interval
  <1>6. IsFiniteSet(W \X (1..m)) /\ Cardinality(W \X (1..m)) = Cardinality(W) * m
    BY <1>5, FS_Product
  <1> HIDE DEF place
  <1>7. Cardinality(L) <= Cardinality(W \X (1..m))
    BY <1>4, <1>6, FS_Injection
  <1>8. Cardinality(W) \in Nat
    BY FS_CardinalityType
  <1> QED
    BY <1>6, <1>7, <1>8

-----------------------------------------------------------------------------
(* The local table. *)

(* Whatever the table holds, eviction leaves max_keys of its keys at most. *)
LEMMA EvictedBounds ==
    ASSUME NEW table, IsFiniteSet(table), NEW last \in [table -> Int],
           \A x, y \in table : last[x] = last[y] => x = y
    PROVE  /\ IsFiniteSet(table \ Evicted(table, last))
           /\ Cardinality(table \ Evicted(table, last)) <= MaxKeys
  <1> DEFINE above(x) == {y \in table : last[y] > last[x]}
  <1> DEFINE kept == table \ Evicted(table, last)
  <1>1. IsFiniteSet(kept)
    <2>1. kept \in SUBSET table
      OBVIOUS
    <2> QED
      BY <2>1, FS_Subset
  <1>2. \A x \in kept : IsFiniteSet(above(x)) /\ Cardinality(above(x)) < MaxKeys
    <2> SUFFICES ASSUME NEW x \in kept
                 PROVE  IsFiniteSet(above(x)) /\ Cardinality(above(x)) < MaxKeys
      OBVIOUS
    <2>1. above(x) \in SUBSET table
      OBVIOUS
    <2>2. IsFiniteSet(above(x)) /\ Cardinality(above(x)) \in Nat
      BY <2>1, FS_Subset, FS_CardinalityType
    <2>3. ~(Cardinality(above(x)) >= MaxKeys)
      BY DEF Evicted
    <2> QED
      BY <2>2, <2>3
  <1>3. kept \subseteq table
    OBVIOUS
  <1> HIDE DEF kept
  <1>4. ASSUME kept = {} PROVE Cardinality(kept) <= MaxKeys
    BY <1>4, FS_EmptySet
  <1>5. ASSUME kept # {} PROVE Cardinality(kept) <= MaxKeys
    <2> DEFINE f == [x \in kept |-> last[x]]
    <2>1. PICK x \in kept : \A y \in kept : last[x] <= last[y]
      <3>1. f \in [kept -> Int]
        BY <1>3
      <3>2. \E x \in kept : \A y \in kept : f[x] <= f[y]
        <4> HIDE DEF f
        <4> QED
          BY <1>1, <1>5, <3>1, Least
      <3> QED
        BY <3>2
    <2>2. kept \ {x} \in SUBSET above(x)
      BY <1>3, <2>1
    <2>3. IsFiniteSet(above(x)) /\ Cardinality(above(x)) < MaxKeys
      BY <1>2
    <2> HIDE DEF above
    <2>4. /\ IsFiniteSet(kept \ {x}) /\ Cardinality(kept \ {x}) <= Cardinality(above(x))
          /\ Cardinality(above(x)) \in Nat
      BY <2>2, <2>3, FS_Subset, FS_CardinalityType
    <2>5. Cardinality(kept \ {x}) = Cardinality(kept) - 1 /\ Cardinality(kept) \in Nat
      BY <1>1, FS_RemoveElement, FS_CardinalityType
    <2> QED
      BY <2>3, <2>4, <2>5
  <1>6. IsFiniteSet(kept) /\ Cardinality(kept) <= MaxKeys
    BY <1>1, <1>4, <1>5
  <1> QED
    BY <1>6 DEF kept

(* Last uses are told apart, a window that is not in the table is empty, and the table is *)
(* within its bounds.                                                                     *)
Table(r) ==
    /\ \A k \in Keys : used[r][k] <= checks
    /\ \A j, k \in Tracked(r) : used[r][j] = used[r][k] => j = k
    /\ \A k \in Keys \ Tracked(r) : store[r][k] = {}
    /\ IsFiniteSet(Tracked(r))
    /\ Cardinality(Holding(r)) <= MaxKeys
    /\ Cardinality(Tracked(r)) <= MaxKeys + Cardinality(DeniedAtZero(r))

LEMMA TablesStart == Init => \A r \in Replicas : Table(r)
  <1> SUFFICES ASSUME Init, NEW r \in Replicas PROVE Table(r)
    OBVIOUS
  <1>1. Tracked(r) = {} /\ Holding(r) = {} /\ DeniedAtZero(r) = {}
    BY DEF Init, Tracked, Holding, DeniedAtZero, Windows
  <1> QED
    BY <1>1, FS_EmptySet DEF Init, Table, Windows

LEMMA DenialsFinite ==
    ASSUME IInv, NEW r \in Replicas
    PROVE  IsFiniteSet(DeniedAtZero(r)) /\ Cardinality(DeniedAtZero(r)) \in Nat
  <1>1. DeniedAtZero(r) \in SUBSET log
    BY DEF DeniedAtZero
  <1> QED
    BY <1>1, FS_Subset, FS_CardinalityType DEF IInv, Ledger

(* What a window's keys are, the table's windows being the only ones with slots. *)
LEMMA HoldingTracked ==
    ASSUME NEW r \in Replicas, Table(r)
    PROVE  /\ Holding(r) \subseteq Tracked(r)
           /\ IsFiniteSet(Holding(r)) /\ Cardinality(Holding(r)) <= Cardinality(Tracked(r))
           /\ Cardinality(Holding(r)) \in Nat /\ Cardinality(Tracked(r)) \in Nat
  <1>1. Holding(r) \in SUBSET Tracked(r)
    BY DEF Holding, Table
  <1> QED
    BY <1>1, FS_Subset, FS_CardinalityType DEF Table

(* Another window's answer is no denial of r's. *)
LEMMA AnswerElsewhere ==
    ASSUME NEW r, NEW d, d.w # r, log' = log \cup {d}
    PROVE  DeniedAtZero(r)' = DeniedAtZero(r)
  BY DEF DeniedAtZero

LEMMA LocalKeepsTable ==
    ASSUME IInv, NEW r \in Replicas, Table(r), DegradeLocal(r)
    PROVE  Table(r)'
  <1> DEFINE k == pending[r].key
             l == pending[r].limit
             kept == Purged(store[r][k], now)
             d == [id |-> checks + 1, w |-> r, key |-> k, gen |-> gen[r][k], t |-> now,
                   score |-> now, limit |-> l, ok |-> Admits(kept, l), answered |-> TRUE]
             last == [used[r] EXCEPT ![k] = checks + 1]
             gone == IF d.ok THEN Evicted(Tracked(r) \cup {k}, last) ELSE {}
             table == Tracked(r) \cup {k}
  <1>0. TypeOK
    BY DEF IInv
  <1>1. k \in Keys /\ l \in Nat
    <2>1. pending[r] # Idle
      BY DEF DegradeLocal
    <2>2. pending[r] \in [key : Keys, limit : Limits]
      BY <1>0, <2>1 DEF TypeOK
    <2>3. k \in Keys /\ l \in Limits
      BY <2>2
    <2> HIDE DEF k, l
    <2> QED
      BY <2>3
  <1>2. /\ d.ok <=> Cardinality(kept) < l
        /\ kept \subseteq store[r][k]
    BY DEF Admits, Purged
  <1>3. /\ store'[r] = [x \in Keys |-> IF x \in gone THEN {}
                                       ELSE IF x = k THEN Slots(kept, d) ELSE store[r][x]]
        /\ used'[r] = [x \in Keys |-> IF x \in gone THEN 0 ELSE last[x]]
        /\ checks' = checks + 1 /\ log' = log \cup {d}
    BY <1>0 DEF DegradeLocal, TypeOK, Windows
  <1>4. used[r] \in [Keys -> Nat] /\ checks \in Nat
    BY <1>0 DEF TypeOK
  <1>5. /\ last \in [Keys -> Nat] /\ last[k] = checks + 1
        /\ \A x \in Keys \ {k} : last[x] = used[r][x]
    BY <1>1, <1>4
  <1>6. Tracked(r) = {x \in Keys : used[r][x] > 0} /\ Tracked(r)' = {x \in Keys : used'[r][x] > 0}
    BY DEF Tracked
  <1>7. table \subseteq Keys /\ IsFiniteSet(table) /\ gone \subseteq table
    BY <1>1, <1>6, FS_AddElement DEF Table, Evicted
  <1>8. ~d.ok /\ l # 0 => k \in Tracked(r)
    <2> SUFFICES ASSUME k \notin Tracked(r), l # 0 PROVE d.ok
      OBVIOUS
    <2>1. kept = {}
      BY <1>1, <1>2 DEF Table
    <2> HIDE DEF kept, d, l
    <2> QED
      BY <1>1, <1>2, <2>1, FS_EmptySet
  <1>17. /\ d.w = r /\ d.limit = l /\ d.id = checks + 1
         /\ ~d.ok => Slots(kept, d) \subseteq store[r][k]
    BY DEF Slots, Purged
  <1>9. gone = IF d.ok THEN Evicted(table, last) ELSE {}
    OBVIOUS
  <1> HIDE DEF d, kept, last, gone, l, k
  <1>10. Tracked(r)' = table \ gone
    BY <1>1, <1>3, <1>4, <1>5, <1>6, <1>7
  <1>11. \A x, y \in table : last[x] = last[y] => x = y
    BY <1>1, <1>4, <1>5, <1>6 DEF Table
  <1>12. \A x \in Keys : used'[r][x] <= checks'
    BY <1>1, <1>3, <1>4, <1>5 DEF Table
  <1>13. \A x, y \in Tracked(r)' : used'[r][x] = used'[r][y] => x = y
    BY <1>3, <1>7, <1>10, <1>11
  <1>14. \A x \in Keys \ Tracked(r)' : store'[r][x] = {}
    BY <1>1, <1>3, <1>7, <1>10 DEF Table
  <1>15. IsFiniteSet(Tracked(r)')
    <2>1. Tracked(r)' \in SUBSET table
      BY <1>10
    <2> QED
      BY <1>7, <2>1, FS_Subset
  <1>16. Holding(r)' \subseteq Tracked(r)'
    BY <1>14 DEF Holding
  <1>18. CASE d.ok
    <2> DEFINE f == [x \in table |-> last[x]]
    <2>1. f \in [table -> Int] /\ \A x, y \in table : f[x] = f[y] => x = y
      BY <1>5, <1>7, <1>11
    <2>2. Evicted(table, f) = Evicted(table, last)
      BY DEF Evicted
    <2> HIDE DEF f, table
    <2>3. Cardinality(Tracked(r)') <= MaxKeys
      BY <1>7, <1>9, <1>10, <1>18, <2>1, <2>2, EvictedBounds
    <2>4. Holding(r)' \in SUBSET Tracked(r)'
      BY <1>16
    <2>5. Cardinality(Holding(r)') <= Cardinality(Tracked(r)') /\ Cardinality(Holding(r)') \in Nat
      BY <1>15, <2>4, FS_Subset, FS_CardinalityType
    <2>6. Cardinality(Tracked(r)') \in Nat
      BY <1>15, FS_CardinalityType
    <2>7. Cardinality(DeniedAtZero(r)') \in Nat
      <3>1. DeniedAtZero(r)' \in SUBSET log'
        BY DEF DeniedAtZero
      <3>2. IsFiniteSet(log')
        BY <1>3, FS_AddElement DEF IInv, Ledger
      <3> QED
        BY <3>1, <3>2, FS_Subset, FS_CardinalityType
    <2>8. /\ Cardinality(Holding(r)') <= MaxKeys
          /\ Cardinality(Tracked(r)') <= MaxKeys + Cardinality(DeniedAtZero(r)')
      BY <2>3, <2>5, <2>6, <2>7
    <2> QED
      BY <1>12, <1>13, <1>14, <1>15, <2>8 DEF Table
  <1>19. CASE ~d.ok
    <2>1. Tracked(r)' = table
      BY <1>9, <1>10, <1>19
    <2>2. Holding(r)' \in SUBSET Holding(r)
      BY <1>1, <1>3, <1>9, <1>17, <1>19 DEF Holding
    <2>3. Cardinality(Holding(r)') <= MaxKeys
      <3>1. /\ Cardinality(Holding(r)') <= Cardinality(Holding(r))
            /\ Cardinality(Holding(r)') \in Nat /\ Cardinality(Holding(r)) \in Nat
        <4>1. IsFiniteSet(Holding(r)) /\ Cardinality(Holding(r)) \in Nat
          BY HoldingTracked
        <4> QED
          BY <2>2, <4>1, FS_Subset, FS_CardinalityType
      <3> QED
        BY <3>1 DEF Table
    <2>4. \A a \in log : a.id \in Nat /\ a.id <= checks
      BY <1>0 DEF IInv, Ledger, TypeOK, Decision
    <2>5. IsFiniteSet(DeniedAtZero(r)) /\ Cardinality(DeniedAtZero(r)) \in Nat
      BY DenialsFinite
    <2>6. Cardinality(Tracked(r)) \in Nat /\ Cardinality(Tracked(r)) <= MaxKeys + Cardinality(DeniedAtZero(r))
      BY FS_CardinalityType DEF Table
    <2>7. Cardinality(Tracked(r)') <= MaxKeys + Cardinality(DeniedAtZero(r)')
      <3>1. CASE l = 0
        <4>1. DeniedAtZero(r)' = DeniedAtZero(r) \cup {d} /\ d \notin DeniedAtZero(r)
          BY <1>3, <1>4, <1>17, <1>19, <2>4, <3>1 DEF DeniedAtZero
        <4>2. Cardinality(DeniedAtZero(r)') = Cardinality(DeniedAtZero(r)) + 1
          BY <2>5, <4>1, FS_AddElement
        <4>3. Cardinality(table) <= Cardinality(Tracked(r)) + 1 /\ Cardinality(table) \in Nat
          BY <1>7, <2>6, FS_AddElement, FS_CardinalityType DEF Table
        <4> HIDE DEF table
        <4> QED
          BY <2>1, <2>5, <2>6, <4>2, <4>3
      <3>2. CASE l # 0
        <4>1. DeniedAtZero(r)' = DeniedAtZero(r)
          BY <1>3, <1>17, <1>19, <3>2 DEF DeniedAtZero
        <4>2. Tracked(r)' = Tracked(r)
          BY <1>8, <1>19, <2>1, <3>2
        <4> QED
          BY <2>6, <4>1, <4>2
      <3> QED
        BY <3>1, <3>2
    <2> QED
      BY <1>12, <1>13, <1>14, <1>15, <2>3, <2>7 DEF Table
  <1> QED
    BY <1>18, <1>19

LEMMA NextKeepsTables ==
    ASSUME IInv, NEW r \in Replicas, Table(r), [Next]_vars
    PROVE  Table(r)'
  <1>0. TypeOK
    BY DEF IInv
  <1>1. ASSUME used'[r] = used[r], store'[r] = store[r], checks' \in Nat, checks' >= checks,
               DeniedAtZero(r)' = DeniedAtZero(r)
        PROVE  Table(r)'
    <2>1. Tracked(r)' = Tracked(r) /\ Holding(r)' = Holding(r)
      BY <1>1 DEF Tracked, Holding
    <2>2. \A k \in Keys : used[r][k] \in Nat /\ checks \in Nat
      BY <1>0 DEF TypeOK
    <2>3. \A k \in Keys : used[r][k] <= checks'
      BY <1>1, <2>2 DEF Table
    <2> QED
      BY <1>1, <2>1, <2>3 DEF Table
  <1>2. /\ checks \in Nat /\ checks + 1 \in Nat /\ r \in Windows /\ r # Redis
        /\ DOMAIN store = Windows /\ DOMAIN used = Replicas
        /\ mode \notin {"open", "closed"} \/ mode # r
    BY <1>0 DEF TypeOK, Windows
  <1>11. ASSUME log' = log PROVE DeniedAtZero(r)' = DeniedAtZero(r)
    BY <1>11 DEF DeniedAtZero
  <1>3. CASE Tick
    BY <1>1, <1>2, <1>3, <1>11 DEF Tick
  <1>4. ASSUME NEW k \in Keys, RedisLoses(k) PROVE Table(r)'
    BY <1>1, <1>2, <1>4, <1>11 DEF RedisLoses
  <1>5. ASSUME NEW q \in Replicas, DegradeLocal(q) PROVE Table(r)'
    <2>1. CASE q = r
      BY <1>5, <2>1, LocalKeepsTable
    <2>2. CASE q # r
      <3>1. used'[r] = used[r] /\ store'[r] = store[r] /\ checks' = checks + 1
        BY <1>2, <1>5, <2>2 DEF DegradeLocal
      <3>2. \E d : d.w = q /\ log' = log \cup {d}
        BY <1>5 DEF DegradeLocal
      <3>3. DeniedAtZero(r)' = DeniedAtZero(r)
        BY <2>2, <3>2, AnswerElsewhere
      <3> QED
        BY <1>1, <1>2, <3>1, <3>3
    <2> QED
      BY <2>1, <2>2
  <1>6. ASSUME NEW q \in Replicas, DegradeBlind(q) PROVE Table(r)'
    <2>1. UNCHANGED <<used, store>> /\ checks' = checks + 1 /\ mode \in {"open", "closed"}
      BY <1>6 DEF DegradeBlind
    <2>2. \E d : d.w = mode /\ log' = log \cup {d}
      BY <1>6 DEF DegradeBlind
    <2>3. DeniedAtZero(r)' = DeniedAtZero(r)
      BY <1>2, <2>1, <2>2, AnswerElsewhere
    <2> QED
      BY <1>1, <1>2, <2>1, <2>3
  <1>7. ASSUME NEW q \in Replicas, Restart(q) PROVE Table(r)'
    <2>0. log' = log
      BY <1>7 DEF Restart
    <2>1. CASE q = r
      <3>1. /\ used'[r] = [k \in Keys |-> 0] /\ store'[r] = [k \in Keys |-> {}]
            /\ checks' = checks
        BY <1>2, <1>7, <2>1 DEF Restart
      <3>2. Tracked(r)' = {} /\ Holding(r)' = {}
        BY <3>1 DEF Tracked, Holding
      <3>3. Cardinality(DeniedAtZero(r)') \in Nat
        BY <1>11, <2>0, DenialsFinite
      <3> QED
        BY <1>2, <3>1, <3>2, <3>3, FS_EmptySet DEF Table
    <2>2. CASE q # r
      <3>1. used'[r] = used[r] /\ store'[r] = store[r] /\ checks' = checks
        BY <1>2, <1>7, <2>2 DEF Restart
      <3> QED
        BY <1>1, <1>2, <1>11, <2>0, <3>1
    <2> QED
      BY <2>1, <2>2
  <1>8. ASSUME NEW q \in Replicas, NEW k \in Keys, NEW l \in Limits,
               Check(q, k, l) \/ CheckReplyLost(q, k, l)
        PROVE  Table(r)'
    <2>1. used' = used /\ store'[r] = store[r] /\ checks' = checks + 1
      BY <1>2, <1>8 DEF Check, CheckReplyLost, Script
    <2>2. \E d : d.w = Redis /\ log' = log \cup {d}
      BY <1>8 DEF Check, CheckReplyLost, Script
    <2>3. DeniedAtZero(r)' = DeniedAtZero(r)
      BY <1>2, <2>2, AnswerElsewhere
    <2> QED
      BY <1>1, <1>2, <2>1, <2>3
  <1>9. ASSUME NEW q \in Replicas, NEW k \in Keys, NEW l \in Limits, CheckUnreachable(q, k, l)
        PROVE  Table(r)'
    BY <1>1, <1>2, <1>9, <1>11 DEF CheckUnreachable
  <1>10. CASE UNCHANGED vars
    BY <1>1, <1>2, <1>10, <1>11 DEF vars
  <1> QED
    BY <1>3, <1>4, <1>5, <1>6, <1>7, <1>8, <1>9, <1>10 DEF Next

(* A replica's table never holds slots for more than max_keys keys, however many keys there *)
(* are and whatever their limits; and it never has more keys than that, but for the ones    *)
(* that were denied under a limit of 0 since its last admission: such a check is denied      *)
(* before anything is evicted, with its key already in the table.                           *)
THEOREM TablesBounded == Spec => []TableBounded
  <1> DEFINE Tables == \A r \in Replicas : Table(r)
  <1>1. IInv /\ Tables /\ [Next]_vars => Tables'
    BY NextKeepsTables
  <1>2. Init => Tables
    BY TablesStart
  <1>3. Tables => TableBounded
    BY DEF Table, TableBounded
  <1> HIDE DEF Tables
  <1> QED
    BY <1>1, <1>2, <1>3, Inductive, PTL DEF Spec

-----------------------------------------------------------------------------
(* What a deployment lets through. *)

(* Checks are answered in the order of their ids, with the limit of a route, and admitted *)
(* only by a window that may answer.                                                      *)
Answers ==
    /\ \A a, b \in log : a.id <= b.id => a.t <= b.t
    /\ \A a \in log : a.limit \in Limits
    /\ \A a \in log : a.ok => a.w = Redis \/ (a.w \in Replicas /\ mode = "local") \/ mode = "open"

LEMMA OneMoreAnswer ==
    ASSUME IInv, Answers, UNCHANGED mode, NEW d, log' = log \cup {d}, d.id = checks + 1, d.t = now,
           d.limit \in Limits,
           d.ok => d.w = Redis \/ (d.w \in Replicas /\ mode = "local") \/ mode = "open"
    PROVE  Answers'
  <1>1. \A a \in log : a.id \in Nat /\ a.t \in Int /\ a.id <= checks /\ a.t <= now
    BY DEF IInv, Ledger, TypeOK, Decision
  <1>2. checks \in Nat /\ now \in Nat
    BY DEF IInv, TypeOK
  <1>3. \A a, b \in log' : a.id <= b.id => a.t <= b.t
    BY <1>1, <1>2 DEF Answers
  <1> QED
    BY <1>3 DEF Answers

LEMMA NextAnswers ==
    ASSUME IInv, Answers, [Next]_vars
    PROVE  Answers'
  <1>1. ASSUME UNCHANGED <<mode, log>> PROVE Answers'
    BY <1>1 DEF Answers
  <1>2. ASSUME NEW k \in Keys, NEW l \in Limits, NEW n, NEW answered, Script(k, l, n, answered)
        PROVE  Answers'
    <2> DEFINE d == [id |-> checks + 1, w |-> Redis, key |-> k, gen |-> gen[Redis][k], t |-> now,
                     score |-> n, limit |-> l, ok |-> Admits(Purged(Live(k), n), l),
                     answered |-> answered]
    <2>1. log' = log \cup {d} /\ UNCHANGED mode
      BY <1>2 DEF Script
    <2>2. d.id = checks + 1 /\ d.t = now /\ d.limit \in Limits /\ d.w = Redis
      OBVIOUS
    <2> HIDE DEF d
    <2> QED
      BY <2>1, <2>2, OneMoreAnswer
  <1>3. ASSUME NEW r \in Replicas, pending[r] # Idle PROVE pending[r].limit \in Limits
    <2>1. pending[r] \in [key : Keys, limit : Limits]
      BY <1>3 DEF IInv, TypeOK
    <2> QED
      BY <2>1
  <1>4. ASSUME NEW r \in Replicas, DegradeLocal(r) PROVE Answers'
    <2> DEFINE k == pending[r].key
               l == pending[r].limit
               d == [id |-> checks + 1, w |-> r, key |-> k, gen |-> gen[r][k], t |-> now,
                     score |-> now, limit |-> l, ok |-> Admits(Purged(store[r][k], now), l),
                     answered |-> TRUE]
    <2>1. log' = log \cup {d} /\ UNCHANGED mode /\ pending[r] # Idle /\ mode = "local"
      BY <1>4 DEF DegradeLocal
    <2>2. d.id = checks + 1 /\ d.t = now /\ d.limit = pending[r].limit /\ d.w = r
      OBVIOUS
    <2> HIDE DEF d
    <2> QED
      BY <1>3, <2>1, <2>2, OneMoreAnswer
  <1>5. ASSUME NEW r \in Replicas, DegradeBlind(r) PROVE Answers'
    <2> DEFINE d == [id |-> checks + 1, w |-> mode, key |-> pending[r].key, gen |-> 0, t |-> now,
                     score |-> now, limit |-> pending[r].limit, ok |-> AdmitsBlindly,
                     answered |-> TRUE]
    <2>1. log' = log \cup {d} /\ UNCHANGED mode /\ pending[r] # Idle
      BY <1>5 DEF DegradeBlind
    <2>2. /\ d.id = checks + 1 /\ d.t = now /\ d.limit = pending[r].limit
          /\ d.ok => mode = "open"
      BY DEF AdmitsBlindly
    <2> HIDE DEF d
    <2> QED
      BY <1>3, <2>1, <2>2, OneMoreAnswer
  <1>6. ASSUME NEW r \in Replicas, NEW k \in Keys, NEW l \in Limits,
               Check(r, k, l) \/ CheckReplyLost(r, k, l)
        PROVE  Answers'
    BY <1>2, <1>6 DEF Check, CheckReplyLost
  <1>7. CASE \/ Tick \/ (\E k \in Keys : RedisLoses(k)) \/ (\E r \in Replicas : Restart(r))
             \/ (\E r \in Replicas, k \in Keys, l \in Limits : CheckUnreachable(r, k, l))
             \/ UNCHANGED vars
    BY <1>1, <1>7 DEF Tick, RedisLoses, Restart, CheckUnreachable, vars
  <1> QED
    BY <1>4, <1>5, <1>6, <1>7 DEF Next

LEMMA AnswersAlways == Spec => []Answers
  <1>1. Init => Answers
    BY DEF Init, Answers
  <1>2. IInv /\ Answers /\ [Next]_vars => Answers'
    BY NextAnswers
  <1> QED
    BY <1>1, <1>2, Inductive, PTL DEF Spec

LEMMA BoundFromWindows ==
    ASSUME IsFiniteSet(Replicas), NEW greatest \in Limits, \A l \in Limits : l <= greatest,
           IInv, WindowBound, Answers
    PROVE  OutageBound
  <1> SUFFICES ASSUME NEW a \in log, mode # "open", \A w \in Windows : gen[w][a.key] = 0
               PROVE  LET let_through == {b \in log : /\ b.ok /\ b.answered /\ b.key = a.key
                                                      /\ b.id <= a.id
                                                      /\ b.t > a.t - (Window - Lag - Lead)}
                          most == CHOOSE l \in Limits : \A m \in Limits : m <= l
                      IN  Cardinality(let_through) <=
                            IF mode = "closed" THEN most ELSE most * (1 + Cardinality(Replicas))
    BY DEF OutageBound
  <1> DEFINE L == {b \in log : /\ b.ok /\ b.answered /\ b.key = a.key /\ b.id <= a.id
                               /\ b.t > a.t - (Window - Lag - Lead)}
  <1> DEFINE most == CHOOSE l \in Limits : \A m \in Limits : m <= l
  <1>1. most \in Limits /\ most \in Nat /\ \A l \in Limits : l <= most
    <2>1. \E l \in Limits : \A m \in Limits : m <= l
      OBVIOUS
    <2> QED
      BY <2>1
  <1> HIDE DEF most
  <1>2. /\ log \subseteq Decision /\ IsFiniteSet(log)
        /\ \A b \in Decision : b.id \in Nat /\ b.t \in Int /\ b.gen \in Nat
    BY DEF IInv, TypeOK, Ledger, Decision
  <1>3. L \subseteq log /\ IsFiniteSet(L)
    <2>1. L \in SUBSET log
      OBVIOUS
    <2> QED
      BY <1>2, <2>1, FS_Subset
  <1>4. \A b \in L : /\ b \in log /\ b.ok /\ b.key = a.key
                     /\ b.t > a.t - (Window - Lag - Lead) /\ b.t <= a.t
    BY DEF Answers
  <1>5. \A b \in L : b.w = Redis \/ (b.w \in Replicas /\ mode = "local")
    BY DEF Answers
  <1>6. \A b \in L : b.w \in Windows => b.gen = 0
    BY <1>2 DEF IInv, Ledger
  <1> HIDE DEF L
  <1>7. \A w \in Windows : Cardinality({b \in L : b.w = w}) <= most
    <2> SUFFICES ASSUME NEW w \in Windows PROVE Cardinality({b \in L : b.w = w}) <= most
      OBVIOUS
    <2> DEFINE mine == {b \in L : b.w = w}
    <2>1. IsFiniteSet(mine)
      <3>1. mine \in SUBSET L
        OBVIOUS
      <3> QED
        BY <1>3, <3>1, FS_Subset
    <2>2. \A b \in mine : b \in L /\ b.w = w
      OBVIOUS
    <2>3. CASE mine = {}
      <3>1. Cardinality(mine) = 0
        BY <2>3, FS_EmptySet
      <3> QED
        BY <1>1, <3>1
    <2>4. CASE mine # {}
      <3> DEFINE f == [b \in mine |-> b.id]
      <3>1. f \in [mine -> Int]
        BY <1>2, <1>4
      <3>2. PICK last \in mine : \A b \in mine : b.id <= last.id
        <4>1. \E x \in mine : \A b \in mine : f[b] <= f[x]
          <5> HIDE DEF f, mine
          <5> QED
            BY <2>1, <2>4, <3>1, Greatest
        <4> QED
          BY <4>1
      <3> HIDE DEF mine
      <3>3. /\ last \in log /\ last.ok /\ last.w = w /\ last.limit \in Limits
            /\ last.key = a.key /\ last.gen = 0 /\ last.t <= a.t /\ last.t \in Int /\ a.t \in Int
        BY <1>2, <1>4, <1>6, <2>2 DEF Answers
      <3>4. Cardinality(GrantsTo(last, Span[w])) <= last.limit
        BY <3>3 DEF WindowBound
      <3>5. Span[w] \in Int /\ Window - Lag - Lead \in Int /\ Window - Lag - Lead <= Span[w]
        BY DEF Span
      <3>6. \A b \in mine : b.t > last.t - Span[w]
        <4> SUFFICES ASSUME NEW b \in mine PROVE b.t > last.t - Span[w]
          OBVIOUS
        <4>1. b.t \in Int /\ b.t > a.t - (Window - Lag - Lead)
          BY <1>2, <1>4, <2>2
        <4> QED
          BY <3>3, <3>5, <4>1
      <3>7. mine \in SUBSET GrantsTo(last, Span[w])
        BY <1>4, <1>6, <2>2, <3>2, <3>3, <3>6 DEF GrantsTo
      <3>8. IsFiniteSet(GrantsTo(last, Span[w]))
        <4>1. GrantsTo(last, Span[w]) \in SUBSET log
          BY DEF GrantsTo
        <4> QED
          BY <1>2, <4>1, FS_Subset
      <3>9. /\ Cardinality(mine) <= Cardinality(GrantsTo(last, Span[w]))
            /\ Cardinality(mine) \in Nat /\ Cardinality(GrantsTo(last, Span[w])) \in Nat
        BY <2>1, <3>7, <3>8, FS_Subset, FS_CardinalityType
      <3>10. last.limit <= most /\ last.limit \in Nat
        BY <1>1, <3>3
      <3>11. Cardinality(mine) <= most
        BY <1>1, <3>4, <3>9, <3>10
      <3> QED
        BY <3>11 DEF mine
    <2> QED
      BY <2>3, <2>4
  <1> DEFINE W == IF mode = "closed" THEN {Redis} ELSE Windows
  <1> DEFINE h == [b \in L |-> b.w]
  <1>8. IsFiniteSet(W) /\ Cardinality(W) = IF mode = "closed" THEN 1 ELSE 1 + Cardinality(Replicas)
    <2>1. IsFiniteSet({Redis}) /\ Cardinality({Redis}) = 1
      BY FS_Singleton
    <2>2. Windows = Replicas \cup {Redis} /\ Redis \notin Replicas
      BY DEF Windows
    <2>3. /\ IsFiniteSet(Windows) /\ Cardinality(Windows) = Cardinality(Replicas) + 1
          /\ Cardinality(Replicas) \in Nat
      BY <2>2, FS_AddElement, FS_CardinalityType
    <2> QED
      BY <2>1, <2>3
  <1>9. h \in [L -> W]
    BY <1>5 DEF Windows
  <1>10. \A w \in W : Cardinality({b \in L : h[b] = w}) <= most
    <2> SUFFICES ASSUME NEW w \in W PROVE Cardinality({b \in L : h[b] = w}) <= most
      OBVIOUS
    <2>1. w \in Windows
      BY DEF Windows
    <2>2. {b \in L : h[b] = w} = {b \in L : b.w = w}
      OBVIOUS
    <2> HIDE DEF h
    <2> QED
      BY <1>7, <2>1, <2>2
  <1> HIDE DEF h, W
  <1>11. Cardinality(L) <= most * Cardinality(W)
    BY <1>1, <1>3, <1>8, <1>9, <1>10, Boxes
  <1>12. Cardinality(L) <= IF mode = "closed" THEN most ELSE most * (1 + Cardinality(Replicas))
    BY <1>1, <1>8, <1>11
  <1> QED
    BY <1>12 DEF L, most

(* With a greatest limit, a deployment lets through that many requests of one key within the *)
(* span in closed mode, and that many for every replica more in local mode, as long as no    *)
(* window has lost its content.                                                              *)
THEOREM OutageBounded ==
    ASSUME IsFiniteSet(Replicas), NEW greatest \in Limits, \A l \in Limits : l <= greatest
    PROVE  Spec => []OutageBound
  <1>1. IInv /\ WindowBound /\ Answers => OutageBound
    BY BoundFromWindows
  <1> QED
    BY <1>1, AnswersAlways, Inductive, LimitHolds, PTL

(* With no limit of 0 anywhere, a replica's table never holds more than max_keys keys. *)
COROLLARY TablesWithinMaxKeys ==
    ASSUME 0 \notin Limits
    PROVE  Spec => [](\A r \in Replicas : Cardinality(Tracked(r)) <= MaxKeys)
  <1>1. TableBounded /\ Answers => \A r \in Replicas : Cardinality(Tracked(r)) <= MaxKeys
    <2> SUFFICES ASSUME TableBounded, Answers, NEW r \in Replicas PROVE Cardinality(Tracked(r)) <= MaxKeys
      OBVIOUS
    <2>1. DeniedAtZero(r) = {}
      BY DEF DeniedAtZero, Answers
    <2>2. Cardinality(DeniedAtZero(r)) = 0
      BY <2>1, FS_EmptySet
    <2>3. Cardinality(Tracked(r)) <= MaxKeys + 0
      BY <2>2 DEF TableBounded
    <2> QED
      BY <2>3
  <1> QED
    BY <1>1, TablesBounded, AnswersAlways, PTL

-----------------------------------------------------------------------------
(* What a denied caller is told. *)
LEMMA RetryAfterIsDue ==
    ASSUME IInv, NEW k \in Keys, NEW l \in Limits \ {0},
           Cardinality(Purged(Live(k), now)) = l
    PROVE  LET kept == Purged(Live(k), now)
               r == RetryAfter(kept, now)
           IN  /\ r > 0
               /\ Admits(Purged(kept, now + r), l)
               /\ ~Admits(Purged(kept, now + r - 1), l)
  <1> DEFINE kept == Purged(Live(k), now)
             r == RetryAfter(kept, now)
  <1>1. l \in Nat /\ l > 0 /\ now \in Int
    BY DEF IInv, TypeOK
  <1>2. kept \subseteq log /\ IsFiniteSet(kept) /\ \A e \in kept : e.score > now - Window
    <2>1. kept \subseteq store[Redis][k] /\ \A e \in kept : e.score > now - Window
      BY DEF Purged, Live
    <2>2. kept \in SUBSET log
      BY <2>1 DEF IInv, HoldsOnlyGrants, Windows
    <2> QED
      BY <2>1, <2>2, FS_Subset DEF IInv, Ledger
  <1>3. \A e \in kept : e.score \in Int
    BY <1>2 DEF IInv, TypeOK, Decision
  <1>4. Cardinality(kept) = l
    OBVIOUS
  <1>5. r = RetryAfter(kept, now)
    OBVIOUS
  <1> HIDE DEF kept, r
  <1>6. kept # {}
    BY <1>1, <1>4, FS_EmptySet
  <1> DEFINE oldest == CHOOSE e \in kept : \A f \in kept : e.score <= f.score
  <1>7. oldest \in kept /\ \A f \in kept : oldest.score <= f.score
    <2> DEFINE age == [e \in kept |-> e.score]
    <2>1. age \in [kept -> Int]
      BY <1>3
    <2>2. \E e \in kept : \A f \in kept : age[e] <= age[f]
      <3> HIDE DEF age
      <3> QED
        BY <1>2, <1>6, <2>1, Least
    <2>3. \E e \in kept : \A f \in kept : e.score <= f.score
      BY <2>2
    <2> QED
      BY <2>3
  <1>8. r = IF oldest.score + Window - now > 0 THEN oldest.score + Window - now ELSE 0
    BY <1>5, <1>6 DEF RetryAfter
  <1> HIDE DEF oldest
  <1>9. oldest.score \in Int /\ r = oldest.score + Window - now /\ r > 0
    BY <1>1, <1>2, <1>3, <1>7, <1>8
  <1>10. Cardinality(Purged(kept, now + r)) < l
    <2>1. Purged(kept, now + r) \in SUBSET (kept \ {oldest})
      BY <1>1, <1>3, <1>9 DEF Purged
    <2>2. IsFiniteSet(kept \ {oldest}) /\ Cardinality(kept \ {oldest}) = l - 1
      BY <1>2, <1>4, <1>7, FS_RemoveElement
    <2>3. /\ Cardinality(Purged(kept, now + r)) <= Cardinality(kept \ {oldest})
          /\ Cardinality(Purged(kept, now + r)) \in Nat
      BY <2>1, <2>2, FS_Subset, FS_CardinalityType
    <2> QED
      BY <1>1, <2>2, <2>3
  <1>11. Purged(kept, now + r - 1) = kept
    BY <1>1, <1>3, <1>7, <1>9 DEF Purged
  <1>12. /\ r > 0
         /\ Admits(Purged(kept, now + r), l)
         /\ ~Admits(Purged(kept, now + r - 1), l)
    BY <1>1, <1>4, <1>9, <1>10, <1>11 DEF Admits
  <1> QED
    BY <1>12 DEF kept, r

(* A denied caller's retry_after_ms names, by its own clock and with no grant in between, *)
(* the first instant at which a window that is exactly full admits again.                 *)
THEOREM RetriesAreDue == Spec => []RetryAfterExact
  <1>1. IInv => RetryAfterExact
    BY RetryAfterIsDue DEF RetryAfterExact
  <1> QED
    BY <1>1, Inductive, PTL

=============================================================================
