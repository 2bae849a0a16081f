----------------------------- MODULE RateLimiter -----------------------------
(***************************************************************************)
(* The gateway's rate limiter (gateway/app/middleware/rate_limit.py): a    *)
(* sliding window in Redis that every gateway replica shares, and, when    *)
(* Redis cannot be reached, the configured degraded mode, which by default *)
(* is a bounded LRU table of per-process windows.                          *)
(*                                                                         *)
(* A slot taken in a window and the check it answers are one record; `log' *)
(* is the history of all of them and no action reads it.  A window's       *)
(* generation counts how often it lost its content (Redis evicted the key  *)
(* or came back empty, the LRU table dropped it, the process restarted).   *)
(***************************************************************************)
EXTENDS Integers, FiniteSets

CONSTANTS Replicas,    (* gateway processes                                     *)
          Redis,       (* names the shared window; not a replica                *)
          Keys,        (* "rl:<route>:<client>"                                 *)
          Limits,      (* the rpm limits routes are configured with             *)
          Modes,       (* settings.rate_limit_degraded_mode of the deployment   *)
          Window,      (* window_ms, and the 60 s of the local window           *)
          ExpirySlack, (* the 10 s that PEXPIRE adds to the window              *)
          Lag,         (* a clock reading is at most so old when the script runs *)
          Lead,        (* and at most so far ahead (skew between hosts)         *)
          MaxKeys,     (* _LocalWindow max_keys                                 *)
          MaxNow,      (* bound: real time                                      *)
          MaxChecks,   (* bound: checks answered                                *)
          MaxLosses    (* bound: losses of one window by restart or eviction    *)

Windows == {Redis} \cup Replicas

ASSUME ConstantsOK ==
    /\ Redis \notin Replicas
    /\ Limits \subseteq Nat
    /\ Modes \subseteq {"local", "open", "closed"}
    /\ {"open", "closed"} \cap Windows = {}
    /\ Window \in Nat /\ ExpirySlack \in Nat /\ Lag \in Nat /\ Lead \in Nat
    /\ MaxKeys \in Nat \ {0}
    /\ MaxNow \in Nat /\ MaxChecks \in Nat /\ MaxLosses \in Nat

VARIABLES now,      (* real time                                               *)
          mode,     (* the configured degraded mode                            *)
          store,    (* store[w][k]: the slots window w holds for key k         *)
          expires,  (* expires[k]: when Redis drops key k if nobody touches it *)
          used,     (* used[r][k]: id of r's last local check of k, 0 if none in the table *)
          gen,      (* gen[w][k]: how often window w lost key k                *)
          pending,  (* pending[r]: the check r must answer without Redis       *)
          checks,   (* number of checks answered                               *)
          log       (* every check answered, by which window and how           *)

vars == <<now, mode, store, expires, used, gen, pending, checks, log>>

Idle == [key |-> "none", limit |-> 0]

(* One answered check: w is the window that answered it (or the mode that did *)
(* without one), t real time, score the time written with the slot; answered  *)
(* is FALSE for a script whose reply never reached the replica.               *)
Decision == [id : Nat, w : Windows \cup {"open", "closed"}, key : Keys, gen : Nat, t : Int,
             score : Int, limit : Nat, ok : BOOLEAN, answered : BOOLEAN]

TypeOK ==
    /\ now \in Nat
    /\ mode \in Modes
    /\ store \in [Windows -> [Keys -> SUBSET Decision]]
    /\ expires \in [Keys -> Nat]
    /\ used \in [Replicas -> [Keys -> Nat]]
    /\ gen \in [Windows -> [Keys -> Nat]]
    /\ pending \in [Replicas -> [key : Keys, limit : Limits] \cup {Idle}]
    /\ checks \in Nat
    /\ log \subseteq Decision

Init ==
    /\ now = 0
    /\ mode \in Modes
    /\ store = [w \in Windows |-> [k \in Keys |-> {}]]
    /\ expires = [k \in Keys |-> 0]
    /\ used = [r \in Replicas |-> [k \in Keys |-> 0]]
    /\ gen = [w \in Windows |-> [k \in Keys |-> 0]]
    /\ pending = [r \in Replicas |-> Idle]
    /\ checks = 0
    /\ log = {}

-----------------------------------------------------------------------------
(* The Lua script, run at real time `now' with the caller's clock reading n. *)

(* PEXPIRE has dropped the key by now. *)
Live(k) == IF now >= expires[k] THEN {} ELSE store[Redis][k]

PurgedTooLate(S, n) == {e \in S : e.score >= n - Window}    \* mutant: keeps the boundary
PurgedTooEarly(S, n) == {e \in S : e.score > n - Window + 1} \* mutant: frees a slot early

(* ZREMRANGEBYSCORE key 0 n-window, or popping hits <= cutoff: the boundary leaves. *)
Purged(S, n) == {e \in S : e.score > n - Window}

RetryAfterNewest(S, n) ==                                   \* mutant: reads the wrong end
    IF S = {} THEN Window
    ELSE LET newest == CHOOSE e \in S : \A f \in S : e.score >= f.score
             due == newest.score + Window - n
         IN  IF due > 0 THEN due ELSE 0

(* retry_after_ms of a denial: when the oldest slot leaves the window. *)
RetryAfter(S, n) ==
    IF S = {} THEN Window
    ELSE LET oldest == CHOOSE e \in S : \A f \in S : e.score <= f.score
             due == oldest.score + Window - n
         IN  IF due > 0 THEN due ELSE 0

AdmitsOneMore(S, l) == Cardinality(S) <= l                  \* mutant: off by one

(* count < limit *)
Admits(S, l) == Cardinality(S) < l

SlotsAlways(S, d) == S \cup {d}                              \* mutant: ZADD before ZCARD

(* ZADD, but a denied check is never written. *)
Slots(S, d) == IF d.ok THEN S \cup {d} ELSE S

Script(k, l, n, answered) ==
    LET kept == Purged(Live(k), n)
        d == [id |-> checks + 1, w |-> Redis, key |-> k, gen |-> gen[Redis][k], t |-> now,
              score |-> n, limit |-> l, ok |-> Admits(kept, l), answered |-> answered]
    IN  /\ checks < MaxChecks
        /\ store' = [store EXCEPT ![Redis][k] = Slots(kept, d)]
        /\ expires' = [expires EXCEPT ![k] = now + Window + ExpirySlack]
        /\ checks' = checks + 1
        /\ log' = log \cup {d}
        /\ UNCHANGED <<now, mode, used, gen>>

-----------------------------------------------------------------------------
(* One call of check_rate_limit_detailed by replica r. *)

Readings == (now - Lag)..(now + Lead)

Check(r, k, l) ==
    /\ pending[r] = Idle
    /\ \E n \in Readings : Script(k, l, n, TRUE)
    /\ UNCHANGED pending

(* The script ran, but the reply was lost: the client raises all the same. *)
CheckReplyLost(r, k, l) ==
    /\ pending[r] = Idle
    /\ \E n \in Readings : Script(k, l, n, FALSE)
    /\ pending' = [pending EXCEPT ![r] = [key |-> k, limit |-> l]]

(* Redis could not be reached at all. *)
CheckUnreachable(r, k, l) ==
    /\ pending[r] = Idle
    /\ checks < MaxChecks
    /\ pending' = [pending EXCEPT ![r] = [key |-> k, limit |-> l]]
    /\ UNCHANGED <<now, mode, store, expires, used, gen, checks, log>>

-----------------------------------------------------------------------------
(* _degraded_decision: the policy for a check that Redis did not answer. *)

Tracked(r) == {k \in Keys : used[r][k] > 0}

EvictedLate(table, last) ==                                 \* mutant: off by one
    {x \in table : Cardinality({y \in table : last[y] > last[x]}) > MaxKeys}

(* popitem(last=False) while the table exceeds max_keys: the least recently   *)
(* used keys go, among the keys of `table' whose last uses are `last'.        *)
Evicted(table, last) ==
    {x \in table : Cardinality({y \in table : last[y] > last[x]}) >= MaxKeys}

DegradeLocal(r) ==
    LET k == pending[r].key
        l == pending[r].limit
        kept == Purged(store[r][k], now)
        d == [id |-> checks + 1, w |-> r, key |-> k, gen |-> gen[r][k], t |-> now,
              score |-> now, limit |-> l, ok |-> Admits(kept, l), answered |-> TRUE]
        last == [used[r] EXCEPT ![k] = checks + 1]
        gone == IF d.ok THEN Evicted(Tracked(r) \cup {k}, last) ELSE {}
    IN  /\ pending[r] # Idle
        /\ mode = "local"
        /\ checks < MaxChecks
        /\ store' = [store EXCEPT ![r] = [x \in Keys |-> IF x \in gone THEN {}
                                                         ELSE IF x = k THEN Slots(kept, d)
                                                         ELSE @[x]]]
        /\ used' = [used EXCEPT ![r] = [x \in Keys |-> IF x \in gone THEN 0 ELSE last[x]]]
        /\ gen' = [gen EXCEPT ![r] = [x \in Keys |-> IF x \in gone THEN @[x] + 1 ELSE @[x]]]
        /\ pending' = [pending EXCEPT ![r] = Idle]
        /\ checks' = checks + 1
        /\ log' = log \cup {d}
        /\ UNCHANGED <<now, mode, expires>>

FailsOpen == mode \in {"open", "closed"}                     \* mutant: closed fails open

(* "open" admits and "closed" rejects without looking at any window. *)
AdmitsBlindly == mode = "open"

DegradeBlind(r) ==
    LET d == [id |-> checks + 1, w |-> mode, key |-> pending[r].key, gen |-> 0, t |-> now,
              score |-> now, limit |-> pending[r].limit, ok |-> AdmitsBlindly,
              answered |-> TRUE]
    IN  /\ pending[r] # Idle
        /\ mode \in {"open", "closed"}
        /\ checks < MaxChecks
        /\ pending' = [pending EXCEPT ![r] = Idle]
        /\ checks' = checks + 1
        /\ log' = log \cup {d}
        /\ UNCHANGED <<now, mode, store, expires, used, gen>>

-----------------------------------------------------------------------------
(* The environment: time, a Redis that loses the key, a replica that restarts. *)

Tick == /\ now < MaxNow
        /\ now' = now + 1
        /\ UNCHANGED <<mode, store, expires, used, gen, pending, checks, log>>

(* allkeys-lru evicts the window, or Redis comes back without its data. *)
RedisLoses(k) ==
    /\ gen[Redis][k] < MaxLosses
    /\ store' = [store EXCEPT ![Redis][k] = {}]
    /\ gen' = [gen EXCEPT ![Redis][k] = @ + 1]
    /\ UNCHANGED <<now, mode, expires, used, pending, checks, log>>

Restart(r) ==
    /\ \A k \in Keys : gen[r][k] < MaxLosses
    /\ store' = [store EXCEPT ![r] = [k \in Keys |-> {}]]
    /\ used' = [used EXCEPT ![r] = [k \in Keys |-> 0]]
    /\ gen' = [gen EXCEPT ![r] = [k \in Keys |-> @[k] + 1]]
    /\ pending' = [pending EXCEPT ![r] = Idle]
    /\ UNCHANGED <<now, mode, expires, checks, log>>

Next ==
    \/ Tick
    \/ \E k \in Keys : RedisLoses(k)
    \/ \E r \in Replicas :
          \/ DegradeLocal(r)
          \/ DegradeBlind(r)
          \/ Restart(r)
          \/ \E k \in Keys, l \in Limits :
                Check(r, k, l) \/ CheckReplyLost(r, k, l) \/ CheckUnreachable(r, k, l)

Spec == Init /\ [][Next]_vars

-----------------------------------------------------------------------------
(* The interval of real time in which a window's grants surely count, and the *)
(* one in which they may: the shared window pays for its callers' clocks.     *)
Span == [w \in Windows |-> IF w = Redis THEN Window - Lag - Lead ELSE Window]
Reach == [w \in Windows |-> IF w = Redis THEN Window + Lag + Lead ELSE Window]

(* The grants by the same window, in the same generation, in the d units to a. *)
GrantsTo(a, d) == {b \in log : /\ b.ok /\ b.w = a.w /\ b.key = a.key /\ b.gen = a.gen
                               /\ b.id <= a.id
                               /\ b.t > a.t - d}

(* No window grants more than the limit of any grant in the Span that ends with it: *)
(* "two replicas cannot both observe count < limit and both admit" (rate_limit.py:7). *)
WindowBound ==
    \A a \in log : a.ok /\ a.w \in Windows => Cardinality(GrantsTo(a, Span[a.w])) <= a.limit

(* A denial is only ever due to `limit' genuine grants within Reach: denied traffic *)
(* never extends its own penalty (rate_limit.py:10-13), a purge never comes too late. *)
DenialJustified ==
    \A a \in log : ~a.ok /\ a.w \in Windows => Cardinality(GrantsTo(a, Reach[a.w])) >= a.limit

(* What retry_after_ms tells a caller whose window is exactly full: by the caller's own *)
(* clock, with no grant in between, one unit earlier it still is and at that time it is *)
(* not (RateLimitDecision.retry_after_seconds only rounds this up).                     *)
RetryAfterExact ==
    \A k \in Keys, l \in Limits \ {0} :
        LET kept == Purged(Live(k), now)
            r == RetryAfter(kept, now)
        IN  Cardinality(kept) = l =>
               /\ r > 0
               /\ Admits(Purged(kept, now + r), l)
               /\ ~Admits(Purged(kept, now + r - 1), l)

(* The requests one deployment lets through in any Span, losses aside: the shared  *)
(* limit in closed mode, and one more window per replica in local mode (open mode  *)
(* promises nothing).  Callers are charged by what they were told, so a script     *)
(* whose reply was lost is not counted.                                            *)
OutageBound ==
    \A a \in log :
        LET let_through == {b \in log : /\ b.ok /\ b.answered /\ b.key = a.key
                                        /\ b.id <= a.id /\ b.t > a.t - (Window - Lag - Lead)}
            most == CHOOSE l \in Limits : \A m \in Limits : m <= l
        IN  (mode # "open" /\ \A w \in Windows : gen[w][a.key] = 0) =>
               Cardinality(let_through) <=
                  IF mode = "closed" THEN most ELSE most * (1 + Cardinality(Replicas))

(* The keys r's table has a window with slots for. *)
Holding(r) == {k \in Keys : store[r][k] # {}}

(* The checks under a limit of 0 that r denied since it last admitted one. *)
DeniedAtZero(r) == {a \in log : /\ a.w = r /\ a.limit = 0
                                /\ \A b \in log : b.w = r /\ b.ok => b.id < a.id}

(* "Bounded on purpose" (rate_limit.py:100): a local table never holds slots for more than *)
(* max_keys keys, and no more keys than that, but for those it denied under a limit of 0,  *)
(* which put their key in the table and evict nothing, until the next one it admits.       *)
TableBounded ==
    \A r \in Replicas :
        /\ Cardinality(Holding(r)) <= MaxKeys
        /\ Cardinality(Tracked(r)) <= MaxKeys + Cardinality(DeniedAtZero(r))

(* Why the bounds hold, and inductive: ids are unique and in order, a window holds   *)
(* only its own live grants, no grant that still counts has left it, and a slot's    *)
(* score is within the clock bounds of the real time it was taken.                   *)
Ledger ==
    /\ IsFiniteSet(log)
    /\ \A a \in log : a.id <= checks /\ a.t <= now
    /\ \A a, b \in log : a.id = b.id => a = b
    /\ \A a \in log : a.w \in Windows => a.gen <= gen[a.w][a.key]

Scores ==
    \A a \in log : a.w \in Windows =>
        IF a.w = Redis THEN a.t - Lag <= a.score /\ a.score <= a.t + Lead
                       ELSE a.score = a.t

HoldsOnlyGrants ==
    \A w \in Windows, k \in Keys : \A e \in store[w][k] :
        e \in log /\ e.ok /\ e.w = w /\ e.key = k /\ e.gen = gen[w][k]

HoldsEveryGrant ==
    \A a \in log :
        (a.w \in Windows /\ a.ok /\ a.gen = gen[a.w][a.key] /\ a.t > now - Span[a.w]) =>
            a \in store[a.w][a.key]

NotExpiredEarly ==
    \A k \in Keys : \A e \in store[Redis][k] : e.t + Window + ExpirySlack <= expires[k]

IInv == TypeOK /\ Ledger /\ Scores /\ HoldsOnlyGrants /\ HoldsEveryGrant /\ NotExpiredEarly

(* The limiter implements the abstract one, for every window it uses. *)
Abs == INSTANCE WindowLimiter WITH log <- {d \in log : d.w \in Windows}
RefinesWindowLimiter == Abs!AbsSpec

=============================================================================
