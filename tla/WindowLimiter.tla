---------------------------- MODULE WindowLimiter ----------------------------
(***************************************************************************)
(* What a family of sliding-window limiters promises, whatever it stores.  *)
(* Every window w answers checks of a key against a limit.  It may grant   *)
(* only while fewer than `limit' grants lie in the last Span[w] units, and *)
(* may deny only while at least `limit' grants lie in the last Reach[w]    *)
(* units.  A window may forget a key (its generation goes up): grants of   *)
(* an earlier generation no longer count.                                  *)
(***************************************************************************)
EXTENDS Integers, FiniteSets

CONSTANTS Windows,  (* the windows that answer checks                       *)
          Keys,     (* what is limited: one key per route and client        *)
          Span,     (* [Windows -> Int]: how far back a grant surely counts *)
          Reach     (* [Windows -> Int]: how far back a grant may count     *)

VARIABLES now,      (* real time                                            *)
          gen,      (* [Windows -> [Keys -> Nat]]: how often w forgot k     *)
          log       (* the checks answered so far                           *)

absVars == <<now, gen, log>>

(* The grants of w to k that still count and are less than d units old. *)
Grants(w, k, d) == {b \in log : /\ b.ok
                                /\ b.w = w
                                /\ b.key = k
                                /\ b.gen = gen[w][k]
                                /\ b.t > now - d}

AbsInit == /\ now = 0
           /\ gen = [w \in Windows |-> [k \in Keys |-> 0]]
           /\ log = {}

AbsTick == /\ now' > now
           /\ UNCHANGED <<gen, log>>

(* The keys that w forgets in this step, if any; the other windows forget nothing. *)
Forgetting(w) == /\ gen' \in [Windows -> [Keys -> Nat]]
                 /\ \A k \in Keys : gen'[w][k] >= gen[w][k]
                 /\ \A v \in Windows \ {w} : gen'[v] = gen[v]

(* Window w answers one check of key k, and may forget keys as it does so. *)
AbsDecide(w, k) ==
    /\ \E d \in log' :
          /\ d.w = w /\ d.key = k /\ d.gen = gen[w][k] /\ d.t = now
          /\ \A b \in log : b.id # d.id
          /\ IF d.ok THEN Cardinality(Grants(w, k, Span[w])) < d.limit
                     ELSE Cardinality(Grants(w, k, Reach[w])) >= d.limit
          /\ log' = log \cup {d}
    /\ Forgetting(w)
    /\ UNCHANGED now

AbsForget(w) == Forgetting(w) /\ UNCHANGED <<now, log>>

AbsNext == \/ AbsTick
           \/ \E w \in Windows : AbsForget(w) \/ \E k \in Keys : AbsDecide(w, k)

AbsSpec == AbsInit /\ [][AbsNext]_absVars

=============================================================================
