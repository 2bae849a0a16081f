-------------------------- MODULE AgentSessionProofs --------------------------
(***************************************************************************)
(* AgentSession's invariants hold for any number of sessions, calls, steps *)
(* and tokens.  A step belongs to the service, to one session or to all    *)
(* sessions at once; what the service has concluded stays concluded        *)
(* (LEMMA ServiceKeeps), so a recorded result stays backed.                *)
(***************************************************************************)
EXTENDS AgentSession, TLAPS

(* What the service does keeps its own invariant, and what it concluded. *)
LEMMA ConcludedKeeps ==
  ASSUME ServiceInv, NEW c \in Calls, given[c].state # "ended",
         NEW t \in Tools \cup {Nobody}, NEW from \in Calls \cup {Nobody}, NEW res \in {"none", "ok", "error"},
         NEW state \in {"open", "ended"},
         given' = [given EXCEPT ![c] = [state |-> state, tool |-> t, from |-> from, res |-> res]],
         effects \subseteq effects', effects' \subseteq effects \cup {c},
         res = "ok" => Own(from, t)', res = "ok" \/ from # Nobody => state = "ended"
  PROVE  /\ ServiceInv'
         /\ \A b \in Calls : given[b].state = "ended" => given'[b] = given[b]
<1>1. /\ given'[c] = [state |-> state, tool |-> t, from |-> from, res |-> res]
      /\ given' \in [Calls -> Given] /\ effects' \subseteq Calls
      /\ \A b \in Calls \ {c} : given'[b] = given[b]
  BY DEF ServiceInv, ServiceTypeOK, Given
<1>2. ASSUME NEW b, NEW u, Own(b, u) PROVE Own(b, u)'
  <2>1. b # c
    BY <1>2, NobodyIsNoCall DEF Own, ServiceInv, Founded
  <2> QED BY <1>1, <1>2, <2>1 DEF Own
<1>3. Founded'
  <2> SUFFICES ASSUME NEW b \in Calls
               PROVE  /\ given'[b].res = "ok" => Own(given[b].from, given[b].tool)'
                      /\ given'[b].res = "ok" \/ given'[b].from # Nobody => given'[b].state = "ended"
                      /\ given'[b].state = "idle" => b \notin effects'
    BY DEF Founded
  <2>1. CASE b = c
    BY <1>1, <2>1
  <2>2. CASE b # c
    BY <1>1, <1>2, <2>2 DEF ServiceInv, Founded
  <2> QED BY <2>1, <2>2
<1> QED BY <1>1, <1>3 DEF ServiceInv, ServiceTypeOK

LEMMA ServiceKeeps ==
  ASSUME ServiceInv, [ServiceNext]_serviceVars
  PROVE  /\ ServiceInv'
         /\ \A b \in Calls : given[b].state = "ended" => given'[b] = given[b]
<1> USE DEF ServiceInv, ServiceTypeOK
<1>1. CASE UNCHANGED serviceVars
  BY <1>1 DEF serviceVars, Founded, Own
<1>2. CASE GoDown
  <2>1. ASSUME NEW b \in Calls
        PROVE  /\ given'[b] \in Given /\ given'[b].tool = given[b].tool /\ given'[b].from = given[b].from
               /\ given[b].state = "open" => given'[b].state = "ended" /\ given'[b].res = "error"
               /\ given[b].state # "open" => given'[b] = given[b]
    BY <1>2 DEF GoDown, Given
  <2>2. given' \in [Calls -> Given] /\ effects' = effects
    BY <1>2, <2>1 DEF GoDown
  <2>3. ASSUME NEW b, NEW u, Own(b, u) PROVE Own(b, u)'
    BY <2>1, <2>2, <2>3 DEF Own, Founded
  <2>4. Founded'
    BY <2>1, <2>2, <2>3 DEF Founded
  <2> QED BY <2>1, <2>2, <2>4
<1>3. ASSUME NEW c \in Calls, TakeEffect(c)
      PROVE  ServiceInv' /\ \A b \in Calls : given[b].state = "ended" => given'[b] = given[b]
  BY <1>3 DEF TakeEffect, Founded, Own
<1>4. ASSUME NEW c \in Calls, NEW t \in Tools, TakeUp(c, t)
      PROVE  ServiceInv' /\ \A b \in Calls : given[b].state = "ended" => given'[b] = given[b]
  BY <1>4, ConcludedKeeps DEF TakeUp
<1>5. ASSUME NEW c \in Calls, NEW t \in Tools \cup {Nobody}, Refuse(c, t)
      PROVE  ServiceInv' /\ \A b \in Calls : given[b].state = "ended" => given'[b] = given[b]
  BY <1>5, ConcludedKeeps DEF Refuse, Concluded
<1>6. ASSUME NEW c \in Calls, NEW from \in {c, Nobody}, NEW res \in {"ok", "error"}, Answer(c, from, res)
      PROVE  ServiceInv' /\ \A b \in Calls : given[b].state = "ended" => given'[b] = given[b]
  <2>1. PICK t \in Tools \cup {Nobody} : t = given[c].tool
    BY DEF Given
  <2>2. /\ given' = [given EXCEPT ![c] = [state |-> "ended", tool |-> t, from |-> from, res |-> res]]
        /\ given[c].state # "ended"
        /\ res = "ok" => from = c
    BY <1>6, <2>1 DEF Answer, Concluded
  <2>3. /\ effects \subseteq effects' /\ effects' \subseteq effects \cup {c}
        /\ from = c => c \in effects'
    BY <1>6 DEF Answer
  <2>4. res = "ok" => Own(from, t)'
    BY <2>2, <2>3 DEF Own
  <2> QED BY <2>2, <2>3, <2>4, ConcludedKeeps
<1>7. ASSUME NEW c \in Calls, NEW t \in Tools, NEW b \in Calls, Recall(c, t, b)
      PROVE  ServiceInv' /\ \A d \in Calls : given[d].state = "ended" => given'[d] = given[d]
  <2>1. given[c].state # "ended" /\ Own(b, t) /\ effects' = effects
    BY <1>7 DEF Recall
  <2>2. b # c
    BY <2>1, NobodyIsNoCall DEF Own, Founded
  <2>3. given' = [given EXCEPT ![c] = [state |-> "ended", tool |-> t, from |-> b, res |-> "ok"]]
    BY <1>7 DEF Recall, Concluded
  <2>4. Own(b, t)'
    BY <2>1, <2>2, <2>3 DEF Own
  <2> QED BY <2>1, <2>3, <2>4, ConcludedKeeps
<1> QED BY <1>1, <1>2, <1>3, <1>4, <1>5, <1>6, <1>7 DEF ServiceNext, Handles, Accepts

(* Each step is one of the service or leaves it alone. *)
LEMMA StepOfService == [Next]_vars => [ServiceNext]_serviceVars
  BY AgentConstantsOK
     DEF Next, vars, serviceVars, ServiceNext, Submit, Works, Begin, Raises, Listed, Thinks, Observes,
         GivesUp, Finalizes, Evicted, Expires, Watch, Poll, HangUp, AgentCrash, Delivered, Serves

(* The agents are one of the service's clients: whatever is true of the service alone holds *)
(* of it among them.                                                                       *)
THEOREM Composition == Spec => ServiceSpec
<1>1. Init => ServiceInit
  BY DEF Init
<1> QED BY <1>1, StepOfService, PTL DEF Spec, ServiceSpec

-----------------------------------------------------------------------------
LEMMA InitIInv == Init => IInv
  BY AgentConstantsOK, NobodyIsNoCall
     DEF Init, IInv, TypeOK, ServiceInit, ServiceInv, ServiceTypeOK, Founded, NotGiven, Given,
         Run, NoRun, RunsCoherent, ObservationBacked, OvershootBounded, Budget, StreamDelivers, Live

(* The results that record q of session s claims are those of its calls. *)
Kept(s, q) ==
    \A i \in 1..Len(q.steps) : q.steps[i].type = "result" => given[<<s, q.steps[i].step>>].res = "ok"

LEMMA CallOf ==
  ASSUME NEW s \in Sessions, NEW n \in 1..MaxSteps PROVE <<s, n>> \in Calls
  BY AgentConstantsOK DEF AgentCalls

LEMMA KeptIsBacked ==
  ASSUME ServiceInv, NEW s \in Sessions, NEW q \in Record, Kept(s, q)
  PROVE  \A i \in 1..Len(q.steps) : q.steps[i].type = "result" =>
            /\ given[<<s, q.steps[i].step>>].res = "ok"
            /\ Own(given[<<s, q.steps[i].step>>].from, given[<<s, q.steps[i].step>>].tool)
<1> SUFFICES ASSUME NEW i \in 1..Len(q.steps), q.steps[i].type = "result"
             PROVE  /\ given[<<s, q.steps[i].step>>].res = "ok"
                    /\ Own(given[<<s, q.steps[i].step>>].from, given[<<s, q.steps[i].step>>].tool)
  OBVIOUS
<1>1. q.steps[i].step \in 1..MaxSteps
  <2>1. q.steps \in Seq(Step)
    BY DEF Record
  <2>2. q.steps[i] \in Step
    BY <2>1
  <2> QED BY <2>2 DEF Step
<1>2. <<s, q.steps[i].step>> \in Calls
  BY <1>1, CallOf
<1> QED BY <1>2 DEF Kept, ServiceInv, Founded

(* What one session's run and record become, with its stream left alone. *)
Moves(s, r, q) ==
    /\ run' = [run EXCEPT ![s] = r]
    /\ record' = [record EXCEPT ![s] = q]
    /\ stream' = stream /\ asked' \subseteq AgentCalls
    /\ UNCHANGED serviceVars

Lawful(s, r, q) ==
    /\ r \in Run /\ r.pc # "none" /\ (q = None \/ q \in Record)
    /\ r.pc \in {"thinking", "acting"} => r.step > 0
    /\ r.pc = "returned" => r.answer # "none"
    /\ r.tokens < Budget + PerCall * r.unchecked
    /\ stream[s].pc = "done" => q = None
    /\ q # None => /\ Kept(s, q) /\ q.tokens = r.tokens
                   /\ q.status \in Terminal => r.pc \in {"over", "gone"}

LEMMA SessionKeeps ==
  ASSUME IInv, NEW s \in Sessions, NEW r, NEW q, Moves(s, r, q), Lawful(s, r, q)
  PROVE  IInv'
<1> USE DEF IInv, Moves, Lawful
<1>1. /\ given' = given /\ effects' = effects /\ stream' = stream
      /\ run \in [Sessions -> Run] /\ record \in [Sessions -> Record \cup {None}]
      /\ stream \in [Sessions -> [pc : {"off", "open", "done", "cut"}, seen : Nat]]
  BY DEF serviceVars, TypeOK
<1>2. /\ run'[s] = r /\ record'[s] = q /\ run' \in [Sessions -> Run]
      /\ \A u \in Sessions \ {s} : run'[u] = run[u] /\ record'[u] = record[u]
  BY <1>1
<1>3. ServiceInv'
  BY <1>1 DEF ServiceInv, ServiceTypeOK, Founded, Own
<1>4. TypeOK'
  BY <1>1, <1>2, <1>3 DEF TypeOK, ServiceInv
<1>5. RunsCoherent'
  BY <1>1, <1>2 DEF RunsCoherent, Live, Run
<1>6. ObservationBacked'
  <2> SUFFICES ASSUME NEW u \in Sessions, record'[u] # None,
                      NEW i \in 1..Len(record'[u].steps), record'[u].steps[i].type = "result"
               PROVE  /\ given[<<u, record'[u].steps[i].step>>].res = "ok"
                      /\ Own(given[<<u, record'[u].steps[i].step>>].from,
                             given[<<u, record'[u].steps[i].step>>].tool)
    BY <1>1 DEF ObservationBacked, Own
  <2>1. CASE u = s
    BY <1>2, <2>1, KeptIsBacked
  <2>2. CASE u # s
    BY <1>2, <2>2 DEF ObservationBacked
  <2> QED BY <2>1, <2>2
<1>7. OvershootBounded'
  BY <1>2 DEF OvershootBounded
<1>8. StreamDelivers'
  BY <1>1, <1>2 DEF StreamDelivers
<1> QED BY <1>3, <1>4, <1>5, <1>6, <1>7, <1>8

-----------------------------------------------------------------------------
(* The parts of a session. *)
LEMMA Parts ==
  ASSUME IInv, NEW s \in Sessions
  PROVE  /\ run[s] \in Run /\ (record[s] = None \/ record[s] \in Record)
         /\ run[s].step \in Nat /\ run[s].tokens \in Nat /\ run[s].unchecked \in Nat
         /\ run[s].step <= MaxSteps /\ MaxSteps \in Nat /\ PerCall \in Nat /\ MaxTokens \in Int /\ Budget \in Nat
         /\ run[s].tokens < Budget + PerCall * run[s].unchecked
         /\ run[s].pc \in {"thinking", "acting"} => run[s].step \in 1..MaxSteps
         /\ record[s] # None => record[s].tokens = run[s].tokens /\ Kept(s, record[s])
         /\ Live(s) => /\ stream[s].pc = "done" => record[s] = None
                       /\ record[s] # None => record[s].status \notin Terminal
<1>1. /\ run[s] \in Run /\ (record[s] = None \/ record[s] \in Record)
      /\ MaxSteps \in Nat /\ PerCall \in Nat /\ MaxTokens \in Int /\ Budget \in Nat
  BY AgentConstantsOK DEF IInv, TypeOK, Budget
<1>2. /\ run[s].step \in Nat /\ run[s].tokens \in Nat /\ run[s].unchecked \in Nat
      /\ run[s].step <= MaxSteps
  BY <1>1 DEF Run
<1>3. /\ run[s].tokens < Budget + PerCall * run[s].unchecked
      /\ record[s] # None => record[s].tokens = run[s].tokens
  BY DEF IInv, OvershootBounded
<1>4. record[s] # None => Kept(s, record[s])
  BY DEF IInv, ObservationBacked, Kept
<1>5. run[s].pc \in {"thinking", "acting"} => run[s].step \in 1..MaxSteps
  BY <1>1, <1>2 DEF IInv, RunsCoherent
<1>6. Live(s) => /\ stream[s].pc = "done" => record[s] = None
                 /\ record[s] # None => record[s].status \notin Terminal
  BY DEF IInv, RunsCoherent
<1> QED BY <1>1, <1>2, <1>3, <1>4, <1>5, <1>6

(* A record with one more step, or another status. *)
LEMMA StepRecorded ==
  ASSUME NEW s \in Sessions, NEW q \in Record, Kept(s, q), q # None,
         NEW n \in 1..MaxSteps, NEW tokens \in Nat,
         NEW type \in {"think", "result", "failure"}, type = "result" => given[<<s, n>>].res = "ok"
  PROVE  /\ WithStep(q, n, type, tokens) \in Record /\ Kept(s, WithStep(q, n, type, tokens))
         /\ WithStep(q, n, type, tokens).tokens = q.tokens + tokens
         /\ WithStep(q, n, type, tokens).status = q.status
<1> DEFINE e == [step |-> n, type |-> type]
           w == WithStep(q, n, type, tokens)
<1>1. q.steps \in Seq(Step) /\ e \in Step /\ q.tokens + tokens \in Nat
  BY DEF Record, Step
<1>2. /\ Append(q.steps, e) \in Seq(Step) /\ Len(Append(q.steps, e)) = Len(q.steps) + 1
      /\ \A i \in 1..Len(q.steps) : Append(q.steps, e)[i] = q.steps[i]
      /\ Append(q.steps, e)[Len(q.steps) + 1] = e /\ Len(q.steps) \in Nat
  BY <1>1
<1>3. /\ w \in Record /\ w.steps = Append(q.steps, e)
      /\ w.tokens = q.tokens + tokens /\ w.status = q.status
  BY <1>1, <1>2 DEF WithStep, Record
<1>4. Kept(s, w)
  <2> SUFFICES ASSUME NEW i \in 1..Len(w.steps), w.steps[i].type = "result"
               PROVE  given[<<s, w.steps[i].step>>].res = "ok"
    BY DEF Kept
  <2>1. CASE i = Len(q.steps) + 1
    BY <1>2, <1>3, <2>1
  <2>2. CASE i # Len(q.steps) + 1
    <3>1. i \in 1..Len(q.steps) /\ w.steps[i] = q.steps[i]
      BY <1>2, <1>3, <2>2
    <3> QED BY <3>1 DEF Kept
  <2> QED BY <2>1, <2>2
<1> QED BY <1>3, <1>4

LEMMA StatusRecorded ==
  ASSUME NEW s \in Sessions, NEW q, q = None \/ q \in Record, NEW status \in Status
  PROVE  /\ q = None => WithStatus(q, status) = None
         /\ q # None => /\ WithStatus(q, status) \in Record
                        /\ WithStatus(q, status).tokens = q.tokens
                        /\ WithStatus(q, status).status = status
                        /\ Kept(s, q) => Kept(s, WithStatus(q, status))
  BY DEF WithStatus, Record, Kept

-----------------------------------------------------------------------------
(* A run and its record when a step of the loop has written what it writes. *)
Written(s, r, q) ==
    /\ r \in Run /\ (q = None \/ q \in Record)
    /\ r.tokens < Budget + PerCall * r.unchecked
    /\ stream[s].pc = "done" => q = None
    /\ q # None => Kept(s, q) /\ q.tokens = r.tokens /\ q.status \notin Terminal

Aside == stream' = stream /\ asked' \subseteq AgentCalls /\ UNCHANGED serviceVars

LEMMA ReturnedKeeps ==
  ASSUME IInv, NEW s \in Sessions, NEW r, NEW q, NEW status \in {"completed", "budget_exceeded"},
         Written(s, r, q), Returned(s, r, q, status), Aside
  PROVE  IInv'
<1> DEFINE f == [r EXCEPT !.pc = "returned", !.answer = status]
<1>1. /\ f \in Run /\ f.pc = "returned" /\ f.answer # "none"
      /\ f.tokens = r.tokens /\ f.unchecked = r.unchecked
  BY DEF Written, Run
<1>2. Moves(s, f, q)
  BY DEF Moves, Returned, Aside
<1> HIDE DEF f
<1>3. Lawful(s, f, q)
  BY <1>1 DEF Lawful, Written
<1> QED BY <1>2, <1>3, SessionKeeps

LEMMA NextStepKeeps ==
  ASSUME IInv, NEW s \in Sessions, NEW r, NEW q, Written(s, r, q), NextStep(s, r, q), Aside
  PROVE  IInv'
<1>1. CASE r.step = MaxSteps
  BY <1>1, ReturnedKeeps DEF NextStep
<1>2. CASE r.step # MaxSteps
  <2> DEFINE f == [r EXCEPT !.pc = "thinking", !.step = @ + 1]
  <2>1. r \in Run /\ MaxSteps \in Nat
    BY AgentConstantsOK DEF Written
  <2>2. r.step + 1 \in 0..MaxSteps /\ r.step + 1 > 0
    BY <1>2, <2>1 DEF Run
  <2>3. /\ f \in Run /\ f.pc = "thinking" /\ f.step > 0
        /\ f.tokens = r.tokens /\ f.unchecked = r.unchecked
    BY <2>1, <2>2 DEF Run
  <2>4. Moves(s, f, q)
    BY <1>2 DEF Moves, NextStep, Aside
  <2> HIDE DEF f
  <2>5. Lawful(s, f, q)
    BY <2>3 DEF Lawful, Written
  <2> QED BY <2>4, <2>5, SessionKeeps
<1> QED BY <1>1, <1>2

LEMMA ListedKeeps == ASSUME IInv, NEW s \in Sessions, Listed(s) PROVE IInv'
<1>1. Written(s, run[s], record[s])
  BY Parts DEF Written, Listed, Live
<1>2. Aside /\ NextStep(s, run[s], record[s])
  BY DEF Listed, Aside, IInv, TypeOK
<1> QED BY <1>1, <1>2, NextStepKeeps

LEMMA ThinksKeeps ==
  ASSUME IInv, NEW s \in Sessions, NEW tokens \in 0..PerCall, Thinks(s, tokens) PROVE IInv'
<1> DEFINE r == Thought(s, tokens)
           q == WithStep(record[s], r.step, "think", tokens)
<1>1. run[s].pc = "thinking" /\ Live(s) /\ tokens \in Nat /\ tokens <= PerCall
  BY Parts DEF Thinks, Live
<1>2. /\ run[s].tokens + tokens \in Nat /\ run[s].unchecked + 1 \in Nat
      /\ run[s].tokens + tokens < Budget + PerCall * (run[s].unchecked + 1)
  <2>1. PerCall * (run[s].unchecked + 1) = PerCall * run[s].unchecked + PerCall
    BY Parts
  <2>2. PerCall * run[s].unchecked \in Nat
    BY Parts
  <2> QED BY <1>1, <2>1, <2>2, Parts
<1>3. /\ r \in Run /\ r.step = run[s].step /\ r.tokens = run[s].tokens + tokens
      /\ r.unchecked = run[s].unchecked + 1 /\ r.step \in 1..MaxSteps
  BY <1>1, <1>2, Parts DEF Thought, Run
<1>4. /\ record[s] = None => q = None
      /\ record[s] # None => /\ q \in Record /\ Kept(s, q) /\ q.status = record[s].status
                             /\ q.tokens = record[s].tokens + tokens
  <2>1. CASE record[s] = None
    BY <2>1 DEF WithStep
  <2>2. CASE record[s] # None
    <3>1. record[s] \in Record /\ Kept(s, record[s])
      BY <2>2, Parts
    <3> QED BY <1>1, <1>3, <2>2, <3>1, StepRecorded
  <2> QED BY <2>1, <2>2
<1> HIDE DEF r, q
<1>5. Written(s, r, q)
  BY <1>1, <1>2, <1>3, <1>4, Parts DEF Written
<1>6. \/ (\E status \in {"completed", "budget_exceeded"} : Returned(s, r, q, status)) /\ asked' = asked
      \/ NextStep(s, r, q) /\ asked' = asked
      \/ /\ run' = [run EXCEPT ![s] = [r EXCEPT !.pc = "acting"]]
         /\ record' = [record EXCEPT ![s] = q]
         /\ asked' = asked \cup {<<s, r.step>>}
  BY DEF Thinks, r, q
<1>7. UNCHANGED serviceVars /\ stream' = stream /\ asked \subseteq AgentCalls
  BY DEF Thinks, IInv, TypeOK
<1>8. CASE (\E status \in {"completed", "budget_exceeded"} : Returned(s, r, q, status)) /\ asked' = asked
  <2>1. PICK status \in {"completed", "budget_exceeded"} : Returned(s, r, q, status)
    BY <1>8
  <2> QED BY <1>5, <1>7, <1>8, <2>1, ReturnedKeeps DEF Aside
<1>9. CASE NextStep(s, r, q) /\ asked' = asked
  BY <1>5, <1>7, <1>9, NextStepKeeps DEF Aside
<1>10. CASE /\ run' = [run EXCEPT ![s] = [r EXCEPT !.pc = "acting"]]
            /\ record' = [record EXCEPT ![s] = q]
            /\ asked' = asked \cup {<<s, r.step>>}
  <2> DEFINE f == [r EXCEPT !.pc = "acting"]
  <2>1. /\ f \in Run /\ f.pc = "acting" /\ f.step > 0
        /\ f.tokens = r.tokens /\ f.unchecked = r.unchecked
    BY <1>3 DEF Run
  <2>2. asked' \subseteq AgentCalls
    BY <1>3, <1>7, <1>10 DEF AgentCalls
  <2>3. Moves(s, f, q)
    BY <1>7, <1>10, <2>2 DEF Moves
  <2> HIDE DEF f
  <2>4. Lawful(s, f, q)
    BY <1>5, <2>1 DEF Lawful, Written
  <2> QED BY <2>3, <2>4, SessionKeeps
<1> QED BY <1>6, <1>8, <1>9, <1>10

LEMMA ActedKeeps ==
  ASSUME IInv, NEW s \in Sessions, run[s].pc = "acting", NEW type \in {"result", "failure"},
         type = "result" => given[<<s, run[s].step>>].res = "ok", Acted(s, type), Aside
  PROVE  IInv'
<1> DEFINE q == WithStep(record[s], run[s].step, type, 0)
           r == [run[s] EXCEPT !.unchecked = 0]
<1>1. Live(s) /\ run[s].step \in 1..MaxSteps
  BY Parts DEF Live
<1>2. /\ record[s] = None => q = None
      /\ record[s] # None => /\ q \in Record /\ Kept(s, q) /\ q.status = record[s].status
                             /\ q.tokens = record[s].tokens
  <2>1. CASE record[s] = None
    BY <2>1 DEF WithStep
  <2>2. CASE record[s] # None
    <3>1. q \in Record /\ Kept(s, q) /\ q.status = record[s].status /\ q.tokens = record[s].tokens + 0
      BY <1>1, <2>2, Parts, StepRecorded
    <3>2. record[s].tokens \in Nat
      BY <2>2, Parts
    <3> QED BY <2>2, <3>1, <3>2
  <2> QED BY <2>1, <2>2
<1>3. r \in Run /\ r.tokens = run[s].tokens /\ r.unchecked = 0
  BY Parts DEF Run
<1>4. IF OverBudget(run[s]) THEN Returned(s, run[s], q, "budget_exceeded") ELSE NextStep(s, r, q)
  BY DEF Acted
<1> HIDE DEF q, r
<1>5. CASE OverBudget(run[s])
  <2>1. Written(s, run[s], q)
    BY <1>1, <1>2, Parts DEF Written
  <2> QED BY <1>4, <1>5, <2>1, ReturnedKeeps
<1>6. CASE ~OverBudget(run[s])
  <2>1. r.tokens < Budget + PerCall * r.unchecked
    BY <1>3, <1>6, Parts DEF OverBudget, Budget
  <2>2. Written(s, r, q)
    BY <1>1, <1>2, <1>3, <2>1, Parts DEF Written
  <2> QED BY <1>4, <1>6, <2>2, NextStepKeeps
<1> QED BY <1>5, <1>6

LEMMA ObservesKeeps ==
  ASSUME IInv, NEW s \in Sessions, Observes(s) \/ GivesUp(s) PROVE IInv'
<1>1. run[s].pc = "acting" /\ Aside
  BY DEF Observes, GivesUp, Aside, IInv, TypeOK
<1>2. CASE Observes(s)
  <2> DEFINE type == Observed(<<s, run[s].step>>)
  <2>1. /\ type \in {"result", "failure"} /\ Acted(s, type)
        /\ type = "result" => given[<<s, run[s].step>>].res = "ok"
    BY <1>2 DEF Observes, Observed
  <2> HIDE DEF type
  <2> QED BY <1>1, <2>1, ActedKeeps
<1>3. CASE GivesUp(s)
  BY <1>1, <1>3, ActedKeeps DEF GivesUp
<1> QED BY <1>2, <1>3

(* The other steps of one run. *)
LEMMA FinalizesKeeps == ASSUME IInv, NEW s \in Sessions, Finalizes(s) PROVE IInv'
<1> DEFINE r == [run[s] EXCEPT !.pc = "over"]
           status == run[s].answer
           q == WithStatus(record[s], status)
<1>1. r \in Run /\ r.pc = "over" /\ r.tokens = run[s].tokens /\ r.unchecked = run[s].unchecked
  BY Parts DEF Run
<1>2. status \in Status /\ Live(s)
  BY Parts DEF Finalizes, Live, IInv, RunsCoherent, Run, Status, Terminal
<1>3. Moves(s, r, q)
  BY DEF Moves, Finalizes, IInv, TypeOK
<1>4. record[s] = None \/ record[s] \in Record
  BY Parts
<1> HIDE DEF r, status
<1>5. /\ record[s] = None => q = None
      /\ record[s] # None => /\ q \in Record /\ q.tokens = record[s].tokens
                             /\ Kept(s, record[s]) => Kept(s, q)
  BY <1>2, <1>4, StatusRecorded
<1> HIDE DEF q
<1>6. Lawful(s, r, q)
  BY <1>1, <1>2, <1>5, Parts DEF Lawful
<1> QED BY <1>3, <1>6, SessionKeeps

LEMMA RunKeeps ==
  ASSUME IInv, NEW s \in Sessions, Submit(s) \/ Begin(s) \/ Raises(s) PROVE IInv'
<1>1. asked \subseteq AgentCalls /\ run[s] \in Run
  BY DEF IInv, TypeOK
<1>2. CASE Submit(s)
  <2> DEFINE q == [status |-> "pending", steps |-> <<>>, tokens |-> 0]
             r == [run[s] EXCEPT !.pc = "queued"]
  <2>1. stream[s].pc = "off" /\ run[s] = NoRun
    BY <1>2 DEF Submit, IInv, RunsCoherent
  <2>2. r \in Run /\ r.pc = "queued" /\ r.tokens = 0 /\ r.unchecked = 0
    BY <1>1, <2>1 DEF Run, NoRun
  <2>3. q \in Record /\ q.status = "pending" /\ q.tokens = 0 /\ Kept(s, q)
    BY DEF Record, Status, Kept
  <2>4. Moves(s, r, q)
    BY <1>1, <1>2 DEF Moves, Submit
  <2> HIDE DEF q, r
  <2>5. 0 < Budget + PerCall * 0
    BY Parts DEF Budget
  <2>6. Lawful(s, r, q)
    BY <2>1, <2>2, <2>3, <2>5 DEF Lawful, Terminal
  <2> QED BY <2>4, <2>6, SessionKeeps
<1>3. CASE Begin(s)
  <2> DEFINE q == WithStatus(record[s], "running")
             r == [run[s] EXCEPT !.pc = "listing"]
  <2>1. r \in Run /\ r.pc = "listing" /\ r.tokens = run[s].tokens /\ r.unchecked = run[s].unchecked
    BY <1>1 DEF Run
  <2>2. /\ record[s] = None => q = None
        /\ record[s] # None => /\ q \in Record /\ Kept(s, q) /\ q.status = "running"
                               /\ q.tokens = record[s].tokens
    <3>1. /\ record[s] = None \/ record[s] \in Record
          /\ record[s] # None => Kept(s, record[s])
      BY Parts
    <3>2. "running" \in Status
      BY DEF Status
    <3> QED BY <3>1, <3>2, StatusRecorded
  <2>3. Moves(s, r, q) /\ Live(s)
    BY <1>1, <1>3 DEF Moves, Begin, Live, IInv, TypeOK
  <2> HIDE DEF q, r
  <2>4. Lawful(s, r, q)
    BY <2>1, <2>2, <2>3, Parts DEF Lawful, Terminal
  <2> QED BY <2>3, <2>4, SessionKeeps
<1>4. CASE Raises(s)
  <2> DEFINE r == [run[s] EXCEPT !.pc = "over"]
  <2>1. r \in Run /\ r.pc = "over" /\ r.tokens = run[s].tokens /\ r.unchecked = run[s].unchecked
    BY <1>1 DEF Run
  <2>2. Moves(s, r, record[s]) /\ Live(s)
    BY <1>1, <1>4 DEF Moves, Raises, IInv, TypeOK
  <2> HIDE DEF r
  <2>3. Lawful(s, r, record[s])
    BY <2>1, <2>2, Parts DEF Lawful
  <2> QED BY <2>2, <2>3, SessionKeeps
<1> QED BY <1>2, <1>3, <1>4

(* A record that goes takes its obligations along. *)
LEMMA RecordGoes ==
  ASSUME IInv, NEW s \in Sessions, Evicted(s) \/ Expires(s) PROVE IInv'
<1>1. /\ run[s].pc # "none"
  BY DEF Evicted, Expires, IInv, RunsCoherent
<1>2. Moves(s, run[s], None)
  BY DEF Moves, Evicted, Expires, IInv, TypeOK
<1>3. /\ run[s].pc \in {"thinking", "acting"} => run[s].step > 0
      /\ run[s].pc = "returned" => run[s].answer # "none"
  BY DEF IInv, RunsCoherent
<1>4. Lawful(s, run[s], None)
  BY <1>1, <1>3, Parts DEF Lawful
<1> QED BY <1>2, <1>4, SessionKeeps

(* The event streams, and what else leaves runs and records alone. *)
LEMMA Untouched ==
  ASSUME IInv, UNCHANGED <<given, effects, record, run>> PROVE ObservationBacked' /\ OvershootBounded' /\ ServiceInv'
  BY DEF IInv, ObservationBacked, OvershootBounded, ServiceInv, ServiceTypeOK, Founded, Own

LEMMA StreamKeeps ==
  ASSUME IInv, NEW s \in Sessions, Watch(s) \/ Poll(s) \/ HangUp(s) PROVE IInv'
<1> DEFINE S == [pc : {"off", "open", "done", "cut"}, seen : Nat]
<1>1. /\ UNCHANGED <<given, effects, record, run, asked>>
      /\ stream \in [Sessions -> S]
  BY DEF Watch, Poll, HangUp, serviceVars, IInv, TypeOK
<1>2. \E e \in S : /\ stream' = [stream EXCEPT ![s] = e] /\ e.pc # "off"
                   /\ e.pc = "done" /\ record[s] # None => /\ e.seen = Len(record[s].steps)
                                                           /\ record[s].status \in Terminal
  <2>1. CASE Watch(s)
    <3> DEFINE e == [stream[s] EXCEPT !.pc = "open"]
    <3>1. e \in S /\ e.pc = "open" /\ stream' = [stream EXCEPT ![s] = e]
      BY <1>1, <2>1 DEF Watch
    <3> QED BY <3>1
  <2>2. CASE HangUp(s)
    <3> DEFINE e == [stream[s] EXCEPT !.pc = "cut"]
    <3>1. e \in S /\ e.pc = "cut" /\ stream' = [stream EXCEPT ![s] = e]
      BY <1>1, <2>2 DEF HangUp
    <3> QED BY <3>1
  <2>3. CASE Poll(s) /\ record[s] = None
    <3> DEFINE e == [stream[s] EXCEPT !.pc = "cut"]
    <3>1. e \in S /\ e.pc = "cut" /\ stream' = [stream EXCEPT ![s] = e]
      BY <1>1, <2>3 DEF Poll, AfterPoll
    <3> QED BY <3>1
  <2>4. CASE Poll(s) /\ record[s] # None
    <3> DEFINE p == IF IsTerminal(record[s].status) THEN "done" ELSE "open"
               e == [pc |-> p, seen |-> Len(record[s].steps)]
    <3>1. record[s].steps \in Seq(Step)
      BY <2>4, Parts DEF Record
    <3>2. Len(record[s].steps) \in Nat /\ p \in {"done", "open"}
      BY <3>1
    <3>3. p = "done" => record[s].status \in Terminal
      BY DEF IsTerminal
    <3>4. stream' = [stream EXCEPT ![s] = e]
      BY <2>4 DEF Poll, AfterPoll
    <3> HIDE DEF p
    <3>5. e \in S /\ e.pc = p /\ e.seen = Len(record[s].steps)
      BY <3>2
    <3> QED BY <3>2, <3>3, <3>4, <3>5
  <2> QED BY <2>1, <2>2, <2>3, <2>4
<1>3. PICK e \in S : /\ stream' = [stream EXCEPT ![s] = e] /\ e.pc # "off"
                     /\ e.pc = "done" /\ record[s] # None => /\ e.seen = Len(record[s].steps)
                                                             /\ record[s].status \in Terminal
  BY <1>2
<1>4. run[s].pc # "none"
  BY DEF Watch, Poll, HangUp, IInv, RunsCoherent
<1>5. TypeOK'
  BY <1>1, <1>3 DEF IInv, TypeOK, ServiceTypeOK
<1>6. RunsCoherent'
  BY <1>1, <1>3, <1>4 DEF IInv, RunsCoherent, Live
<1>7. StreamDelivers'
  BY <1>1, <1>3 DEF IInv, StreamDelivers
<1> QED BY <1>1, <1>5, <1>6, <1>7, Untouched DEF IInv

LEMMA CrashKeeps == ASSUME IInv, AgentCrash PROVE IInv'
<1>1. /\ UNCHANGED <<given, effects, record, asked>> /\ run \in [Sessions -> Run]
      /\ stream \in [Sessions -> [pc : {"off", "open", "done", "cut"}, seen : Nat]]
  BY DEF AgentCrash, serviceVars, IInv, TypeOK
<1>2. ASSUME NEW s \in Sessions
      PROVE  /\ run'[s] \in Run /\ run'[s].tokens = run[s].tokens /\ run'[s].unchecked = run[s].unchecked
             /\ run'[s].pc \in {"none", "over", "gone"} /\ (Live(s) => run'[s].pc = "gone")
             /\ ~Live(s) => run'[s] = run[s]
             /\ stream'[s].seen = stream[s].seen
             /\ stream[s].pc = "open" => stream'[s].pc = "cut"
             /\ stream[s].pc # "open" => stream'[s] = stream[s]
             /\ stream'[s] \in [pc : {"off", "open", "done", "cut"}, seen : Nat]
  BY <1>1 DEF AgentCrash, Run, Live
<1>3. TypeOK'
  <2>1. run' \in [Sessions -> Run] /\ stream' \in [Sessions -> [pc : {"off", "open", "done", "cut"}, seen : Nat]]
    BY <1>2 DEF AgentCrash
  <2> QED BY <1>1, <2>1 DEF IInv, TypeOK, ServiceTypeOK
<1>4. RunsCoherent'
  BY <1>1, <1>2 DEF IInv, RunsCoherent, Live
<1>5. OvershootBounded' /\ StreamDelivers'
  BY <1>1, <1>2 DEF IInv, OvershootBounded, StreamDelivers
<1>6. ObservationBacked' /\ ServiceInv'
  BY <1>1 DEF IInv, ObservationBacked, ServiceInv, ServiceTypeOK, Founded, Own
<1> QED BY <1>3, <1>4, <1>5, <1>6 DEF IInv

(* The service's own steps, with or without a call of an agent arriving. *)
LEMMA ServesKeeps ==
  ASSUME IInv, [ServiceNext]_serviceVars, UNCHANGED <<record, run, stream>>, asked' \subseteq asked
  PROVE  IInv'
<1>1. ServiceInv' /\ \A b \in Calls : given[b].state = "ended" => given'[b] = given[b]
  BY ServiceKeeps DEF IInv
<1>2. TypeOK' /\ RunsCoherent' /\ OvershootBounded' /\ StreamDelivers'
  BY <1>1 DEF IInv, TypeOK, ServiceInv, RunsCoherent, Live, OvershootBounded, StreamDelivers
<1>3. ObservationBacked'
  <2> SUFFICES ASSUME NEW s \in Sessions, record[s] # None
               PROVE  \A i \in 1..Len(record[s].steps) : record[s].steps[i].type = "result" =>
                         /\ given'[<<s, record[s].steps[i].step>>].res = "ok"
                         /\ Own(given[<<s, record[s].steps[i].step>>].from,
                                given[<<s, record[s].steps[i].step>>].tool)'
    BY DEF ObservationBacked
  <2> SUFFICES ASSUME NEW i \in 1..Len(record[s].steps), record[s].steps[i].type = "result"
               PROVE  /\ given'[<<s, record[s].steps[i].step>>].res = "ok"
                      /\ Own(given[<<s, record[s].steps[i].step>>].from,
                             given[<<s, record[s].steps[i].step>>].tool)'
    OBVIOUS
  <2>1. PICK n \in 1..MaxSteps : n = record[s].steps[i].step
    <3>1. record[s].steps \in Seq(Step)
      BY Parts DEF Record
    <3>2. record[s].steps[i] \in Step
      BY <3>1
    <3> QED BY <3>2 DEF Step
  <2>2. given[<<s, n>>].res = "ok" /\ <<s, n>> \in Calls
    BY <2>1, CallOf DEF IInv, ObservationBacked
  <2>3. given'[<<s, n>>] = given[<<s, n>>]
    BY <1>1, <2>2 DEF IInv, ServiceInv, Founded
  <2>4. Founded'
    BY <1>1 DEF ServiceInv
  <2>5. given'[<<s, n>>].res = "ok" /\ Own(given[<<s, n>>].from, given[<<s, n>>].tool)'
    BY <2>2, <2>3, <2>4 DEF Founded
  <2>6. record' = record
    OBVIOUS
  <2> QED BY <2>1, <2>5, <2>6
<1> QED BY <1>1, <1>2, <1>3 DEF IInv

-----------------------------------------------------------------------------
LEMMA NextIInv == IInv /\ [Next]_vars => IInv'
<1> SUFFICES ASSUME IInv, [Next]_vars PROVE IInv'
  OBVIOUS
<1>1. ASSUME NEW s \in Sessions,
             Submit(s) \/ Works(s) \/ Evicted(s) \/ Expires(s) \/ Watch(s) \/ Poll(s) \/ HangUp(s)
      PROVE  IInv'
  BY <1>1, RunKeeps, FinalizesKeeps, ListedKeeps, ThinksKeeps, ObservesKeeps, RecordGoes, StreamKeeps DEF Works
<1>2. CASE AgentCrash
  BY <1>2, CrashKeeps
<1>3. CASE (\E c \in AgentCalls : Delivered(c)) \/ Serves
  <2>1. UNCHANGED <<record, run, stream>> /\ asked' \subseteq asked
    BY <1>3 DEF Delivered, Serves, agentVars
  <2> QED BY <2>1, StepOfService, ServesKeeps
<1>4. CASE UNCHANGED vars
  <2>1. UNCHANGED <<record, run, stream>> /\ asked' \subseteq asked
    BY <1>4 DEF vars, agentVars
  <2> QED BY <2>1, StepOfService, ServesKeeps
<1> QED BY <1>1, <1>2, <1>3, <1>4 DEF Next

(* Every reachable state of the agent gateway above any such MCP gateway. *)
THEOREM Inductive == Spec => []IInv
  BY InitIInv, NextIInv, PTL DEF Spec

(* No result in a record without a tool that gave it (react_agent.py:108-135). *)
THEOREM ResultsAreReal == Spec => []ObservationBacked
  BY Inductive, PTL DEF IInv

(* The token budget is overshot by what was thought since its last check, and no further. *)
THEOREM BudgetsHold == Spec => []OvershootBounded
  BY Inductive, PTL DEF IInv

(* A finished stream has sent all there is (agents.py:80-99). *)
THEOREM StreamsAreComplete == Spec => []StreamDelivers
  BY Inductive, PTL DEF IInv

=============================================================================
