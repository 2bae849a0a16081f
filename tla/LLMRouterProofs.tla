---------------------------- MODULE LLMRouterProofs ----------------------------
(***************************************************************************)
(* Proofs about LLMRouter, in two layers.  The calls of one request are    *)
(* hedged calls (HedgedRequestProofs), and the ledger of what was sent     *)
(* upstream bounds the request's cost and makes answers and refusals       *)
(* final: that rests on nothing that guardrails or adapters compute.  The  *)
(* second layer does: what the guardrails, applied one after the other,    *)
(* leave of a prompt and of a completion, and what is recorded for it.     *)
(***************************************************************************)
EXTENDS LLMRouter, FiniteSetTheorems, SequenceTheorems, TLAPS

HP == INSTANCE HedgedRequestProofs

LEMMA HedgeStarts == Init => HP!Safe
  <1>1. Init => HP!HedgeInit
    BY DEF Init, H!HedgeInit, HP!HedgeInit, H!NoTasks, HP!NoTasks, H!NoErrors, HP!NoErrors,
           H!Attempts, HP!Attempts
  <1> QED
    BY <1>1, HP!InitSafe

(* The event loop's own steps are those of HedgedRequest. *)
LEMMA SameLoop == H!LoopStep => HP!LoopStep
  <1> USE DEF H!Failures, HP!Failures, H!Attempts, HP!Attempts, H!Arrived, HP!Arrived,
              H!Finished, HP!Finished, H!Return, HP!Return, H!Raise, HP!Raise
  <1>1. H!DirectReturns => HP!DirectReturns
    BY DEF H!DirectReturns, HP!DirectReturns
  <1>2. H!DirectRaises => HP!DirectRaises
    BY DEF H!DirectRaises, HP!DirectRaises
  <1>3. H!Threshold => HP!Threshold
    BY DEF H!Threshold, HP!Threshold
  <1>4. H!FastPath => HP!FastPath
    BY DEF H!FastPath, HP!FastPath
  <1>5. H!FailsPermanently => HP!FailsPermanently
    BY DEF H!FailsPermanently, HP!FailsPermanently
  <1>6. H!FireSecondary => HP!FireSecondary
    BY DEF H!FireSecondary, HP!FireSecondary, H!Late, HP!Late
  <1>7. /\ H!Done = HP!Done /\ H!Answers = HP!Answers
        /\ (H!Resumed <=> HP!Resumed)
        /\ H!Recorded = HP!Recorded
    BY DEF H!Done, HP!Done, H!Answers, HP!Answers, H!Resumed, HP!Resumed, H!Recorded, HP!Recorded
  <1>8. \A S : H!Cancelling(S) = HP!Cancelling(S) /\ H!AfterWin(S) = HP!AfterWin(S)
               /\ (H!Undecided(S) <=> HP!Undecided(S))
    BY DEF H!Cancelling, HP!Cancelling, H!AfterWin, HP!AfterWin, H!Undecided, HP!Undecided
  <1>9. H!RaceGoesOn => HP!RaceGoesOn
    BY <1>7, <1>8 DEF H!RaceGoesOn, HP!RaceGoesOn
  <1>10. H!RaceLost => HP!RaceLost
    <2>1. H!Surfaced(H!Recorded) = HP!Surfaced(HP!Recorded)
      BY <1>7 DEF H!Surfaced, HP!Surfaced
    <2> QED
      BY <1>7, <1>8, <2>1 DEF H!RaceLost, HP!RaceLost
  <1>11. \A a \in H!Attempts : H!RaceWon(a) => HP!RaceWon(a)
    BY <1>7, <1>8 DEF H!RaceWon, HP!RaceWon
  <1> HIDE DEF H!Failures, HP!Failures, H!Arrived, HP!Arrived,
              H!Finished, HP!Finished, H!Return, HP!Return, H!Raise, HP!Raise
  <1> QED
    BY <1>1, <1>2, <1>3, <1>4, <1>5, <1>6, <1>9, <1>10, <1>11 DEF H!LoopStep, HP!LoopStep

(* What the steps of the router do to the hedged call: entering a hop begins one, an attempt *)
(* moves on, the loop does, or nothing happens to it.                                        *)
LEMMA EnterHedges ==
    ASSUME NEW r, NEW seen, Enter(r, seen)
    PROVE  (\E hedging \in BOOLEAN : HP!Call(hedging)) \/ UNCHANGED hedgeVars
  <1>1. CASE Start(r, seen)
    <2>1. H!Call(Hedging(r)) /\ Hedging(r) \in BOOLEAN
      BY <1>1 DEF Start, Hedging
    <2>2. HP!Call(Hedging(r))
      BY <2>1 DEF H!Call, HP!Call, H!Over, HP!Over, H!NoTasks, HP!NoTasks, H!NoErrors, HP!NoErrors,
           H!Attempts, HP!Attempts
    <2> QED
      BY <2>1, <2>2
  <1> QED
    BY <1>1 DEF Enter, Unservable, Denied, InputBlocked, Looping, Unwritten

LEMMA HedgeSteps == [Next]_vars => [HP!HedgeNext]_(HP!hedgeVars)
  <1> SUFFICES ASSUME [Next]_vars PROVE HP!HedgeNext \/ UNCHANGED hedgeVars
    BY DEF hedgeVars, HP!hedgeVars
  <1>1. ASSUME NEW r, NEW seen, Enter(r, seen) PROVE HP!HedgeNext \/ UNCHANGED hedgeVars
    BY <1>1, EnterHedges DEF HP!HedgeNext
  <1>2. ASSUME NEW outcome, Ends(outcome) PROVE UNCHANGED hedgeVars
    BY <1>2 DEF Ends
  <1>3. ASSUME NEW header, NEW request, Arrive(header, request)
        PROVE  HP!HedgeNext \/ UNCHANGED hedgeVars
    BY <1>1, <1>2, <1>3 DEF Arrive, ArriveAuto
  <1>4. CASE Classified \/ ClassifierFails \/ Handle \/ Reconfigure
    BY <1>1, <1>2, <1>4
       DEF Classified, ClassifierFails, Handle, Serve, Misconfigured, FallBack, GiveUp, Reconfigure
  <1>5. ASSUME NEW a \in H!Attempts PROVE a \in HP!Attempts
    BY DEF H!Attempts, HP!Attempts
  <1> USE <1>5
  <1>6. ASSUME NEW a \in H!Attempts, Send(a) PROVE HP!HedgeNext
    BY <1>6 DEF Send, H!Send, HP!Send, H!Becomes, HP!Becomes, HP!HedgeNext
  <1>7. ASSUME NEW a \in H!Attempts, Refuse(a) PROVE HP!HedgeNext
    <2>1. \E f \in {"routing", "config"} : HP!Refuse(a, f)
      BY <1>7 DEF Refuse, H!Refuse, HP!Refuse, H!Becomes, HP!Becomes
    <2> QED
      BY <2>1 DEF HP!HedgeNext
  <1>8. ASSUME NEW a \in H!Attempts, NEW answered, Respond(a, answered) PROVE HP!HedgeNext
    <2>1. PICK i : H!End(a, Outcome(Completion(calls[i].via, answered)))
      BY <1>8 DEF Respond
    <2>2. Outcome(Completion(calls[i].via, answered)) \in {"ok", "retryable", "permanent"}
      BY DEF Outcome
    <2>3. \E o \in {"ok", "retryable", "permanent"} : HP!End(a, o)
      BY <2>1, <2>2 DEF H!End, HP!End, H!Becomes, HP!Becomes
    <2> QED
      BY <2>3 DEF HP!HedgeNext
  <1>9. ASSUME NEW a \in H!Attempts, Abandoned(a) PROVE HP!HedgeNext
    BY <1>9 DEF Abandoned, H!Cancelled, HP!Cancelled, HP!HedgeNext
  <1>10. CASE Loop
    BY <1>10, SameLoop DEF Loop, HP!HedgeNext
  <1>11. CASE UNCHANGED vars
    BY <1>11 DEF vars
  <1> QED
    BY <1>3, <1>4, <1>6, <1>7, <1>8, <1>9, <1>10, <1>11 DEF Next

(* One request's calls are hedged calls, one after the other. *)
THEOREM Composition == Spec => HP!HedgeSpec
  <1>1. Init => HP!HedgeInit
    BY DEF Init, H!HedgeInit, HP!HedgeInit, H!NoTasks, HP!NoTasks, H!NoErrors, HP!NoErrors,
           H!Attempts, HP!Attempts
  <1> QED
    BY <1>1, HedgeSteps, PTL DEF Spec, HP!HedgeSpec

-----------------------------------------------------------------------------
(* The invariant: what the ledger of provider requests has to do with where the request is. *)

(* An entry, whatever was sent and answered; texts are of no interest here. *)
Entry(T) == [hop : Nat, by : H!Attempts, to : T, via : T, sent : T, rails : T,
             res : {"running", "ok", "retryable", "permanent", "cancelled"}, got : T]

Typed == \E T : calls \in Seq(Entry(T))

HopNumber == Cardinality(visited)

Sent(a) == task[a] \notin {"none", "created"}

(* Where the request is. *)
Path ==
    /\ stage \in {"new", "classifying", "calling", "answered"}
    /\ IsFiniteSet(visited) /\ HopNumber < MaxDepth
    /\ hop \notin visited
    /\ stage \in {"new", "classifying"} => phase = "idle" /\ calls = <<>> /\ visited = {}
    /\ stage = "answered" => phase \in {"idle", "returned", "raised"}
    /\ stage = "answered" <=> answer # "none"

(* An entry is of this hop, whose attempt has then been sent, or of a route given up. *)
Chain ==
    \A i \in DOMAIN calls :
       /\ calls[i].hop <= HopNumber
       /\ calls[i].hop = HopNumber => Sent(calls[i].by)
       /\ calls[i].by = "primary" =>
             IF calls[i].hop = HopNumber THEN calls[i].to = hop ELSE calls[i].to \in visited

Unique ==
    \A i, j \in DOMAIN calls :
       /\ calls[i].hop = calls[j].hop /\ calls[i].by = calls[j].by => i = j
       /\ calls[i].by = "primary" /\ calls[j].by = "primary" /\ calls[i].to = calls[j].to => i = j

SentNow(a) == IF Sent(a) THEN 1 ELSE 0

Counted == Len(calls) <= 2 * HopNumber + SentNow("primary") + SentNow("secondary")

(* What is final is of this hop, and its attempt knows. *)
Final ==
    \A i \in DOMAIN calls :
       /\ calls[i].res = "ok" => calls[i].hop = HopNumber /\ task[calls[i].by] = "ok"
       /\ calls[i].res = "permanent" /\ calls[i].by = "primary" =>
             calls[i].hop = HopNumber /\ task["primary"] = "permanent"
       /\ calls[i].res = "ok" => answer \in {"none", "ok", "output_blocked", "crashed"}

Metered ==
    /\ slots \in [Routes -> Nat]
    /\ \A r \in Routes : r \in visited \cup {hop} => slots[r] > 0

Books == Typed /\ Path /\ Chain /\ Unique /\ Counted /\ Final /\ Metered

Ledger == HP!Safe /\ Books

LEMMA LedgerStarts == Init => Ledger
  <1> SUFFICES ASSUME Init PROVE Ledger
    OBVIOUS
  <1>1. calls = <<>> /\ calls \in Seq(Entry({})) /\ Len(calls) = 0 /\ DOMAIN calls = {}
    BY DEF Init
  <1>2. IsFiniteSet(visited) /\ HopNumber = 0 /\ 0 < MaxDepth
    BY FS_EmptySet, ConstantsOK DEF Init, HopNumber
  <1>3. Typed /\ Chain /\ Unique /\ Final
    BY <1>1 DEF Typed, Chain, Unique, Final
  <1>4. Path
    BY <1>2 DEF Init, Path, H!HedgeInit
  <1>5. Counted
    BY <1>1, <1>2 DEF Counted, SentNow
  <1>6. Metered
    BY ConstantsOK DEF Init, Metered
  <1> QED
    BY <1>3, <1>4, <1>5, <1>6, HedgeStarts DEF Ledger, Books

(* What HedgedRequest's invariant says, in the words of this module. *)
LEMMA HedgeFacts ==
    ASSUME HP!Safe
    PROVE  /\ task \in [H!Attempts -> {"none", "created", "running", "ok", "cancelling", "cancelled",
                                      "retryable", "permanent", "routing", "config"}]
           /\ phase \in {"idle", "direct", "waiting", "racing", "reaping", "returned", "raised"}
           /\ phase \in {"idle", "returned", "raised"} =>
                 \A a \in H!Attempts : task[a] \notin {"created", "running", "cancelling"}
           /\ phase = "idle" => \A a \in H!Attempts : task[a] = "none"
           /\ phase = "raised" => raised = task["primary"] /\ \A a \in H!Attempts : task[a] # "ok"
  BY DEF HP!Safe, HP!IInv, HP!TypeOK, HP!Shape, HP!NoOrphanAttempt, HP!HealthyAnswerKept,
         HP!OwnFailureSurfaces, HP!Over, HP!Attempts, H!Attempts, HP!Failures

-----------------------------------------------------------------------------
(* The ledger as a sequence. *)
LEMMA TypedFacts ==
    ASSUME Typed
    PROVE  /\ Len(calls) \in Nat /\ DOMAIN calls = 1..Len(calls)
           /\ \A i \in DOMAIN calls : calls[i].hop \in Nat /\ calls[i].by \in H!Attempts
  <1>1. PICK T : calls \in Seq(Entry(T))
    BY DEF Typed
  <1>2. Len(calls) \in Nat /\ DOMAIN calls = 1..Len(calls)
    BY <1>1, LenProperties
  <1>3. \A i \in DOMAIN calls : calls[i] \in Entry(T)
    BY <1>1, <1>2, ElementOfSeq
  <1> QED
    BY <1>2, <1>3 DEF Entry

LEMMA Appended ==
    ASSUME Typed, NEW n \in Nat, NEW a \in H!Attempts, NEW r, NEW prompt, NEW rails,
           calls' = Append(calls, Request(n, a, r, prompt, rails))
    PROVE  /\ Typed'
           /\ Len(calls') = Len(calls) + 1 /\ DOMAIN calls' = DOMAIN calls \cup {Len(calls) + 1}
           /\ Len(calls) + 1 \notin DOMAIN calls
           /\ \A i \in DOMAIN calls : calls'[i] = calls[i]
           /\ LET e == calls'[Len(calls) + 1]
              IN  e.hop = n /\ e.by = a /\ e.to = r /\ e.res = "running"
  <1> DEFINE e == Request(n, a, r, prompt, rails)
  <1>1. PICK T : calls \in Seq(Entry(T))
    BY DEF Typed
  <1>2. e.hop = n /\ e.by = a /\ e.to = r /\ e.res = "running"
    BY DEF Request
  <1> DEFINE U == T \cup {e.to, e.via, e.sent, e.rails, e.got}
  <1>3. e \in Entry(U)
    BY DEF Request, Entry
  <1>4. Entry(T) \subseteq Entry(U)
    BY DEF Entry
  <1> HIDE DEF e, U
  <1>5. calls \in Seq(Entry(U))
    BY <1>1, <1>4, SeqMonotonic
  <1>6. /\ calls' \in Seq(Entry(U)) /\ Len(calls') = Len(calls) + 1
        /\ \A i \in 1..Len(calls) : calls'[i] = calls[i]
        /\ calls'[Len(calls) + 1] = e
    BY <1>3, <1>5, AppendProperties DEF e
  <1>7. /\ Len(calls) \in Nat /\ DOMAIN calls = 1..Len(calls)
        /\ DOMAIN calls' = 1..Len(calls')
    BY <1>5, <1>6, LenProperties
  <1> QED
    BY <1>2, <1>6, <1>7 DEF Typed

LEMMA SettledFacts ==
    ASSUME Typed, NEW a, NEW res \in {"running", "ok", "retryable", "permanent", "cancelled"},
           NEW completion, calls' = Settled(a, res, completion)
    PROVE  /\ Typed'
           /\ Len(calls') = Len(calls) /\ DOMAIN calls' = DOMAIN calls
           /\ \A i \in DOMAIN calls :
                 /\ calls'[i].hop = calls[i].hop
                 /\ calls'[i].by = calls[i].by
                 /\ calls'[i].to = calls[i].to
                 /\ calls'[i].res = IF i \in OfThisHop(a) THEN res ELSE calls[i].res
  <1>1. PICK T : calls \in Seq(Entry(T))
    BY DEF Typed
  <1> DEFINE U == T \cup {completion}
  <1>2. Len(calls) \in Nat /\ DOMAIN calls = 1..Len(calls)
    BY <1>1, LenProperties
  <1>3. \A i \in DOMAIN calls : calls[i] \in Entry(T)
    BY <1>1, <1>2, ElementOfSeq
  <1>4. DOMAIN calls' = DOMAIN calls
        /\ \A i \in DOMAIN calls :
              calls'[i] = IF i \in OfThisHop(a)
                          THEN [calls[i] EXCEPT !.res = res, !.got = completion] ELSE calls[i]
    BY DEF Settled
  <1>5. \A e \in Entry(T) :
           /\ [e EXCEPT !.res = res, !.got = completion] \in Entry(U)
           /\ [e EXCEPT !.res = res, !.got = completion].hop = e.hop
           /\ [e EXCEPT !.res = res, !.got = completion].by = e.by
           /\ [e EXCEPT !.res = res, !.got = completion].to = e.to
           /\ [e EXCEPT !.res = res, !.got = completion].res = res
    BY DEF Entry
  <1>6. \A i \in DOMAIN calls :
           /\ calls'[i] \in Entry(U)
           /\ calls'[i].hop = calls[i].hop
           /\ calls'[i].by = calls[i].by
           /\ calls'[i].to = calls[i].to
           /\ calls'[i].res = IF i \in OfThisHop(a) THEN res ELSE calls[i].res
    <2> SUFFICES ASSUME NEW i \in DOMAIN calls
                 PROVE  /\ calls'[i] \in Entry(U)
                        /\ calls'[i].hop = calls[i].hop
                        /\ calls'[i].by = calls[i].by
                        /\ calls'[i].to = calls[i].to
                        /\ calls'[i].res = IF i \in OfThisHop(a) THEN res ELSE calls[i].res
      OBVIOUS
    <2>1. calls[i] \in Entry(T)
      BY <1>3
    <2>2. CASE i \in OfThisHop(a)
      <3> DEFINE new == [calls[i] EXCEPT !.res = res, !.got = completion]
      <3>1. calls'[i] = new
        BY <1>4, <2>2
      <3>2. /\ new \in Entry(U)
            /\ new.hop = calls[i].hop /\ new.by = calls[i].by /\ new.to = calls[i].to
            /\ new.res = res
        BY <1>5, <2>1
      <3> HIDE DEF new
      <3> QED
        BY <2>2, <3>1, <3>2
    <2>3. CASE i \notin OfThisHop(a)
      <3>1. calls'[i] = calls[i]
        BY <1>4, <2>3
      <3>2. Entry(T) \subseteq Entry(U)
        BY DEF Entry
      <3> QED
        BY <2>1, <2>3, <3>1, <3>2
    <2> QED
      BY <2>2, <2>3
  <1> HIDE DEF U
  <1>7. calls' \in [1..Len(calls) -> Entry(U)]
    BY <1>2, <1>4, <1>6 DEF Settled
  <1>8. calls' \in Seq(Entry(U))
    BY <1>2, <1>7, SeqDef
  <1>9. Len(calls') = Len(calls)
    <2>1. Len(calls') \in Nat /\ 1..Len(calls') = 1..Len(calls)
      BY <1>2, <1>4, <1>8, LenProperties
    <2>2. \A m, n \in Nat : 1..m = 1..n => m = n
      <3> SUFFICES ASSUME NEW m \in Nat, NEW n \in Nat, 1..m = 1..n PROVE m <= n /\ n <= m
        OBVIOUS
      <3>1. m \in 1..m \/ m = 0
        OBVIOUS
      <3>2. n \in 1..n \/ n = 0
        OBVIOUS
      <3> QED
        BY <3>1, <3>2
    <2> QED
      BY <1>2, <2>1, <2>2
  <1> QED
    BY <1>4, <1>8, <1>9, <1>6 DEF Typed

(* What the event loop does leaves sent what was sent, and settled what was settled. *)
LEMMA LoopKeeps ==
    ASSUME HP!Safe, H!LoopStep
    PROVE  /\ phase \notin {"idle", "returned", "raised"} /\ phase' # "idle"
           /\ \A a \in H!Attempts :
                 /\ Sent(a) => Sent(a)'
                 /\ task[a] \in {"ok", "permanent"} => task'[a] = task[a]
  <1> USE DEF H!Failures, H!Attempts, H!Arrived, H!Finished, H!Return, H!Raise, Sent
  <1>1. task \in [H!Attempts -> {"none", "created", "running", "ok", "cancelling", "cancelled",
                                "retryable", "permanent", "routing", "config"}]
    BY HedgeFacts
  <1>2. CASE H!DirectReturns \/ H!DirectRaises \/ H!Threshold
    BY <1>2 DEF H!DirectReturns, H!DirectRaises, H!Threshold
  <1>3. CASE H!FastPath \/ H!FailsPermanently
    BY <1>3 DEF H!FastPath, H!FailsPermanently
  <1>4. CASE H!FireSecondary
    <2>1. task["secondary"] = "none"
      BY <1>4 DEF H!FireSecondary, HP!Safe, HP!IInv, HP!Shape
    <2> QED
      BY <1>1, <1>4, <2>1 DEF H!FireSecondary
  <1>5. \A a \in H!Attempts : a \in pending \ H!Done => task[a] \notin {"ok", "permanent"}
    BY DEF H!Done
  <1>6. \A S : \A a \in H!Attempts :
           H!Cancelling(S)[a] = IF a \in S THEN "cancelling" ELSE task[a]
    BY DEF H!Cancelling
  <1>7. CASE H!RaceGoesOn
    BY <1>7 DEF H!RaceGoesOn, H!Resumed
  <1>8. CASE H!RaceLost
    BY <1>5, <1>6, <1>8 DEF H!RaceLost, H!Resumed
  <1>9. ASSUME NEW b \in H!Attempts, H!RaceWon(b)
        PROVE  /\ phase \notin {"idle", "returned", "raised"} /\ phase' # "idle"
               /\ \A a \in H!Attempts :
                     /\ Sent(a) => Sent(a)'
                     /\ task[a] \in {"ok", "permanent"} => task'[a] = task[a]
    BY <1>5, <1>6, <1>9 DEF H!RaceWon, H!Resumed, H!AfterWin
  <1> QED
    BY <1>2, <1>3, <1>4, <1>7, <1>8, <1>9 DEF H!LoopStep

-----------------------------------------------------------------------------
(* The steps. *)

(* Nothing is sent or settled. *)
LEMMA Unmoved ==
    ASSUME Ledger, UNCHANGED <<stage, hop, visited, slots, calls, answer>>,
           \/ UNCHANGED <<phase, task>>
           \/ /\ stage = "calling"
              /\ \A a \in H!Attempts :
                    /\ Sent(a) => Sent(a)'
                    /\ task[a] \in {"ok", "permanent"} => task'[a] = task[a]
    PROVE  Books'
  <1> USE DEF Ledger, Books
  <1>1. \A a \in H!Attempts :
           /\ Sent(a) => Sent(a)'
           /\ task[a] \in {"ok", "permanent"} => task'[a] = task[a]
    BY DEF Sent
  <1>2. \A i \in DOMAIN calls : calls[i].by \in H!Attempts
    BY TypedFacts
  <1>3. "primary" \in H!Attempts /\ "secondary" \in H!Attempts
    BY DEF H!Attempts
  <1>4. Typed' /\ Unique' /\ Metered'
    BY DEF Typed, Unique, Metered
  <1>5. Path'
    BY DEF Path, HopNumber
  <1>6. Chain'
    BY <1>1, <1>2 DEF Chain, HopNumber
  <1>7. Counted'
    <2>1. HopNumber \in Nat
      BY FS_CardinalityType DEF HopNumber, Path
    <2>2. /\ SentNow("primary") \in {0, 1} /\ SentNow("primary")' \in {0, 1}
          /\ SentNow("secondary") \in {0, 1} /\ SentNow("secondary")' \in {0, 1}
          /\ SentNow("primary") <= SentNow("primary")'
          /\ SentNow("secondary") <= SentNow("secondary")'
      BY <1>1, <1>3 DEF SentNow
    <2>3. HopNumber' = HopNumber /\ Len(calls') = Len(calls) /\ Len(calls) \in Nat
      BY TypedFacts DEF HopNumber
    <2> QED
      BY <2>1, <2>2, <2>3 DEF Counted
  <1>8. Final'
    BY <1>1, <1>2, <1>3 DEF Final, HopNumber
  <1> QED
    BY <1>4, <1>5, <1>6, <1>7, <1>8

(* The request is answered where it is. *)
LEMMA AnsweredHere ==
    ASSUME Ledger, NEW outcome \in Verdicts, Answer(outcome),
           UNCHANGED <<hop, visited, calls, phase, task>>,
           slots' = slots \/ \E r : slots' = Charged(r),
           phase \in {"idle", "returned", "raised"},
           \A i \in DOMAIN calls :
               calls[i].res = "ok" => outcome \in {"ok", "output_blocked", "crashed"}
    PROVE  Books'
  <1> USE DEF Ledger, Books, Answer
  <1>1. Typed' /\ Unique'
    BY DEF Typed, Unique
  <1>2. Path'
    BY DEF Path, HopNumber, Verdicts
  <1>3. Chain'
    BY DEF Chain, HopNumber, Sent
  <1>4. Counted'
    BY DEF Counted, HopNumber, SentNow, Sent
  <1>5. Final'
    BY DEF Final, HopNumber
  <1>6. Metered'
    BY DEF Metered, Charged
  <1> QED
    BY <1>1, <1>2, <1>3, <1>4, <1>5, <1>6

(* An attempt whose request was sent is settled. *)
LEMMA Settles ==
    ASSUME Ledger, stage = "calling", NEW a \in H!Attempts, task[a] \in {"running", "cancelling"},
           NEW res \in {"ok", "retryable", "permanent", "cancelled"}, NEW completion,
           task' = [task EXCEPT ![a] = res], calls' = Settled(a, res, completion),
           UNCHANGED <<stage, hop, visited, slots, answer>>
    PROVE  Books'
  <1> USE DEF Ledger, Books
  <1>1. /\ Typed'
        /\ Len(calls') = Len(calls) /\ DOMAIN calls' = DOMAIN calls
        /\ \A i \in DOMAIN calls :
              /\ calls'[i].hop = calls[i].hop
              /\ calls'[i].by = calls[i].by
              /\ calls'[i].to = calls[i].to
              /\ calls'[i].res = IF i \in OfThisHop(a) THEN res ELSE calls[i].res
    BY SettledFacts
  <1>2. /\ DOMAIN task = H!Attempts /\ task'[a] = res
        /\ \A b \in H!Attempts \ {a} : task'[b] = task[b]
    BY HedgeFacts
  <1>3. \A b \in H!Attempts : Sent(b)' <=> Sent(b)
    BY <1>2 DEF Sent
  <1>4. \A i \in DOMAIN calls : calls[i].by \in H!Attempts
    BY TypedFacts
  <1>5. "primary" \in H!Attempts /\ "secondary" \in H!Attempts
    BY DEF H!Attempts
  <1>6. Path' /\ Metered'
    BY DEF Path, HopNumber, Metered
  <1>7. Chain' /\ Unique'
    BY <1>1, <1>3, <1>4 DEF Chain, Unique, HopNumber
  <1>8. Counted'
    BY <1>1, <1>3, <1>5 DEF Counted, HopNumber, SentNow
  <1>9. Final'
    BY <1>1, <1>2, <1>4 DEF Final, HopNumber, OfThisHop, Path
  <1> QED
    BY <1>1, <1>6, <1>7, <1>8, <1>9

(* An attempt's request is sent. *)
LEMMA Sends ==
    ASSUME Ledger, NEW a \in H!Attempts, Send(a)
    PROVE  Books'
  <1> USE DEF Ledger, Books
  <1>1. /\ task[a] = "created" /\ task' = [task EXCEPT ![a] = "running"] /\ UNCHANGED phase
        /\ UNCHANGED <<stage, hop, visited, slots, answer>>
        /\ calls' = Append(calls, Request(Cardinality(visited), a, Target(a), messages, plan.rails))
    BY DEF Send, H!Send, H!Becomes, Untouched, hopVars
  <1>2. /\ DOMAIN task = H!Attempts /\ task'[a] = "running"
        /\ \A b \in H!Attempts \ {a} : task'[b] = task[b]
    BY <1>1, HedgeFacts
  <1>3. HopNumber \in Nat /\ HopNumber' = HopNumber
    BY <1>1, FS_CardinalityType DEF Path, HopNumber
  <1> DEFINE new == Len(calls) + 1
  <1>4. /\ Typed'
        /\ Len(calls') = Len(calls) + 1 /\ DOMAIN calls' = DOMAIN calls \cup {new}
        /\ new \notin DOMAIN calls
        /\ \A i \in DOMAIN calls : calls'[i] = calls[i]
        /\ calls'[new].hop = HopNumber /\ calls'[new].by = a /\ calls'[new].to = Target(a)
        /\ calls'[new].res = "running"
    BY <1>1, <1>3, Appended DEF HopNumber
  <1>5. /\ Len(calls) \in Nat
        /\ \A i \in DOMAIN calls : calls[i].hop \in Nat /\ calls[i].by \in H!Attempts
    BY TypedFacts
  <1> HIDE DEF new
  <1>6. ~Sent(a) /\ Sent(a)' /\ \A b \in H!Attempts \ {a} : Sent(b)' <=> Sent(b)
    BY <1>1, <1>2 DEF Sent
  <1>7. Path' /\ Metered'
    <2>1. stage = "calling"
      BY <1>1, HedgeFacts DEF Path
    <2> QED
      BY <1>1, <1>3, <2>1 DEF Path, Metered
  <1>8. Chain'
    BY <1>1, <1>3, <1>4, <1>5, <1>6 DEF Chain, Target
  <1>9. Unique'
    <2>1. \A i \in DOMAIN calls : ~(calls[i].hop = HopNumber /\ calls[i].by = a)
      BY <1>6 DEF Chain
    <2>2. \A i \in DOMAIN calls :
             a = "primary" /\ calls[i].by = "primary" => calls[i].to # Target(a)
      BY <2>1 DEF Chain, Path, Target
    <2> QED
      BY <1>4, <2>1, <2>2 DEF Unique
  <1>10. Counted'
    <2>1. a \in {"primary", "secondary"} /\ {"primary", "secondary"} = H!Attempts
      BY DEF H!Attempts
    <2>2. CASE a = "primary"
      BY <1>3, <1>4, <1>5, <1>6, <2>1, <2>2 DEF Counted, SentNow
    <2>3. CASE a = "secondary"
      BY <1>3, <1>4, <1>5, <1>6, <2>1, <2>3 DEF Counted, SentNow
    <2> QED
      BY <2>1, <2>2, <2>3
  <1>11. Final'
    BY <1>1, <1>2, <1>3, <1>4, <1>5 DEF Final
  <1> QED
    BY <1>4, <1>7, <1>8, <1>9, <1>10, <1>11

(* A hop is entered: the first, or after one that failed in a way worth retrying elsewhere. *)
Opening(seen) ==
    \/ stage \in {"new", "classifying"} /\ seen = {}
    \/ stage = "calling" /\ phase = "raised" /\ raised # "permanent" /\ seen = visited \cup {hop}

LEMMA OpeningFacts ==
    ASSUME Ledger, NEW seen, Opening(seen)
    PROVE  /\ phase \in {"idle", "raised"} /\ answer = "none"
           /\ IsFiniteSet(seen) /\ Cardinality(seen) \in Nat
           /\ \A i \in DOMAIN calls :
                 /\ calls[i].hop < Cardinality(seen) /\ calls[i].res # "ok"
                 /\ ~(calls[i].by = "primary" /\ calls[i].res = "permanent")
                 /\ calls[i].by = "primary" => calls[i].to \in seen
           /\ Len(calls) <= 2 * Cardinality(seen)
           /\ \A r \in Routes : r \in seen => slots[r] > 0
  <1> USE DEF Ledger, Books, Opening
  <1>1. CASE stage \in {"new", "classifying"} /\ seen = {}
    <2>1. calls = <<>> /\ DOMAIN calls = {} /\ Len(calls) = 0
      BY <1>1 DEF Path
    <2>2. IsFiniteSet(seen) /\ Cardinality(seen) = 0
      BY <1>1, FS_EmptySet
    <2>3. phase = "idle" /\ answer = "none"
      BY <1>1 DEF Path
    <2> QED
      BY <1>1, <2>1, <2>2, <2>3
  <1>2. CASE /\ stage = "calling" /\ phase = "raised" /\ raised # "permanent"
             /\ seen = visited \cup {hop}
    <2>1. /\ HopNumber \in Nat /\ IsFiniteSet(seen)
          /\ Cardinality(seen) \in Nat /\ Cardinality(seen) = HopNumber + 1
      BY <1>2, FS_CardinalityType, FS_AddElement DEF Path, HopNumber
    <2>2. answer = "none"
      BY <1>2 DEF Path
    <2>3. raised = task["primary"] /\ \A a \in H!Attempts : task[a] # "ok"
      BY <1>2, HedgeFacts
    <2>4. /\ Len(calls) \in Nat
          /\ \A i \in DOMAIN calls : calls[i].hop \in Nat /\ calls[i].by \in H!Attempts
      BY TypedFacts
    <2>5. \A i \in DOMAIN calls :
             /\ calls[i].hop < Cardinality(seen)
             /\ calls[i].by = "primary" => calls[i].to \in seen
      BY <1>2, <2>1, <2>4 DEF Chain
    <2>6. \A i \in DOMAIN calls :
             /\ calls[i].res # "ok"
             /\ ~(calls[i].by = "primary" /\ calls[i].res = "permanent")
      BY <1>2, <2>3, <2>4 DEF Final
    <2>7. Len(calls) <= 2 * Cardinality(seen)
      BY <2>1, <2>4 DEF Counted, SentNow
    <2>8. \A r \in Routes : r \in seen => slots[r] > 0
      BY <1>2 DEF Metered
    <2> QED
      BY <1>2, <2>1, <2>2, <2>5, <2>6, <2>7, <2>8
  <1> QED
    BY <1>1, <1>2

LEMMA Starts ==
    ASSUME Ledger, NEW r, NEW seen, Opening(seen), Start(r, seen)
    PROVE  Books'
  <1> DEFINE n == Cardinality(seen)
  <1>1. /\ phase \in {"idle", "raised"} /\ answer = "none"
        /\ IsFiniteSet(seen) /\ n \in Nat
        /\ \A i \in DOMAIN calls :
              /\ calls[i].hop < n /\ calls[i].res # "ok"
              /\ ~(calls[i].by = "primary" /\ calls[i].res = "permanent")
              /\ calls[i].by = "primary" => calls[i].to \in seen
        /\ Len(calls) <= 2 * n
        /\ \A q \in Routes : q \in seen => slots[q] > 0
    BY OpeningFacts
  <1>2. /\ r \notin seen /\ n < MaxDepth
        /\ slots' = Charged(r) /\ stage' = "calling" /\ hop' = r /\ visited' = seen
        /\ answer' = "none"
    BY <1>1, ConstantsOK DEF Start, Loops
  <1>3. /\ task' = [H!NoTasks EXCEPT !["primary"] = IF Hedging(r) THEN "created" ELSE "running"]
        /\ phase' = IF Hedging(r) THEN "waiting" ELSE "direct"
    BY DEF Start, H!Call
  <1>4. Sent("primary")' <=> ~Hedging(r)
    BY <1>3 DEF Sent, H!NoTasks, H!Attempts
  <1>5. HopNumber' = n
    BY <1>2 DEF HopNumber
  <1>6. /\ Typed /\ Len(calls) \in Nat
        /\ \A i \in DOMAIN calls : calls[i].hop \in Nat /\ calls[i].by \in H!Attempts
    BY TypedFacts DEF Ledger, Books
  <1>7. Unique
    BY DEF Ledger, Books
  <1> HIDE DEF n
  <1>8. Path'
    BY <1>1, <1>2, <1>3, <1>5 DEF Path
  <1>9. Metered'
    <2>1. slots \in [Routes -> Nat]
      BY DEF Ledger, Books, Metered
    <2>2. slots' = [slots EXCEPT ![r] = slots[r] + 1]
      BY <1>2 DEF Charged
    <2>3. /\ slots' \in [Routes -> Nat]
          /\ \A q \in Routes : slots'[q] >= slots[q] /\ (q = r => slots'[q] > 0)
      <3>1. \A q \in Routes : /\ slots[q] \in Nat
                              /\ slots'[q] = IF q = r THEN slots[q] + 1 ELSE slots[q]
        BY <2>1, <2>2
      <3>2. \A q \in Routes : slots'[q] \in Nat
        BY <3>1
      <3>3. slots' = [q \in Routes |-> slots'[q]]
        BY <2>1, <2>2
      <3> QED
        BY <3>1, <3>2, <3>3
    <2>4. \A q \in Routes : q \in seen \cup {r} => slots'[q] > 0
      BY <1>1, <2>1, <2>3
    <2> QED
      BY <1>2, <2>3, <2>4 DEF Metered
  <1>10. SentNow("primary")' \in {0, 1} /\ SentNow("secondary")' \in {0, 1}
    BY DEF SentNow
  <1>11. CASE Hedging(r)
    <2>1. calls' = calls
      BY <1>11 DEF Start
    <2>2. Typed' /\ Unique'
      BY <1>6, <1>7, <2>1 DEF Typed, Unique
    <2>3. Chain'
      BY <1>1, <1>2, <1>5, <1>6, <2>1 DEF Chain
    <2>4. Counted'
      BY <1>1, <1>5, <1>6, <1>10, <2>1 DEF Counted
    <2>5. Final'
      BY <1>1, <2>1 DEF Final
    <2> QED
      BY <1>8, <1>9, <2>2, <2>3, <2>4, <2>5 DEF Books
  <1>12. CASE ~Hedging(r)
    <2> DEFINE new == Len(calls) + 1
    <2>1. calls' = Append(calls, Request(n, "primary", r, messages', plan'.rails))
      BY <1>12 DEF Start, n
    <2>2. "primary" \in H!Attempts
      BY DEF H!Attempts
    <2>3. /\ Typed'
          /\ Len(calls') = Len(calls) + 1 /\ DOMAIN calls' = DOMAIN calls \cup {new}
          /\ new \notin DOMAIN calls
          /\ \A i \in DOMAIN calls : calls'[i] = calls[i]
          /\ calls'[new].hop = n /\ calls'[new].by = "primary" /\ calls'[new].to = r
          /\ calls'[new].res = "running"
      BY <1>1, <1>6, <2>1, <2>2, Appended
    <2> HIDE DEF new
    <2>4. Unique'
      BY <1>1, <1>2, <1>6, <1>7, <2>3 DEF Unique
    <2>5. Chain'
      BY <1>1, <1>2, <1>4, <1>5, <1>6, <1>12, <2>3 DEF Chain
    <2>6. Counted'
      BY <1>1, <1>4, <1>5, <1>6, <1>10, <1>12, <2>3 DEF Counted, SentNow
    <2>7. Final'
      BY <1>1, <2>3 DEF Final
    <2> QED
      BY <1>8, <1>9, <2>3, <2>4, <2>5, <2>6, <2>7 DEF Books
  <1> QED
    BY <1>11, <1>12

LEMMA Enters ==
    ASSUME Ledger, NEW r, NEW seen, Opening(seen), Enter(r, seen)
    PROVE  Books'
  <1>1. \A i \in DOMAIN calls : calls[i].res # "ok"
    BY OpeningFacts
  <1>2. phase \in {"idle", "returned", "raised"}
    BY OpeningFacts
  <1>3. ASSUME NEW outcome \in Verdicts, Answer(outcome), UNCHANGED <<hopVars, calls, hedgeVars>>,
               slots' = slots \/ slots' = Charged(r)
        PROVE  Books'
    BY <1>1, <1>2, <1>3, AnsweredHere DEF hopVars, hedgeVars
  <1>4. CASE Start(r, seen)
    BY <1>4, Starts
  <1>5. CASE Unservable(r)
    BY <1>3, <1>5 DEF Unservable, Verdicts
  <1>6. CASE Denied(r)
    BY <1>3, <1>6 DEF Denied, Verdicts
  <1>7. CASE InputBlocked(r)
    BY <1>3, <1>7 DEF InputBlocked, Verdicts
  <1>8. CASE Looping(r, seen)
    BY <1>3, <1>8 DEF Looping, Verdicts
  <1>9. CASE Unwritten(r, seen)
    BY <1>3, <1>9 DEF Unwritten, Verdicts
  <1> QED
    BY <1>4, <1>5, <1>6, <1>7, <1>8, <1>9 DEF Enter

(* A request that ends before it got through, or whose hop failed. *)
LEMMA EndsWithout ==
    ASSUME Ledger, NEW outcome \in Verdicts, Ends(outcome),
           stage \in {"new", "classifying"} \/ phase = "raised"
    PROVE  Books'
  <1>1. phase \in {"idle", "returned", "raised"}
    BY DEF Ledger, Books, Path
  <1>2. \A i \in DOMAIN calls : calls[i].res # "ok"
    <2>1. CASE stage \in {"new", "classifying"}
      BY <2>1 DEF Ledger, Books, Path
    <2>2. CASE phase = "raised"
      <3>1. \A a \in H!Attempts : task[a] # "ok"
        BY <2>2, HedgeFacts DEF Ledger
      <3>2. \A i \in DOMAIN calls : calls[i].by \in H!Attempts
        BY TypedFacts DEF Ledger, Books
      <3> QED
        BY <3>1, <3>2 DEF Ledger, Books, Final
    <2> QED
      BY <2>1, <2>2
  <1> QED
    BY <1>1, <1>2, AnsweredHere DEF Ends, hopVars, hedgeVars

LEMMA StepKeepsBooks == Ledger /\ [Next]_vars => Books'
  <1> SUFFICES ASSUME Ledger, [Next]_vars PROVE Books'
    OBVIOUS
  <1> USE DEF Untouched, hopVars
  <1>1. ASSUME NEW header, NEW request, Arrive(header, request) PROVE Books'
    <2>1. stage = "new" /\ Opening({})
      BY <1>1 DEF Arrive, Opening
    <2>2. ASSUME NEW r, Enter(r, {}) PROVE Books'
      BY <2>1, <2>2, Enters
    <2>3. ASSUME NEW outcome \in Verdicts, Ends(outcome) PROVE Books'
      BY <2>1, <2>3, EndsWithout
    <2>4. {"unauthorized", "unprocessable", "not_found"} \subseteq Verdicts
      BY DEF Verdicts
    <2>5. CASE ArriveAuto
      <3>1. CASE /\ stage' = "classifying"
                 /\ UNCHANGED <<hop, visited, slots, calls, answer, phase, task>>
        <4>1. phase = "idle" /\ calls = <<>> /\ visited = {} /\ answer = "none"
          BY <2>1 DEF Ledger, Books, Path
        <4> QED
          BY <2>1, <3>1, <4>1
             DEF Ledger, Books, Typed, Path, Chain, Unique, Counted, Final, Metered,
                 HopNumber, SentNow, Sent
      <3> QED
        BY <2>2, <2>3, <2>4, <2>5, <3>1 DEF ArriveAuto, hedgeVars
    <2> QED
      BY <1>1, <2>2, <2>3, <2>4, <2>5 DEF Arrive
  <1>2. CASE Classified
    BY <1>2, Enters DEF Classified, Opening
  <1>3. CASE ClassifierFails
    BY <1>3, EndsWithout DEF ClassifierFails, Verdicts
  <1>4. ASSUME NEW a \in H!Attempts, Send(a) PROVE Books'
    BY <1>4, Sends
  <1> DEFINE Busy == phase \notin {"idle", "returned", "raised"}
  <1>5. Busy => stage = "calling"
    BY DEF Ledger, Books, Path
  <1>6. \A a \in H!Attempts : task[a] \in {"created", "running", "cancelling"} => Busy
    BY HedgeFacts DEF Ledger
  <1>7. DOMAIN task = H!Attempts
    BY HedgeFacts DEF Ledger
  <1> HIDE DEF Busy
  <1>8. ASSUME NEW a \in H!Attempts, Refuse(a) PROVE Books'
    <2>1. PICK f \in {"config", "routing"} : task[a] = "created" /\ task' = [task EXCEPT ![a] = f]
      BY <1>8 DEF Refuse, H!Refuse, H!Becomes
    <2>2. \A b \in H!Attempts : /\ Sent(b) => Sent(b)'
                                /\ task[b] \in {"ok", "permanent"} => task'[b] = task[b]
      BY <1>7, <2>1 DEF Sent
    <2> QED
      BY <1>5, <1>6, <1>8, <2>1, <2>2, Unmoved DEF Refuse
  <1>9. ASSUME NEW a \in H!Attempts, NEW answered, Respond(a, answered) PROVE Books'
    <2>1. PICK i \in OfThisHop(a) :
             LET made == Completion(calls[i].via, answered)
             IN  /\ H!End(a, Outcome(made))
                 /\ calls' = Settled(a, Outcome(made), [text |-> made.text, tokens |-> made.tokens])
      BY <1>9 DEF Respond
    <2> DEFINE made == Completion(calls[i].via, answered)
    <2> DEFINE res == Outcome(made)
    <2>2. res \in {"ok", "retryable", "permanent", "cancelled"}
      BY DEF Outcome
    <2>3. /\ task[a] = "running" /\ task' = [task EXCEPT ![a] = res]
          /\ calls' = Settled(a, res, [text |-> made.text, tokens |-> made.tokens])
      BY <2>1 DEF H!End, H!Becomes
    <2>4. stage = "calling" /\ UNCHANGED <<stage, hop, visited, slots, answer>>
      BY <1>5, <1>6, <1>9, <2>3 DEF Respond
    <2> HIDE DEF made, res
    <2> QED
      BY <2>2, <2>3, <2>4, Settles
  <1>10. ASSUME NEW a \in H!Attempts, Abandoned(a) PROVE Books'
    <2>1. /\ task[a] = "cancelling" /\ task' = [task EXCEPT ![a] = "cancelled"]
          /\ calls' = Settled(a, "cancelled", NoText)
          /\ UNCHANGED <<stage, hop, visited, slots, answer>>
      BY <1>10 DEF Abandoned, H!Cancelled
    <2>2. stage = "calling"
      BY <1>5, <1>6, <2>1
    <2> QED
      BY <2>1, <2>2, Settles
  <1>11. CASE Loop
    <2>1. H!LoopStep /\ UNCHANGED <<stage, hop, visited, slots, calls, answer>>
      BY <1>11 DEF Loop
    <2> QED
      BY <1>5, <2>1, LoopKeeps, Unmoved DEF Ledger, Busy
  <1>12. CASE Serve
    <2>1. PICK i \in OfThisHop(winner), raises \in EstimateRaises :
             LET out == Outgoing(calls[i].got.text, raises)
             IN  Answer(Answered(out.outcome))
      BY <1>12 DEF Serve
    <2> DEFINE outcome == Answered(Outgoing(calls[i].got.text, raises).outcome)
    <2>2. outcome \in {"ok", "output_blocked", "crashed"} /\ Answer(outcome)
      BY <2>1 DEF Answered
    <2>3. /\ phase = "returned"
          /\ UNCHANGED <<hop, visited, slots, calls, phase, task>>
      BY <1>12 DEF Serve, hedgeVars
    <2> HIDE DEF outcome
    <2> QED
      BY <2>2, <2>3, AnsweredHere DEF Verdicts
  <1>13. CASE Misconfigured \/ GiveUp
    BY <1>13, EndsWithout DEF Misconfigured, GiveUp, Verdicts
  <1>14. CASE FallBack
    BY <1>14, Enters DEF FallBack, Failed, Retryable, Opening
  <1>15. CASE Reconfigure \/ UNCHANGED vars
    BY <1>15, Unmoved DEF Reconfigure, vars, hedgeVars
  <1> QED
    BY <1>1, <1>2, <1>3, <1>4, <1>8, <1>9, <1>10, <1>11, <1>12, <1>13, <1>14, <1>15 DEF Next, Handle

-----------------------------------------------------------------------------
(* Induction over data.  What a step of a fold makes of what came before is proved of the *)
(* numbers up to the length of the sequence, as a set: a set that has 0 and, with every    *)
(* number below n, the next one, has them all.                                             *)

LEMMA UpTo ==
    ASSUME NEW n \in Nat, NEW S, 0 \in S, \A k \in 0..(n - 1) : k \in S => k + 1 \in S
    PROVE  0..n \subseteq S
  <1> DEFINE T == 0..n \ S
  <1> DEFINE B == {0..(x - 1) : x \in T}
  <1>1. SUFFICES ASSUME T # {} PROVE FALSE
    OBVIOUS
  <1>2. IsWellFoundedOn(StrictSubsetOrdering(0..n), FiniteSubsetsOf(0..n))
    BY FS_Interval, FS_StrictSubsetOrderingWellFounded
  <1>3. B \subseteq FiniteSubsetsOf(0..n) /\ B # {}
    <2> HIDE DEF B, T
    <2>0. IsFiniteSet(0..n)
      BY FS_Interval
    <2>1. FiniteSubsetsOf(0..n) = SUBSET (0..n)
      BY <2>0, FS_FiniteSubsetsOfFinite
    <2>2. \A x \in T : 0..(x - 1) \in SUBSET (0..n)
      BY DEF T
    <2> QED
      BY <1>1, <2>1, <2>2 DEF B
  <1>4. PICK U \in B : \A V \in B : <<V, U>> \notin StrictSubsetOrdering(0..n)
    <2> HIDE DEF B
    <2> QED
      BY <1>2, <1>3, WFMin
  <1>5. PICK x \in T : U = 0..(x - 1)
    OBVIOUS
  <1>6. x \in 1..n /\ (x - 1) + 1 = x
    OBVIOUS
  <1>7. x - 1 \in T
    BY <1>6
  <1>8. 0..((x - 1) - 1) \subseteq 0..(x - 1) /\ x - 1 \in 0..(x - 1) /\ x - 1 \notin 0..((x - 1) - 1)
        /\ 0..(x - 1) \subseteq 0..n
    BY <1>6
  <1>9. <<0..((x - 1) - 1), 0..(x - 1)>> \in StrictSubsetOrdering(0..n)
    BY <1>8 DEF StrictSubsetOrdering
  <1> QED
    BY <1>4, <1>5, <1>7, <1>9

LEMMA MaxOf ==
    ASSUME NEW k \in Nat, NEW s \in SUBSET (1..(k + 1)), k + 1 \in s
    PROVE  Max(s) = k + 1
  <1>1. \A y \in s : k + 1 >= y
    OBVIOUS
  <1>2. \A x \in s : (\A y \in s : x >= y) => x = k + 1
    OBVIOUS
  <1> QED
    BY <1>1, <1>2 DEF Max

LEMMA MaxIn ==
    ASSUME NEW n \in Nat, NEW s \in SUBSET (1..n), s # {}
    PROVE  Max(s) \in 1..n
  <1> DEFINE T == {k \in 0..n : \A t \in SUBSET (1..k) : t # {} => \E x \in t : \A y \in t : x >= y}
  <1>1. 0 \in T
    <2>1. 0 \in 0..n /\ \A t \in SUBSET (1..0) : t = {}
      OBVIOUS
    <2> QED
      BY <2>1, Zenon
  <1>2. ASSUME NEW k \in 0..(n - 1), k \in T PROVE k + 1 \in T
    <2> SUFFICES ASSUME NEW t \in SUBSET (1..(k + 1)), t # {} PROVE \E x \in t : \A y \in t : x >= y
      OBVIOUS
    <2>1. CASE k + 1 \in t
      BY <2>1
    <2>2. CASE k + 1 \notin t
      <3>1. t \in SUBSET (1..k)
        BY <2>2
      <3> QED
        BY <1>2, <3>1
    <2> QED
      BY <2>1, <2>2
  <1> HIDE DEF T
  <1>3. 0..n \subseteq T
    BY <1>1, <1>2, UpTo
  <1>4. PICK x \in s : \A y \in s : x >= y
    <2>1. n \in T
      BY <1>3
    <2> QED
      BY <2>1 DEF T
  <1> QED
    BY <1>4 DEF Max

(* g is the fold of step over 1..n as SequencesExt's FoldLeft makes it, by the last element, *)
(* for as long as its values are in V.                                                        *)
IsFold(g, V, base, n, step) ==
    /\ g[{}] = base
    /\ \A s \in SUBSET (1..n) : s # {} /\ g[s \ {Max(s)}] \in V
                                   => g[s] = step[<<g[s \ {Max(s)}], Max(s)>>]

LEMMA FoldExists ==
    ASSUME NEW V, NEW base \in V, NEW n \in Nat, NEW step \in [V \X (1..n) -> V]
    PROVE  \E g \in [SUBSET (1..n) -> V] : IsFold(g, V, base, n, step)
  <1> DEFINE S == {k \in 0..n : \E g \in [SUBSET (1..k) -> V] : IsFold(g, V, base, k, step)}
  <1>1. 0 \in S
    <2> DEFINE g == [s \in SUBSET (1..0) |-> base]
    <2>1. g \in [SUBSET (1..0) -> V] /\ 1..0 = {}
      OBVIOUS
    <2>2. IsFold(g, V, base, 0, step)
      BY <2>1 DEF IsFold
    <2> HIDE DEF g
    <2>3. \E f \in [SUBSET (1..0) -> V] : IsFold(f, V, base, 0, step)
      BY <2>1, <2>2
    <2>4. 0 \in 0..n
      OBVIOUS
    <2> QED
      BY <2>3, <2>4, Zenon
  <1>2. ASSUME NEW k \in 0..(n - 1), k \in S PROVE k + 1 \in S
    <2>1. PICK g \in [SUBSET (1..k) -> V] : IsFold(g, V, base, k, step)
      BY <1>2
    <2> DEFINE h == [s \in SUBSET (1..(k + 1)) |->
                        IF k + 1 \in s THEN step[<<g[s \ {k + 1}], k + 1>>] ELSE g[s]]
    <2>2. \A s \in SUBSET (1..(k + 1)) : s \ {k + 1} \in SUBSET (1..k)
      OBVIOUS
    <2>3. \A s \in SUBSET (1..(k + 1)) : k + 1 \notin s => s \in SUBSET (1..k)
      OBVIOUS
    <2>4. \A s \in SUBSET (1..k) : s \in SUBSET (1..(k + 1)) /\ k + 1 \notin s /\ h[s] = g[s]
      OBVIOUS
    <2>5. h \in [SUBSET (1..(k + 1)) -> V]
      <3>1. k + 1 \in 1..n
        OBVIOUS
      <3> QED
        BY <2>2, <2>3, <3>1
    <2>6. IsFold(h, V, base, k + 1, step)
      <3>1. h[{}] = base
        BY <2>1, <2>4 DEF IsFold
      <3> SUFFICES ASSUME NEW s \in SUBSET (1..(k + 1)), s # {}
                   PROVE  h[s] = step[<<h[s \ {Max(s)}], Max(s)>>]
        BY <3>1 DEF IsFold
      <3>2. CASE k + 1 \in s
        <4>1. Max(s) = k + 1
          BY <3>2, MaxOf
        <4>2. h[s \ {k + 1}] = g[s \ {k + 1}]
          BY <2>2, <2>4
        <4>3. h[s] = step[<<g[s \ {k + 1}], k + 1>>]
          BY <3>2
        <4> HIDE DEF h
        <4> QED
          BY <3>2, <4>1, <4>2, <4>3
      <3>3. CASE k + 1 \notin s
        <4>1. s \in SUBSET (1..k) /\ s \ {Max(s)} \in SUBSET (1..k)
          BY <2>3, <3>3
        <4>2. h[s] = g[s] /\ h[s \ {Max(s)}] = g[s \ {Max(s)}]
          BY <2>4, <4>1
        <4>3. g[s \ {Max(s)}] \in V
          BY <4>1
        <4> HIDE DEF h
        <4> QED
          BY <2>1, <4>1, <4>2, <4>3 DEF IsFold
      <3> QED
        BY <3>2, <3>3
    <2> HIDE DEF h
    <2>7. \E f \in [SUBSET (1..(k + 1)) -> V] : IsFold(f, V, base, k + 1, step)
      BY <2>5, <2>6
    <2>8. k + 1 \in 0..n
      OBVIOUS
    <2> QED
      BY <2>7, <2>8, Zenon
  <1>3. n \in S
    <2> HIDE DEF S
    <2>1. 0..n \subseteq S
      BY <1>1, <1>2, UpTo
    <2> QED
      BY <2>1
  <1> QED
    BY <1>3

(* What a fold computes, by its prefixes. *)
FoldsBy(so, g, base, n, step) ==
    /\ so[0] = base
    /\ \A k \in 1..n : so[k] = step[<<so[k - 1], k>>]
    /\ g[1..n] = so[n]

LEMMA FoldPrefixes ==
    ASSUME NEW V, NEW base \in V, NEW n \in Nat, NEW step \in [V \X (1..n) -> V],
           NEW g, IsFold(g, V, base, n, step)
    PROVE  \E so \in [0..n -> V] : FoldsBy(so, g, base, n, step)
  <1> DEFINE so == [k \in 0..n |-> g[1..k]]
  <1>1. g[1..0] = base
    BY 1..0 = {} DEF IsFold
  <1>2. ASSUME NEW k \in 0..(n - 1), g[1..k] \in V PROVE g[1..(k + 1)] = step[<<g[1..k], k + 1>>]
    <2>1. 1..(k + 1) \in SUBSET (1..n) /\ 1..(k + 1) # {} /\ k + 1 \in 1..(k + 1) /\ k \in Nat
      OBVIOUS
    <2>2. Max(1..(k + 1)) = k + 1
      BY <2>1, MaxOf
    <2>3. (1..(k + 1)) \ {k + 1} = 1..k
      BY <2>1
    <2>4. g[(1..(k + 1)) \ {Max(1..(k + 1))}] \in V
      BY <1>2, <2>2, <2>3
    <2>5. g[1..(k + 1)] = step[<<g[(1..(k + 1)) \ {Max(1..(k + 1))}], Max(1..(k + 1))>>]
      BY <2>1, <2>4 DEF IsFold
    <2> QED
      BY <2>2, <2>3, <2>5
  <1>3. \A k \in 0..n : g[1..k] \in V
    <2> DEFINE S == {k \in 0..n : g[1..k] \in V}
    <2>1. 0 \in S
      BY <1>1
    <2>2. ASSUME NEW k \in 0..(n - 1), k \in S PROVE k + 1 \in S
      <3>1. k + 1 \in 1..n /\ k + 1 \in 0..n
        OBVIOUS
      <3>2. <<g[1..k], k + 1>> \in V \X (1..n)
        BY <2>2, <3>1
      <3>3. step[<<g[1..k], k + 1>>] \in V
        BY <3>2
      <3> QED
        BY <1>2, <2>2, <3>1, <3>3
    <2> HIDE DEF S
    <2>3. 0..n \subseteq S
      BY <2>1, <2>2, UpTo
    <2> QED
      BY <2>3 DEF S
  <1>4. 0 \in 0..n /\ n \in 0..n
    OBVIOUS
  <1>5. so \in [0..n -> V] /\ so[0] = base /\ so[n] = g[1..n]
    BY <1>1, <1>3, <1>4, Zenon
  <1>6. ASSUME NEW k \in 1..n PROVE so[k] = step[<<so[k - 1], k>>]
    <2>1. k - 1 \in 0..(n - 1) /\ (k - 1) + 1 = k /\ k \in 0..n /\ k - 1 \in 0..n
      OBVIOUS
    <2> QED
      BY <1>2, <1>3, <2>1
  <1> HIDE DEF so
  <1>7. FoldsBy(so, g, base, n, step)
    BY <1>5, <1>6 DEF FoldsBy
  <1> QED
    BY <1>5, <1>7

-----------------------------------------------------------------------------
(* What guardrails leave of a text and of a prompt. *)

TextOutcome == [outcome : {"ok", "blocked", "crashed"}, result : Text]

LEMMA TextFacts ==
    ASSUME NEW text \in Text
    PROVE  /\ Len(text) \in Nat /\ DOMAIN text = 1..Len(text)
           /\ \A i \in DOMAIN text : text[i] \in Piece
  BY LenProperties, ElementOfSeq DEF Text

(* What stands in the place of one word: the word, or words of the guardrail's. *)
LEMMA InPlaceFacts ==
    ASSUME NEW g \in Guardrail, NEW piece \in Piece
    PROVE  /\ InPlaceOf(g, piece) \in Text
           /\ Finds(g, piece) => \A i \in DOMAIN InPlaceOf(g, piece) : InPlaceOf(g, piece)[i].by = "guardrail"
           /\ ~Finds(g, piece) => InPlaceOf(g, piece) = <<piece>>
  <1>1. CASE Finds(g, piece)
    <2> DEFINE words == g.instead[piece.word]
    <2>1. words \in Seq(Words)
      BY DEF Guardrail, Piece
    <2>2. InPlaceOf(g, piece) = [i \in DOMAIN words |-> [word |-> words[i], by |-> "guardrail"]]
      BY <1>1 DEF InPlaceOf, Inserted
    <2> HIDE DEF words
    <2>3. Len(words) \in Nat /\ DOMAIN words = 1..Len(words) /\ \A i \in 1..Len(words) : words[i] \in Words
      BY <2>1, LenProperties, ElementOfSeq
    <2>4. InPlaceOf(g, piece) \in [1..Len(words) -> Piece]
      BY <2>2, <2>3 DEF Piece
    <2> QED
      BY <1>1, <2>2, <2>3, <2>4, SeqDef DEF Text
  <1>2. CASE ~Finds(g, piece)
    <2>1. <<piece>> \in Seq(Piece)
      OBVIOUS
    <2> QED
      BY <1>2, <2>1 DEF InPlaceOf, Text
  <1> QED
    BY <1>1, <1>2

LEMMA CutFacts ==
    ASSUME NEW g \in Guardrail, NEW piece \in Piece
    PROVE  /\ CutShort(g, piece) \in Piece
           /\ CutShort(g, piece).by = "author" => CutShort(g, piece) = piece
           /\ CutShort(g, piece).by # "guardrail" => piece.by # "guardrail"
  <1>1. g.stump[piece.word] \in Words
    BY DEF Guardrail, Piece
  <1> QED
    BY <1>1 DEF CutShort, Piece

(* The author's own words: at most as many as there are words. *)
LEMMA OwnFacts ==
    ASSUME NEW text \in Text
    PROVE  /\ IsFiniteSet(Own(text)) /\ Cardinality(Own(text)) \in Nat
           /\ Own(text) \subseteq 1..Len(text) /\ Cardinality(Own(text)) <= Len(text)
  <1>1. Len(text) \in Nat /\ Own(text) \subseteq 1..Len(text)
    BY TextFacts DEF Own
  <1>2. IsFiniteSet(1..Len(text)) /\ Cardinality(1..Len(text)) = Len(text)
    <2>1. IsFiniteSet(1..Len(text))
      BY <1>1, FS_Interval
    <2>2. Cardinality(1..Len(text)) = IF 1 > Len(text) THEN 0 ELSE Len(text) - 1 + 1
      BY <1>1, FS_Interval
    <2> QED
      BY <1>1, <2>1, <2>2
  <1>3. IsFiniteSet(Own(text)) /\ Cardinality(Own(text)) <= Cardinality(1..Len(text))
    BY <1>1, <1>2, FS_Subset
  <1> QED
    BY <1>1, <1>2, <1>3, FS_CardinalityType

(* ReplacedBy(so, g, text): so[k] is what replacing makes of the first k words. *)
ReplacedBy(so, g, text) ==
    /\ so[0] = <<>>
    /\ \A k \in 1..Len(text) : so[k] = so[k - 1] \o InPlaceOf(g, text[k])
    /\ Replaced(g, text) = so[Len(text)]

IsReplacement(h, g, text) ==
    h = [s \in SUBSET (1..Len(text)) |-> IF s = {} THEN <<>>
                                         ELSE h[s \ {Max(s)}] \o InPlaceOf(g, text[Max(s)])]

LEMMA ReplacedFold ==
    ASSUME NEW g \in Guardrail, NEW text \in Text
    PROVE  \E so \in [0..Len(text) -> Text] : ReplacedBy(so, g, text)
  <1> DEFINE n == Len(text)
  <1>1. Replaced(g, text) = (CHOOSE h : IsReplacement(h, g, text))[1..n]
    <2>1. DOMAIN text = 1..n
      BY TextFacts
    <2> QED
      BY <2>1, Zenon DEF Replaced, FoldLeft, MapThenFoldSet, IsReplacement
  <1> DEFINE step == [x \in Text \X (1..n) |-> x[1] \o InPlaceOf(g, text[x[2]])]
  <1>2. <<>> \in Text /\ n \in Nat
    BY TextFacts, EmptySeq DEF Text
  <1>3. \A done \in Text, k \in 1..n : done \o InPlaceOf(g, text[k]) \in Text
    BY TextFacts, InPlaceFacts, ConcatProperties DEF Text
  <1>4. step \in [Text \X (1..n) -> Text]
    BY <1>3
  <1>5. \A done \in Text, k \in 1..n : step[<<done, k>>] = done \o InPlaceOf(g, text[k])
    OBVIOUS
  <1>6. \A s \in SUBSET (1..n) : s # {} => Max(s) \in 1..n
    BY <1>2, MaxIn
  <1> HIDE DEF step, n
  <1>7. PICK h \in [SUBSET (1..n) -> Text] : IsFold(h, Text, <<>>, n, step)
    BY <1>2, <1>4, FoldExists
  <1>8. IsReplacement(h, g, text)
    <2>1. ASSUME NEW s \in SUBSET (1..n), s # {} PROVE h[s] = h[s \ {Max(s)}] \o InPlaceOf(g, text[Max(s)])
      BY <1>5, <1>6, <1>7, <2>1 DEF IsFold
    <2>2. h[{}] = <<>>
      BY <1>7 DEF IsFold
    <2> QED
      BY <2>1, <2>2 DEF IsReplacement, n
  <1> DEFINE f == CHOOSE f : IsReplacement(f, g, text)
  <1>9. IsReplacement(f, g, text)
    BY <1>8
  <1> HIDE DEF f
  <1>10. IsFold(f, Text, <<>>, n, step)
    BY <1>5, <1>6, <1>9 DEF IsFold, IsReplacement, n
  <1>11. PICK so \in [0..n -> Text] : FoldsBy(so, f, <<>>, n, step)
    BY <1>2, <1>4, <1>10, FoldPrefixes
  <1>12. \A k \in 1..n : so[k] = so[k - 1] \o InPlaceOf(g, text[k])
    <2> SUFFICES ASSUME NEW k \in 1..n PROVE so[k] = so[k - 1] \o InPlaceOf(g, text[k])
      OBVIOUS
    <2>1. k - 1 \in 0..n
      BY <1>2
    <2>2. so[k - 1] \in Text
      BY <2>1, <1>11
    <2> QED
      BY <1>5, <1>11, <2>2 DEF FoldsBy
  <1>13. ReplacedBy(so, g, text)
    BY <1>1, <1>11, <1>12 DEF f, n, FoldsBy, ReplacedBy
  <1> QED
    BY <1>13 DEF n

(* What a guardrail leaves of a text: nothing of the author's that was not there, *)
Redacts(before, after) ==
    \A i \in DOMAIN after : after[i].by = "author" => \E j \in DOMAIN before : before[j] = after[i]

(* and not more of it. *)
Trims(before, after) == Redacts(before, after) /\ Cardinality(Own(after)) <= Cardinality(Own(before))

LEMMA NothingNew ==
    ASSUME NEW g, NEW before, NEW after, Redacts(before, after), ~LeftIn(g, before)
    PROVE  ~LeftIn(g, after)
  BY DEF Redacts, LeftIn

(* One word more, kept or replaced. *)
LEMMA OneMore ==
    ASSUME NEW g \in Guardrail, NEW done \in Text, NEW piece \in Piece
    PROVE  LET after == done \o InPlaceOf(g, piece)
           IN  /\ \A i \in DOMAIN after : after[i].by = "author" =>
                     \/ \E j \in DOMAIN done : done[j] = after[i]
                     \/ after[i] = piece /\ ~Finds(g, piece)
               /\ Cardinality(Own(after)) <=
                     Cardinality(Own(done)) + (IF piece.by # "guardrail" THEN 1 ELSE 0)
  <1> DEFINE put == InPlaceOf(g, piece)
  <1> DEFINE after == done \o put
  <1>1. put \in Text
    BY InPlaceFacts
  <1>2. /\ Len(done) \in Nat /\ DOMAIN done = 1..Len(done) /\ Len(put) \in Nat /\ DOMAIN put = 1..Len(put)
        /\ after \in Text /\ Len(after) = Len(done) + Len(put) /\ DOMAIN after = 1..(Len(done) + Len(put))
        /\ \A i \in 1..(Len(done) + Len(put)) : after[i] = IF i <= Len(done) THEN done[i] ELSE put[i - Len(done)]
    <2>1. done \in Seq(Piece) /\ put \in Seq(Piece)
      BY <1>1 DEF Text
    <2> HIDE DEF put
    <2>2. after \in Seq(Piece) /\ Len(after) = Len(done) + Len(put)
          /\ \A i \in 1..(Len(done) + Len(put)) : after[i] = IF i <= Len(done) THEN done[i] ELSE put[i - Len(done)]
      BY <2>1, ConcatProperties
    <2> HIDE DEF after
    <2> QED
      BY <2>1, <2>2, LenProperties DEF Text
  <1>3. IsFiniteSet(Own(done)) /\ Cardinality(Own(done)) \in Nat
    BY OwnFacts
  <1>4. CASE Finds(g, piece)
    <2>1. \A i \in DOMAIN put : put[i].by = "guardrail"
      BY <1>4, InPlaceFacts
    <2> HIDE DEF put, after
    <2>2. \A i \in DOMAIN after : ~(i <= Len(done)) => after[i].by = "guardrail"
      <3> SUFFICES ASSUME NEW i \in DOMAIN after, ~(i <= Len(done)) PROVE after[i].by = "guardrail"
        OBVIOUS
      <3>1. i - Len(done) \in DOMAIN put /\ after[i] = put[i - Len(done)]
        BY <1>2
      <3> QED
        BY <2>1, <3>1
    <2>3. \A i \in DOMAIN after : i <= Len(done) => i \in DOMAIN done /\ after[i] = done[i]
      BY <1>2
    <2>4. Own(after) = Own(done)
      <3>1. \A i \in DOMAIN done : i \in DOMAIN after /\ after[i] = done[i]
        BY <1>2
      <3> QED
        BY <2>2, <2>3, <3>1 DEF Own
    <2> QED
      BY <1>3, <2>2, <2>3, <2>4 DEF after, put
  <1>5. CASE ~Finds(g, piece)
    <2>1. put = <<piece>>
      BY <1>5, InPlaceFacts
    <2>2. Len(put) = 1 /\ put[1] = piece
      BY <2>1
    <2> HIDE DEF put, after
    <2>3. \A i \in DOMAIN after : \/ i \in DOMAIN done /\ after[i] = done[i]
                                  \/ i = Len(done) + 1 /\ after[i] = piece
      <3> SUFFICES ASSUME NEW i \in DOMAIN after, ~(i <= Len(done))
                   PROVE  i = Len(done) + 1 /\ after[i] = piece
        BY <1>2
      <3>1. i = Len(done) + 1 /\ i - Len(done) = 1
        BY <1>2, <2>2
      <3> QED
        BY <1>2, <2>2, <3>1
    <2>4. \A i \in DOMAIN done : i \in DOMAIN after /\ after[i] = done[i]
      BY <1>2
    <2>5. piece.by = "guardrail" => Own(after) = Own(done)
      BY <2>3, <2>4 DEF Own
    <2>6. Own(after) \subseteq Own(done) \cup {Len(done) + 1}
      BY <2>3 DEF Own
    <2>7. /\ IsFiniteSet(Own(done) \cup {Len(done) + 1})
          /\ Cardinality(Own(done) \cup {Len(done) + 1}) <= Cardinality(Own(done)) + 1
      <3>1. /\ IsFiniteSet(Own(done) \cup {Len(done) + 1})
            /\ Cardinality(Own(done) \cup {Len(done) + 1}) =
                  IF Len(done) + 1 \in Own(done) THEN Cardinality(Own(done)) ELSE Cardinality(Own(done)) + 1
        BY <1>3, FS_AddElement
      <3> QED
        BY <1>3, <3>1
    <2>8. IsFiniteSet(Own(after)) /\ Cardinality(Own(after)) <= Cardinality(Own(done)) + 1
      <3>1. Cardinality(Own(after)) <= Cardinality(Own(done) \cup {Len(done) + 1}) /\ IsFiniteSet(Own(after))
        BY <2>6, <2>7, FS_Subset
      <3>2. Cardinality(Own(after)) \in Nat /\ Cardinality(Own(done) \cup {Len(done) + 1}) \in Nat
        BY <2>7, <3>1, FS_CardinalityType
      <3> QED
        BY <1>3, <2>7, <3>1, <3>2
    <2>9. Cardinality(Own(after)) <= Cardinality(Own(done)) + (IF piece.by # "guardrail" THEN 1 ELSE 0)
      BY <1>3, <2>5, <2>8
    <2> QED
      BY <1>5, <2>3, <2>9 DEF after, put
  <1> QED
    BY <1>4, <1>5

LEMMA ReplacedFacts ==
    ASSUME NEW g \in Guardrail, NEW text \in Text
    PROVE  /\ Replaced(g, text) \in Text /\ Trims(text, Replaced(g, text))
           /\ ~LeftIn(g, Replaced(g, text))
  <1> DEFINE n == Len(text)
  <1>1. n \in Nat /\ DOMAIN text = 1..n /\ \A i \in 1..n : text[i] \in Piece
    BY TextFacts
  <1>2. PICK so \in [0..n -> Text] : ReplacedBy(so, g, text)
    BY ReplacedFold
  <1> DEFINE first(k) == {i \in 1..k : text[i].by # "guardrail"}
  <1> DEFINE Kept(k) == \A i \in DOMAIN so[k] : so[k][i].by = "author" =>
                            ~Finds(g, so[k][i]) /\ \E j \in 1..k : text[j] = so[k][i]
  <1> DEFINE Fewer(k) == Cardinality(Own(so[k])) <= Cardinality(first(k))
  <1> DEFINE S == {k \in 0..n : Kept(k) /\ Fewer(k)}
  <1>3. \A k \in 0..n : IsFiniteSet(first(k)) /\ Cardinality(first(k)) \in Nat
    <2> SUFFICES ASSUME NEW k \in 0..n PROVE IsFiniteSet(first(k))
      BY FS_CardinalityType
    <2>1. IsFiniteSet(1..k)
      BY <1>1, FS_Interval
    <2> QED
      BY <2>1, FS_Subset
  <1>4. 0 \in S
    <2>1. so[0] = <<>> /\ DOMAIN so[0] = {}
      BY <1>2 DEF ReplacedBy
    <2>2. Own(so[0]) = {}
      BY <2>1 DEF Own
    <2>3. Cardinality(Own(so[0])) = 0
      BY <2>2, FS_EmptySet
    <2>4. 0 \in 0..n
      BY <1>1
    <2>5. Kept(0)
      BY <2>1
    <2>6. Fewer(0)
      <3>1. Cardinality(first(0)) \in Nat
        BY <1>3, <2>4
      <3> HIDE DEF first
      <3> QED
        BY <2>3, <3>1
    <2> QED
      BY <2>4, <2>5, <2>6
  <1>5. ASSUME NEW k \in 0..(n - 1), k \in S PROVE k + 1 \in S
    <2>1. k \in 0..n /\ k + 1 \in 0..n /\ k + 1 \in 1..n /\ (k + 1) - 1 = k /\ k \in Nat
      BY <1>1
    <2> DEFINE piece == text[k + 1]
    <2>2. so[k] \in Text /\ so[k + 1] \in Text /\ piece \in Piece
      BY <1>1, <1>2, <2>1
    <2>3. so[k + 1] = so[k] \o InPlaceOf(g, piece)
      BY <1>2, <2>1 DEF ReplacedBy
    <2>4. Kept(k) /\ Fewer(k)
      BY <1>5
    <2>5. /\ \A i \in DOMAIN so[k + 1] : so[k + 1][i].by = "author" =>
                \/ \E j \in DOMAIN so[k] : so[k][j] = so[k + 1][i]
                \/ so[k + 1][i] = piece /\ ~Finds(g, piece)
          /\ Cardinality(Own(so[k + 1])) <=
                Cardinality(Own(so[k])) + (IF piece.by # "guardrail" THEN 1 ELSE 0)
      <3> HIDE DEF piece
      <3> QED
        BY <2>2, <2>3, OneMore
    <2>6. Kept(k + 1)
      <3> SUFFICES ASSUME NEW i \in DOMAIN so[k + 1], so[k + 1][i].by = "author"
                   PROVE  ~Finds(g, so[k + 1][i]) /\ \E j \in 1..(k + 1) : text[j] = so[k + 1][i]
        OBVIOUS
      <3>1. CASE \E j \in DOMAIN so[k] : so[k][j] = so[k + 1][i]
        <4>1. ~Finds(g, so[k + 1][i]) /\ \E j \in 1..k : text[j] = so[k + 1][i]
          BY <2>4, <3>1
        <4> QED
          BY <2>1, <4>1
      <3>2. CASE so[k + 1][i] = piece /\ ~Finds(g, piece)
        <4>1. k + 1 \in 1..(k + 1)
          BY <2>1
        <4> QED
          BY <3>2, <4>1
      <3> QED
        BY <2>5, <3>1, <3>2
    <2>7. Fewer(k + 1)
      <3>1. first(k + 1) = first(k) \cup (IF piece.by # "guardrail" THEN {k + 1} ELSE {})
        <4>1. 1..(k + 1) = 1..k \cup {k + 1}
          BY <2>1
        <4> QED
          BY <4>1
      <3>2. k + 1 \notin first(k)
        BY <2>1
      <3>3. IsFiniteSet(first(k)) /\ Cardinality(first(k)) \in Nat
        BY <1>3, <2>1
      <3>4. Cardinality(first(k + 1)) = Cardinality(first(k)) + (IF piece.by # "guardrail" THEN 1 ELSE 0)
        <4> DEFINE f == first(k)
        <4>1. f \cup {} = f
          OBVIOUS
        <4>2. Cardinality(f \cup {k + 1}) = Cardinality(f) + 1
          <5> HIDE DEF f
          <5>1. k + 1 \notin f /\ IsFiniteSet(f)
            BY <3>2, <3>3 DEF f
          <5> QED
            BY <5>1, FS_AddElement
        <4> QED
          BY <3>1, <3>3, <4>1, <4>2
      <3>5. Cardinality(Own(so[k])) \in Nat /\ Cardinality(Own(so[k + 1])) \in Nat
        BY <2>2, OwnFacts
      <3> HIDE DEF first
      <3> QED
        BY <2>4, <2>5, <3>3, <3>4, <3>5
    <2> QED
      BY <2>1, <2>6, <2>7
  <1>6. 0..n \subseteq S
    <2> HIDE DEF S, n
    <2> QED
      BY <1>1, <1>4, <1>5, UpTo
  <1>7. n \in 0..n
    BY <1>1
  <1>8. Kept(n) /\ Fewer(n) /\ so[n] \in Text
    BY <1>2, <1>6, <1>7
  <1>9. first(n) = Own(text)
    BY <1>1 DEF Own
  <1>10. Replaced(g, text) = so[n]
    BY <1>2 DEF ReplacedBy
  <1> HIDE DEF n
  <1> QED
    BY <1>1, <1>8, <1>9, <1>10 DEF Trims, Redacts, LeftIn

(* Cut short, a text has max words, and of the author's none that was not there. *)
LEMMA ShortenedFacts ==
    ASSUME NEW g \in Guardrail, NEW text \in Text
    PROVE  /\ Shortened(g, text) \in TextOutcome
           /\ Shortened(g, text).outcome \in {"ok", "blocked"}
           /\ Shortened(g, text).outcome = "ok" =>
                 /\ Trims(text, Shortened(g, text).result)
                 /\ Cardinality(Own(Shortened(g, text).result)) <= g.max
  <1>1. Len(text) \in Nat /\ DOMAIN text = 1..Len(text) /\ g.max \in Nat /\ \A i \in 1..Len(text) : text[i] \in Piece
    BY TextFacts DEF Guardrail
  <1>2. Trims(text, text)
    <2>1. Cardinality(Own(text)) \in Nat
      BY OwnFacts
    <2> QED
      BY <2>1 DEF Trims, Redacts
  <1>3. CASE Len(text) <= g.max
    <2>1. Shortened(g, text) = [outcome |-> "ok", result |-> text]
      BY <1>3 DEF Shortened, Passed
    <2>2. Cardinality(Own(text)) <= g.max
      BY <1>1, <1>3, OwnFacts
    <2> QED
      BY <1>2, <2>1, <2>2 DEF TextOutcome
  <1>4. CASE ~(Len(text) <= g.max) /\ g.action = "block"
    <2>1. Shortened(g, text) = [outcome |-> "blocked", result |-> text]
      BY <1>4 DEF Shortened, Stopped
    <2> QED
      BY <2>1 DEF TextOutcome
  <1>5. CASE ~(Len(text) <= g.max) /\ g.action # "block"
    <2> DEFINE cut == [i \in 1..g.max |-> IF i = g.max THEN CutShort(g, text[i]) ELSE text[i]]
    <2>1. Shortened(g, text) = [outcome |-> "ok", result |-> cut]
      BY <1>5 DEF Shortened, Passed
    <2>2. \A i \in 1..g.max : i \in 1..Len(text)
      BY <1>1, <1>5
    <2>3. \A i \in 1..g.max : /\ cut[i] \in Piece
                              /\ cut[i].by = "author" => cut[i] = text[i]
                              /\ cut[i].by # "guardrail" => text[i].by # "guardrail"
      BY <1>1, <2>2, CutFacts
    <2>4. DOMAIN cut = 1..g.max
      OBVIOUS
    <2>5. cut \in [1..g.max -> Piece]
      BY <2>3
    <2> HIDE DEF cut
    <2>6. cut \in Text
      BY <1>1, <2>5, SeqDef DEF Text
    <2>7. Len(cut) = g.max
      BY <1>1, <2>4, <2>6, TextFacts
    <2>8. Redacts(text, cut)
      BY <1>1, <2>2, <2>3, <2>4 DEF Redacts
    <2>9. Own(cut) \subseteq Own(text)
      BY <1>1, <2>2, <2>3, <2>4 DEF Own
    <2>10. Cardinality(Own(cut)) <= Cardinality(Own(text))
      BY <2>9, OwnFacts, FS_Subset
    <2>11. Cardinality(Own(cut)) <= g.max
      BY <2>6, <2>7, OwnFacts
    <2> QED
      BY <2>1, <2>6, <2>8, <2>10, <2>11 DEF TextOutcome, Trims
  <1> QED
    BY <1>3, <1>4, <1>5

LEMMA ScannedFacts ==
    ASSUME NEW g \in Guardrail, NEW text \in Text
    PROVE  /\ Scanned(g, text) \in TextOutcome
           /\ Trims(text, Scanned(g, text).result)
           /\ Scanned(g, text).outcome = "ok" /\ Enforced(g) => ~LeftIn(g, Scanned(g, text).result)
  <1>1. /\ Replaced(g, text) \in Text /\ Trims(text, Replaced(g, text))
        /\ ~LeftIn(g, Replaced(g, text))
    BY ReplacedFacts
  <1>2. Trims(text, text)
    <2>1. Cardinality(Own(text)) \in Nat
      BY OwnFacts
    <2> QED
      BY <2>1 DEF Trims, Redacts
  <1>3. g.action \in {"block", "redact", "warn"}
    BY DEF Guardrail
  <1>4. ~FindsIn(g, text) => ~LeftIn(g, text)
    BY DEF FindsIn, LeftIn
  <1> QED
    BY <1>1, <1>2, <1>3, <1>4 DEF Scanned, TextOutcome, Passed, Stopped, Enforced, Replaces

LEMMA TextStep ==
    ASSUME NEW g \in Guardrail, NEW text \in Text
    PROVE  AppliedToText(g, text) \in TextOutcome
  BY ScannedFacts, ShortenedFacts DEF AppliedToText

OutputStep(so, g) == IF so.outcome # "ok" \/ ~g.output THEN so ELSE AppliedToText(g, so.result)

IsOutputFold(g, text, rails) ==
    g = [s \in SUBSET (1..Len(rails)) |-> IF s = {} THEN Passed(text)
                                          ELSE OutputStep(g[s \ {Max(s)}], rails[Max(s)])]

LEMMA OutputFold ==
    ASSUME NEW text \in Text, NEW rails \in Seq(Guardrail)
    PROVE  \E so \in [0..Len(rails) -> TextOutcome] :
              /\ so[0] = Passed(text)
              /\ \A k \in 1..Len(rails) : so[k] = OutputStep(so[k - 1], rails[k])
              /\ AppliedToOutput(text, rails) = so[Len(rails)]
  <1> DEFINE n == Len(rails)
  <1>1. AppliedToOutput(text, rails) = (CHOOSE g : IsOutputFold(g, text, rails))[1..n]
    <2>1. DOMAIN rails = 1..n
      BY LenProperties
    <2> QED
      BY <2>1, Zenon DEF AppliedToOutput, FoldLeft, MapThenFoldSet, OutputStep, IsOutputFold
  <1> DEFINE step == [x \in TextOutcome \X (1..n) |-> OutputStep(x[1], rails[x[2]])]
  <1>2. Passed(text) \in TextOutcome /\ n \in Nat
    BY LenProperties DEF Passed, TextOutcome
  <1>3. \A so \in TextOutcome, k \in 1..n : OutputStep(so, rails[k]) \in TextOutcome
    BY TextStep, ElementOfSeq DEF OutputStep, TextOutcome
  <1>4. step \in [TextOutcome \X (1..n) -> TextOutcome]
    BY <1>3
  <1>5. \A so \in TextOutcome, k \in 1..n : step[<<so, k>>] = OutputStep(so, rails[k])
    OBVIOUS
  <1>6. \A s \in SUBSET (1..n) : s # {} => Max(s) \in 1..n
    BY MaxIn
  <1> HIDE DEF step, n
  <1>7. PICK h \in [SUBSET (1..n) -> TextOutcome] : IsFold(h, TextOutcome, Passed(text), n, step)
    BY <1>2, <1>4, FoldExists
  <1>8. IsOutputFold(h, text, rails)
    <2>1. ASSUME NEW s \in SUBSET (1..n), s # {} PROVE h[s] = OutputStep(h[s \ {Max(s)}], rails[Max(s)])
      BY <1>5, <1>6, <1>7, <2>1 DEF IsFold
    <2>2. h[{}] = Passed(text)
      BY <1>7 DEF IsFold
    <2> QED
      BY <2>1, <2>2 DEF IsOutputFold, n
  <1> DEFINE g == CHOOSE g : IsOutputFold(g, text, rails)
  <1>9. IsOutputFold(g, text, rails)
    BY <1>8
  <1> HIDE DEF g
  <1>10. IsFold(g, TextOutcome, Passed(text), n, step)
    BY <1>5, <1>6, <1>9 DEF IsFold, IsOutputFold, n
  <1>11. PICK so \in [0..n -> TextOutcome] : FoldsBy(so, g, Passed(text), n, step)
    BY <1>2, <1>4, <1>10, FoldPrefixes
  <1>12. \A k \in 1..n : so[k] = OutputStep(so[k - 1], rails[k])
    <2> SUFFICES ASSUME NEW k \in 1..n PROVE so[k] = OutputStep(so[k - 1], rails[k])
      OBVIOUS
    <2>1. k - 1 \in 0..n
      BY <1>2
    <2>2. so[k - 1] \in TextOutcome
      BY <2>1, <1>11
    <2> QED
      BY <1>5, <1>11, <2>2 DEF FoldsBy
  <1> QED
    BY <1>1, <1>11, <1>12 DEF g, n, FoldsBy

(* What a rule no longer finds in a text, it does not find in what others make of it. *)
LetsOut(g, text) ==
    g.output => /\ Enforced(g) => ~LeftIn(g, text)
                /\ g.type = "length" => Cardinality(Own(text)) <= g.max

LEMMA StaysOut ==
    ASSUME NEW g \in Guardrail, NEW before \in Text, NEW after \in Text,
           Trims(before, after), LetsOut(g, before)
    PROVE  LetsOut(g, after)
  <1>1. g.max \in Nat /\ Cardinality(Own(before)) \in Nat /\ Cardinality(Own(after)) \in Nat
    BY OwnFacts DEF Guardrail
  <1>2. ~LeftIn(g, before) => ~LeftIn(g, after)
    BY NothingNew DEF Trims
  <1>3. Cardinality(Own(before)) <= g.max => Cardinality(Own(after)) <= g.max
    BY <1>1 DEF Trims
  <1> QED
    BY <1>2, <1>3 DEF LetsOut

LEMMA OutputStepFacts ==
    ASSUME NEW g \in Guardrail, NEW so \in TextOutcome, OutputStep(so, g).outcome = "ok"
    PROVE  /\ so.outcome = "ok"
           /\ Trims(so.result, OutputStep(so, g).result)
           /\ LetsOut(g, OutputStep(so, g).result)
  <1> DEFINE text == so.result
  <1>1. text \in Text
    BY DEF TextOutcome
  <1>2. Trims(text, text)
    <2>1. Cardinality(Own(text)) \in Nat
      BY <1>1, OwnFacts
    <2> QED
      BY <2>1 DEF Trims, Redacts
  <1>3. so.outcome = "ok"
    BY DEF OutputStep
  <1>4. CASE ~g.output
    <2>1. OutputStep(so, g) = so
      BY <1>4 DEF OutputStep
    <2> QED
      BY <1>2, <1>3, <1>4, <2>1 DEF LetsOut
  <1>5. CASE g.output /\ g.type # "length"
    <2>1. OutputStep(so, g) = Scanned(g, text)
      BY <1>3, <1>5 DEF OutputStep, AppliedToText
    <2>2. /\ Trims(text, Scanned(g, text).result)
          /\ Enforced(g) => ~LeftIn(g, Scanned(g, text).result)
      BY <1>1, <2>1, ScannedFacts
    <2> QED
      BY <1>3, <1>5, <2>1, <2>2 DEF LetsOut
  <1>6. CASE g.output /\ g.type = "length"
    <2>1. OutputStep(so, g) = Shortened(g, text)
      BY <1>3, <1>6 DEF OutputStep, AppliedToText
    <2>2. ~Enforced(g)
      BY <1>6 DEF Enforced
    <2>3. /\ Trims(text, Shortened(g, text).result)
          /\ Cardinality(Own(Shortened(g, text).result)) <= g.max
      BY <1>1, <2>1, ShortenedFacts
    <2> QED
      BY <1>3, <2>1, <2>2, <2>3 DEF LetsOut
  <1> QED
    BY <1>4, <1>5, <1>6

(* A completion that got through its output guardrails is clean by all of them: a later one *)
(* undoes nothing of an earlier one.                                                         *)
LEMMA CompletionIsServedClean ==
    ASSUME NEW text \in Text, NEW rails \in Seq(Guardrail),
           AppliedToOutput(text, rails).outcome = "ok"
    PROVE  /\ AppliedToOutput(text, rails).result \in Text
           /\ CompletionIsClean(AppliedToOutput(text, rails).result, rails)
  <1> DEFINE n == Len(rails)
  <1>1. n \in Nat /\ DOMAIN rails = 1..n /\ \A k \in 1..n : rails[k] \in Guardrail
    BY LenProperties, ElementOfSeq
  <1>2. PICK so \in [0..n -> TextOutcome] :
           /\ so[0] = Passed(text)
           /\ \A k \in 1..n : so[k] = OutputStep(so[k - 1], rails[k])
           /\ AppliedToOutput(text, rails) = so[n]
    BY OutputFold
  <1> DEFINE S == {k \in 0..n : so[k].outcome = "ok" => \A m \in 1..k : LetsOut(rails[m], so[k].result)}
  <1>3. 0 \in S
    BY <1>1
  <1>4. ASSUME NEW k \in 0..(n - 1), k \in S PROVE k + 1 \in S
    <2>1. /\ k + 1 \in 1..n /\ k + 1 \in 0..n /\ k \in 0..n /\ (k + 1) - 1 = k
          /\ 1..(k + 1) = 1..k \cup {k + 1} /\ 1..k \subseteq 1..n
      BY <1>1
    <2>2. so[k + 1] = OutputStep(so[k], rails[k + 1])
      BY <1>2, <2>1
    <2>3. so[k] \in TextOutcome /\ so[k + 1] \in TextOutcome
      BY <1>2, <2>1
    <2>4. SUFFICES ASSUME so[k + 1].outcome = "ok"
                   PROVE  \A m \in 1..(k + 1) : LetsOut(rails[m], so[k + 1].result)
      BY <2>1
    <2>5. /\ so[k].outcome = "ok" /\ Trims(so[k].result, so[k + 1].result)
          /\ LetsOut(rails[k + 1], so[k + 1].result)
      BY <1>1, <2>1, <2>2, <2>3, <2>4, OutputStepFacts
    <2>6. so[k].result \in Text /\ so[k + 1].result \in Text
      BY <2>3 DEF TextOutcome
    <2>7. \A m \in 1..k : LetsOut(rails[m], so[k + 1].result)
      BY <1>1, <1>4, <2>1, <2>5, <2>6, StaysOut
    <2> QED
      BY <2>1, <2>5, <2>7
  <1>5. 0..n \subseteq S
    <2> HIDE DEF S, n
    <2> QED
      BY <1>1, <1>3, <1>4, UpTo
  <1>6. n \in 0..n
    BY <1>1
  <1>7. \A m \in 1..n : LetsOut(rails[m], so[n].result)
    BY <1>2, <1>5, <1>6
  <1>8. so[n].result \in Text
    BY <1>2, <1>6 DEF TextOutcome
  <1> HIDE DEF n
  <1> QED
    BY <1>1, <1>2, <1>7, <1>8 DEF CompletionIsClean, LetsOut

(* The same of a prompt: message by message, and whose message it is stays. *)
PromptOutcome == [outcome : {"ok", "blocked", "crashed"}, result : Seq(Message)]

RedactsEach(before, after) ==
    /\ DOMAIN after = DOMAIN before
    /\ \A i \in DOMAIN before : /\ after[i].role = before[i].role
                                /\ Redacts(before[i].text, after[i].text)

LetsIn(g, prompt) ==
    \A i \in DOMAIN prompt :
        g.input /\ Enforced(g) /\ ~Exempt(g, prompt[i]) => ~LeftIn(g, prompt[i].text)

LEMMA RedactsOnwards ==
    ASSUME NEW before, NEW mid, NEW after, RedactsEach(before, mid), RedactsEach(mid, after)
    PROVE  RedactsEach(before, after)
  <1>1. ASSUME NEW i \in DOMAIN before
        PROVE  /\ after[i].role = before[i].role
               /\ Redacts(before[i].text, after[i].text)
    <2>1. i \in DOMAIN mid /\ Redacts(before[i].text, mid[i].text) /\ Redacts(mid[i].text, after[i].text)
      BY <1>1 DEF RedactsEach
    <2>2. Redacts(before[i].text, after[i].text)
      BY <2>1 DEF Redacts
    <2> QED
      BY <2>1, <2>2 DEF RedactsEach
  <1> QED
    BY <1>1 DEF RedactsEach

LEMMA StaysIn ==
    ASSUME NEW g \in Guardrail, NEW before, NEW after, RedactsEach(before, after), LetsIn(g, before)
    PROVE  LetsIn(g, after)
  <1> SUFFICES ASSUME NEW i \in DOMAIN after, g.input, Enforced(g), ~Exempt(g, after[i])
               PROVE  ~LeftIn(g, after[i].text)
    BY DEF LetsIn
  <1>1. /\ i \in DOMAIN before /\ after[i].role = before[i].role
        /\ Redacts(before[i].text, after[i].text)
    BY DEF RedactsEach
  <1>2. ~LeftIn(g, before[i].text)
    BY <1>1 DEF LetsIn, Exempt
  <1> QED
    BY <1>1, <1>2, NothingNew

LEMMA PromptFacts ==
    ASSUME NEW prompt \in Seq(Message)
    PROVE  /\ Len(prompt) \in Nat /\ DOMAIN prompt = 1..Len(prompt)
           /\ \A i \in DOMAIN prompt : prompt[i] \in Message /\ prompt[i].text \in Text
  <1>1. \A m \in Message : m.text \in Text
    BY DEF Message
  <1> QED
    BY <1>1, LenProperties, ElementOfSeq

LEMMA ScannedEachFacts ==
    ASSUME NEW g \in Guardrail, NEW prompt \in Seq(Message)
    PROVE  /\ ScannedEach(g, prompt) \in PromptOutcome
           /\ RedactsEach(prompt, ScannedEach(g, prompt).result)
           /\ ScannedEach(g, prompt).outcome = "ok" => LetsIn(g, ScannedEach(g, prompt).result)
  <1> DEFINE subject == {i \in DOMAIN prompt : ~Exempt(g, prompt[i])}
  <1> DEFINE stopped == {i \in subject : Scanned(g, prompt[i].text).outcome # "ok"}
  <1> DEFINE new == [i \in DOMAIN prompt |->
                        IF i \in subject THEN [prompt[i] EXCEPT !.text = Scanned(g, @).result]
                        ELSE prompt[i]]
  <1>1. /\ Len(prompt) \in Nat /\ DOMAIN prompt = 1..Len(prompt)
        /\ \A i \in DOMAIN prompt : prompt[i] \in Message /\ prompt[i].text \in Text
    BY PromptFacts
  <1>2. \A text \in Text : /\ Scanned(g, text).outcome \in {"ok", "blocked", "crashed"}
                           /\ Scanned(g, text).result \in Text
                           /\ Redacts(text, Scanned(g, text).result)
                           /\ Scanned(g, text).outcome = "ok" /\ Enforced(g)
                                 => ~LeftIn(g, Scanned(g, text).result)
    BY ScannedFacts DEF TextOutcome, Trims
  <1>3. \A text : Redacts(text, text)
    BY DEF Redacts
  <1>4. RedactsEach(prompt, prompt)
    BY <1>3 DEF RedactsEach
  <1>5. CASE stopped # {}
    <2> DEFINE outcome == Scanned(g, prompt[CHOOSE i \in stopped : TRUE].text).outcome
    <2>1. ScannedEach(g, prompt) = [outcome |-> outcome, result |-> prompt]
      BY <1>5 DEF ScannedEach, Stopped
    <2>2. (CHOOSE i \in stopped : TRUE) \in stopped
      BY <1>5
    <2>3. outcome \in {"blocked", "crashed"}
      BY <1>1, <1>2, <2>2
    <2> HIDE DEF outcome
    <2> QED
      BY <1>4, <2>1, <2>3 DEF PromptOutcome
  <1>6. CASE stopped = {}
    <2>1. ScannedEach(g, prompt) = [outcome |-> "ok", result |-> new]
      BY <1>6 DEF ScannedEach, Passed
    <2>2. \A m \in Message : \A text \in Text :
             /\ [m EXCEPT !.text = text] \in Message
             /\ [m EXCEPT !.text = text].role = m.role
             /\ [m EXCEPT !.text = text].text = text
      BY DEF Message
    <2>3. ASSUME NEW i \in DOMAIN prompt
          PROVE  /\ new[i] \in Message
                 /\ new[i].role = prompt[i].role
                 /\ Redacts(prompt[i].text, new[i].text)
                 /\ Enforced(g) /\ ~Exempt(g, prompt[i]) => ~LeftIn(g, new[i].text)
      <3> DEFINE text == Scanned(g, prompt[i].text).result
      <3>1. prompt[i] \in Message /\ prompt[i].text \in Text
        BY <1>1
      <3>2. CASE i \in subject
        <4>1. new[i] = [prompt[i] EXCEPT !.text = text]
          BY <3>2
        <4>2. Scanned(g, prompt[i].text).outcome = "ok"
          BY <1>6, <3>2
        <4>3. text \in Text /\ Redacts(prompt[i].text, text) /\ (Enforced(g) => ~LeftIn(g, text))
          BY <1>2, <3>1, <4>2
        <4> HIDE DEF text, new, subject, stopped
        <4> QED
          BY <2>2, <3>1, <4>1, <4>3
      <3>3. CASE i \notin subject
        <4>1. new[i] = prompt[i] /\ Exempt(g, prompt[i])
          BY <3>3
        <4> HIDE DEF new, subject, stopped
        <4> QED
          BY <1>3, <3>1, <4>1
      <3> QED
        BY <3>2, <3>3
    <2>4. DOMAIN new = DOMAIN prompt /\ new = [i \in DOMAIN prompt |-> new[i]]
      OBVIOUS
    <2> HIDE DEF new, subject, stopped
    <2>5. new \in [1..Len(prompt) -> Message]
      BY <1>1, <2>3, <2>4
    <2>6. new \in Seq(Message)
      BY <1>1, <2>5, SeqDef
    <2>7. RedactsEach(prompt, new)
      BY <2>3, <2>4 DEF RedactsEach
    <2>8. LetsIn(g, new)
      BY <2>3, <2>4 DEF LetsIn, Exempt
    <2> QED
      BY <2>1, <2>6, <2>7, <2>8 DEF PromptOutcome
  <1> QED
    BY <1>5, <1>6

InputStep(so, g) ==
    IF so.outcome # "ok" \/ ~g.input THEN so
    ELSE IF g.type = "length" THEN Budgeted(g, so.result)
    ELSE ScannedEach(g, so.result)

LEMMA InputStepFacts ==
    ASSUME NEW g \in Guardrail, NEW so \in PromptOutcome
    PROVE  /\ InputStep(so, g) \in PromptOutcome
           /\ RedactsEach(so.result, InputStep(so, g).result)
           /\ InputStep(so, g).outcome = "ok" => so.outcome = "ok" /\ LetsIn(g, InputStep(so, g).result)
  <1>1. so.result \in Seq(Message) /\ so.outcome \in {"ok", "blocked", "crashed"}
    BY DEF PromptOutcome
  <1>2. RedactsEach(so.result, so.result)
    BY DEF RedactsEach, Redacts
  <1>3. CASE so.outcome # "ok" \/ ~g.input
    <2>1. InputStep(so, g) = so
      BY <1>3 DEF InputStep
    <2>2. ~g.input => LetsIn(g, so.result)
      BY DEF LetsIn
    <2> QED
      BY <1>2, <1>3, <2>1, <2>2
  <1>4. CASE so.outcome = "ok" /\ g.input /\ g.type = "length"
    <2>1. InputStep(so, g) = Budgeted(g, so.result)
      BY <1>4 DEF InputStep
    <2> DEFINE whole == FlattenSeq([i \in DOMAIN so.result |-> so.result[i].text])
    <2>2. Budgeted(g, so.result) = [outcome |-> Shortened(g, whole).outcome, result |-> so.result]
      BY DEF Budgeted, Stopped
    <2> HIDE DEF whole
    <2>3. Shortened(g, whole).outcome \in {"ok", "blocked"}
      BY DEF Shortened, Passed, Stopped
    <2>4. LetsIn(g, so.result)
      BY <1>4 DEF LetsIn, Enforced
    <2> QED
      BY <1>1, <1>2, <1>4, <2>1, <2>2, <2>3, <2>4 DEF PromptOutcome
  <1>5. CASE so.outcome = "ok" /\ g.input /\ g.type # "length"
    <2>1. InputStep(so, g) = ScannedEach(g, so.result)
      BY <1>5 DEF InputStep
    <2> QED
      BY <1>1, <1>5, <2>1, ScannedEachFacts
  <1> QED
    BY <1>1, <1>3, <1>4, <1>5

IsInputFold(g, prompt, rails) ==
    g = [s \in SUBSET (1..Len(rails)) |-> IF s = {} THEN Passed(prompt)
                                          ELSE InputStep(g[s \ {Max(s)}], rails[Max(s)])]

LEMMA InputFold ==
    ASSUME NEW prompt \in Seq(Message), NEW rails \in Seq(Guardrail)
    PROVE  \E so \in [0..Len(rails) -> PromptOutcome] :
              /\ so[0] = Passed(prompt)
              /\ \A k \in 1..Len(rails) : so[k] = InputStep(so[k - 1], rails[k])
              /\ AppliedToInput(prompt, rails) = so[Len(rails)]
  <1> DEFINE n == Len(rails)
  <1>1. AppliedToInput(prompt, rails) = (CHOOSE g : IsInputFold(g, prompt, rails))[1..n]
    <2>1. DOMAIN rails = 1..n
      BY LenProperties
    <2> QED
      BY <2>1, Zenon DEF AppliedToInput, FoldLeft, MapThenFoldSet, InputStep, IsInputFold
  <1> DEFINE step == [x \in PromptOutcome \X (1..n) |-> InputStep(x[1], rails[x[2]])]
  <1>2. Passed(prompt) \in PromptOutcome /\ n \in Nat
    BY LenProperties DEF Passed, PromptOutcome
  <1>3. \A so \in PromptOutcome, k \in 1..n : InputStep(so, rails[k]) \in PromptOutcome
    BY InputStepFacts, ElementOfSeq
  <1>4. step \in [PromptOutcome \X (1..n) -> PromptOutcome]
    BY <1>3
  <1>5. \A so \in PromptOutcome, k \in 1..n : step[<<so, k>>] = InputStep(so, rails[k])
    OBVIOUS
  <1>6. \A s \in SUBSET (1..n) : s # {} => Max(s) \in 1..n
    BY MaxIn
  <1> HIDE DEF step, n
  <1>7. PICK h \in [SUBSET (1..n) -> PromptOutcome] : IsFold(h, PromptOutcome, Passed(prompt), n, step)
    BY <1>2, <1>4, FoldExists
  <1>8. IsInputFold(h, prompt, rails)
    <2>1. ASSUME NEW s \in SUBSET (1..n), s # {} PROVE h[s] = InputStep(h[s \ {Max(s)}], rails[Max(s)])
      BY <1>5, <1>6, <1>7, <2>1 DEF IsFold
    <2>2. h[{}] = Passed(prompt)
      BY <1>7 DEF IsFold
    <2> QED
      BY <2>1, <2>2 DEF IsInputFold, n
  <1> DEFINE g == CHOOSE g : IsInputFold(g, prompt, rails)
  <1>9. IsInputFold(g, prompt, rails)
    BY <1>8
  <1> HIDE DEF g
  <1>10. IsFold(g, PromptOutcome, Passed(prompt), n, step)
    BY <1>5, <1>6, <1>9 DEF IsFold, IsInputFold, n
  <1>11. PICK so \in [0..n -> PromptOutcome] : FoldsBy(so, g, Passed(prompt), n, step)
    BY <1>2, <1>4, <1>10, FoldPrefixes
  <1>12. \A k \in 1..n : so[k] = InputStep(so[k - 1], rails[k])
    <2> SUFFICES ASSUME NEW k \in 1..n PROVE so[k] = InputStep(so[k - 1], rails[k])
      OBVIOUS
    <2>1. k - 1 \in 0..n
      BY <1>2
    <2>2. so[k - 1] \in PromptOutcome
      BY <2>1, <1>11
    <2> QED
      BY <1>5, <1>11, <2>2 DEF FoldsBy
  <1> QED
    BY <1>1, <1>11, <1>12 DEF g, n, FoldsBy

(* A prompt that got through its input guardrails is clean by all of them, and differs from *)
(* what it was by redactions only.                                                           *)
LEMMA PromptIsSentClean ==
    ASSUME NEW prompt \in Seq(Message), NEW rails \in Seq(Guardrail),
           AppliedToInput(prompt, rails).outcome = "ok"
    PROVE  /\ AppliedToInput(prompt, rails).result \in Seq(Message)
           /\ RedactsEach(prompt, AppliedToInput(prompt, rails).result)
           /\ PromptIsClean(AppliedToInput(prompt, rails).result, rails)
  <1> DEFINE n == Len(rails)
  <1>1. n \in Nat /\ DOMAIN rails = 1..n /\ \A k \in 1..n : rails[k] \in Guardrail
    BY LenProperties, ElementOfSeq
  <1>2. PICK so \in [0..n -> PromptOutcome] :
           /\ so[0] = Passed(prompt)
           /\ \A k \in 1..n : so[k] = InputStep(so[k - 1], rails[k])
           /\ AppliedToInput(prompt, rails) = so[n]
    BY InputFold
  <1> DEFINE S == {k \in 0..n :
                      /\ RedactsEach(prompt, so[k].result)
                      /\ so[k].outcome = "ok" => \A m \in 1..k : LetsIn(rails[m], so[k].result)}
  <1>3. 0 \in S
    <2>1. RedactsEach(prompt, so[0].result)
      BY <1>2 DEF Passed, RedactsEach, Redacts
    <2> QED
      BY <1>1, <2>1
  <1>4. ASSUME NEW k \in 0..(n - 1), k \in S PROVE k + 1 \in S
    <2>1. /\ k + 1 \in 1..n /\ k + 1 \in 0..n /\ k \in 0..n /\ (k + 1) - 1 = k
          /\ 1..(k + 1) = 1..k \cup {k + 1} /\ 1..k \subseteq 1..n
      BY <1>1
    <2>2. so[k + 1] = InputStep(so[k], rails[k + 1])
      BY <1>2, <2>1
    <2>3. so[k] \in PromptOutcome /\ so[k + 1] \in PromptOutcome
      BY <1>2, <2>1
    <2>4. /\ RedactsEach(so[k].result, so[k + 1].result)
          /\ so[k + 1].outcome = "ok" => so[k].outcome = "ok" /\ LetsIn(rails[k + 1], so[k + 1].result)
      BY <1>1, <2>1, <2>2, <2>3, InputStepFacts
    <2>5. RedactsEach(prompt, so[k + 1].result)
      BY <1>4, <2>4, RedactsOnwards
    <2>6. ASSUME so[k + 1].outcome = "ok"
          PROVE  \A m \in 1..(k + 1) : LetsIn(rails[m], so[k + 1].result)
      <3>1. \A m \in 1..k : LetsIn(rails[m], so[k + 1].result)
        BY <1>1, <1>4, <2>1, <2>4, <2>6, StaysIn
      <3> QED
        BY <2>1, <2>4, <2>6, <3>1
    <2> QED
      BY <2>1, <2>5, <2>6
  <1>5. 0..n \subseteq S
    <2> HIDE DEF S, n
    <2> QED
      BY <1>1, <1>3, <1>4, UpTo
  <1>6. n \in 0..n
    BY <1>1
  <1>7. RedactsEach(prompt, so[n].result) /\ \A m \in 1..n : LetsIn(rails[m], so[n].result)
    BY <1>2, <1>5, <1>6
  <1>8. so[n].result \in Seq(Message)
    BY <1>2, <1>6 DEF PromptOutcome
  <1> HIDE DEF n
  <1> QED
    BY <1>1, <1>2, <1>7, <1>8 DEF PromptIsClean, LetsIn

(* And it stays clean by them whatever later guardrails redact of it. *)
LEMMA CleanStays ==
    ASSUME NEW rails \in Seq(Guardrail), NEW before, NEW after,
           RedactsEach(before, after), PromptIsClean(before, rails)
    PROVE  PromptIsClean(after, rails)
  <1>1. DOMAIN rails = 1..Len(rails) /\ \A n \in DOMAIN rails : rails[n] \in Guardrail
    BY LenProperties, ElementOfSeq
  <1>2. \A n \in DOMAIN rails : LetsIn(rails[n], before)
    BY DEF PromptIsClean, LetsIn
  <1>3. \A n \in DOMAIN rails : LetsIn(rails[n], after)
    BY <1>1, <1>2, StaysIn
  <1> QED
    BY <1>3 DEF PromptIsClean, LetsIn

-----------------------------------------------------------------------------
(* Where the classifier may send a request. *)
LEMMA BestRule ==
    ASSUME NEW n \in Nat, NEW p \in [1..n -> Int], NEW s \in SUBSET (1..n), s # {}
    PROVE  \E i \in s : \A j \in s : p[i] > p[j] \/ (p[i] = p[j] /\ i <= j)
  <1> DEFINE T == {k \in 0..n : \A t \in SUBSET (1..k) : t # {} =>
                      \E i \in t : \A j \in t : p[i] > p[j] \/ (p[i] = p[j] /\ i <= j)}
  <1>1. 0 \in T
    <2>1. 0 \in 0..n /\ \A t \in SUBSET (1..0) : t = {}
      OBVIOUS
    <2> QED
      BY <2>1, Zenon
  <1>2. ASSUME NEW k \in 0..(n - 1), k \in T PROVE k + 1 \in T
    <2> SUFFICES ASSUME NEW t \in SUBSET (1..(k + 1)), t # {}
                 PROVE  \E i \in t : \A j \in t : p[i] > p[j] \/ (p[i] = p[j] /\ i <= j)
      OBVIOUS
    <2>1. k + 1 \in 1..n /\ \A j \in t : j \in 1..n /\ p[j] \in Int /\ (j # k + 1 => j \in 1..k)
      OBVIOUS
    <2>2. CASE t \ {k + 1} = {}
      <3>1. t = {k + 1}
        BY <2>2
      <3> QED
        BY <3>1
    <2>3. CASE t \ {k + 1} # {}
      <3>1. t \ {k + 1} \in SUBSET (1..k)
        BY <2>1
      <3>2. PICK i \in t \ {k + 1} :
               \A j \in t \ {k + 1} : p[i] > p[j] \/ (p[i] = p[j] /\ i <= j)
        BY <1>2, <2>3, <3>1
      <3>3. CASE k + 1 \in t /\ p[k + 1] > p[i]
        <4>1. \A j \in t : p[k + 1] > p[j] \/ (p[k + 1] = p[j] /\ k + 1 <= j)
          BY <2>1, <3>2, <3>3
        <4> QED
          BY <3>3, <4>1
      <3>4. CASE ~(k + 1 \in t /\ p[k + 1] > p[i])
        <4>1. \A j \in t : p[i] > p[j] \/ (p[i] = p[j] /\ i <= j)
          BY <2>1, <3>2, <3>4
        <4> QED
          BY <4>1
      <3> QED
        BY <3>3, <3>4
    <2> QED
      BY <2>2, <2>3
  <1> HIDE DEF T
  <1>3. 0..n \subseteq T
    BY <1>1, <1>2, UpTo
  <1>4. n \in T
    BY <1>3
  <1> QED
    BY <1>4 DEF T

LEMMA RulesFacts ==
    ASSUME NEW now \in RuleSets \cup {<<>>}
    PROVE  /\ Len(now) \in Nat /\ DOMAIN now = 1..Len(now)
           /\ \A i \in DOMAIN now : now[i].route \in Routes /\ now[i].priority \in Int
  <1>1. now \in Seq(SemanticRule)
    BY ConstantsOK, EmptySeq
  <1>2. /\ Len(now) \in Nat /\ DOMAIN now = 1..Len(now)
        /\ \A i \in DOMAIN now : now[i] \in SemanticRule
    BY <1>1, LenProperties, ElementOfSeq
  <1> QED
    BY <1>2 DEF SemanticRule

LEMMA KeywordsLeadToARoute ==
    ASSUME NEW now \in RuleSets \cup {<<>>}, NEW words, Scan(now, words) # {}
    PROVE  KeywordRule(now, words).route \in Routes
  <1>1. /\ Len(now) \in Nat /\ DOMAIN now = 1..Len(now)
        /\ \A i \in DOMAIN now : now[i].route \in Routes /\ now[i].priority \in Int
    BY RulesFacts
  <1> DEFINE p == [i \in 1..Len(now) |-> now[i].priority]
  <1> DEFINE s == Scan(now, words)
  <1>2. s \in SUBSET (1..Len(now))
    BY <1>1 DEF Scan
  <1>3. p \in [1..Len(now) -> Int]
    BY <1>1
  <1>4. \A i \in s : now[i].priority = p[i]
    BY <1>2
  <1> HIDE DEF p, s
  <1>5. s # {}
    BY DEF s
  <1>6. \E i \in s : \A j \in s : p[i] > p[j] \/ (p[i] = p[j] /\ i <= j)
    BY <1>1, <1>2, <1>3, <1>5, BestRule
  <1> DEFINE best == CHOOSE i \in s : \A j \in s : \/ now[i].priority > now[j].priority
                                                   \/ now[i].priority = now[j].priority /\ i <= j
  <1>7. best \in s
    BY <1>4, <1>6
  <1>8. KeywordRule(now, words) = now[best]
    BY DEF KeywordRule, s
  <1> HIDE DEF best
  <1> QED
    BY <1>1, <1>2, <1>7, <1>8

-----------------------------------------------------------------------------
(* What the request knows: the second layer of the invariant. *)

(* Everything is of its type, texts included. *)
Kinds ==
    /\ config \in Configs
    /\ changes \in 0..MaxChanges
    /\ messages \in Seq(Message)
    /\ rules \in RuleSets \cup {<<>>}
    /\ hop \in Routes \cup {NoRoute}
    /\ plan \in RouteConfig
    /\ visited \subseteq Routes
    /\ calls \in Seq(Call)
    /\ answer \in Verdicts \cup {"none"}

(* A hop is being tried once the request got past the classifier, and hedges only on to *)
(* a route of its own.                                                                    *)
Hedges == phase = "waiting" \/ task["secondary"] # "none"

Place ==
    /\ stage \in {"new", "classifying"} => hop = NoRoute
    /\ stage = "classifying" <=> rules # <<>>
    /\ stage = "calling" => hop \in Routes
    /\ hop \in Routes => plan.present /\ phase # "idle"
    /\ Hedges => plan.fallback \in Routes \ {hop}

(* The hops come one after the other in the ledger. *)
Ascending == \A i, j \in DOMAIN calls : i < j => calls[i].hop <= calls[j].hop

(* What was sent is clean by the guardrails of its hop and of those before, and the messages *)
(* at hand by all of them.                                                                    *)
Guarded ==
    /\ \A i, j \in DOMAIN calls :
          calls[j].hop <= calls[i].hop => PromptIsClean(calls[i].sent.messages, calls[j].rails)
    /\ \A i \in DOMAIN calls :
          /\ PromptIsClean(messages, calls[i].rails)
          /\ calls[i].hop = HopNumber =>
                calls[i].sent.messages = messages /\ calls[i].rails = plan.rails
    /\ hop \in Routes => PromptIsClean(messages, plan.rails)

(* Nothing is recorded or told before the request is served, and then all of it. *)
Unserved == usage = [r \in Routes |-> <<>>] /\ redisErrors = 0 /\ reply = <<>>

Served ==
    /\ hop \in Routes /\ reply \in Text /\ redisErrors \in Nat
    /\ CompletionIsClean(reply, plan.rails)
    /\ \E counters \in Seq(Nat) :
          /\ usage = [r \in Routes |-> IF r = hop THEN counters ELSE <<>>]
          /\ counters # <<>> => Len(counters) = 1
          /\ counters # <<>> \/ redisErrors > 0
          /\ reply # <<>> => \A n \in DOMAIN counters : counters[n] > 0

Accounts == IF answer = "ok" THEN Served ELSE Unserved

Knowledge == Kinds /\ Place /\ Ascending /\ Guarded /\ Accounts

Whole == Ledger /\ Knowledge

LEMMA KnowledgeStarts == Init => Knowledge
  <1> SUFFICES ASSUME Init PROVE Knowledge
    OBVIOUS
  <1>1. calls = <<>> /\ DOMAIN calls = {} /\ calls \in Seq(Call)
    BY EmptySeq DEF Init
  <1>2. Kinds
    <2>1. plan \in RouteConfig
      BY DEF Init, RouteConfig
    <2>2. messages \in Seq(Message)
      BY ConstantsOK DEF Init
    <2>3. 0 \in 0..MaxChanges
      BY ConstantsOK
    <2> QED
      BY <1>1, <2>1, <2>2, <2>3 DEF Init, Kinds
  <1>3. Place
    BY ConstantsOK DEF Init, Place, Hedges, H!HedgeInit, H!NoTasks, H!Attempts
  <1>4. Ascending /\ Guarded
    BY <1>1, ConstantsOK DEF Init, Ascending, Guarded
  <1>5. Accounts
    BY DEF Init, Accounts, Unserved
  <1> QED
    BY <1>2, <1>3, <1>4, <1>5 DEF Knowledge

(* A route as it is configured. *)
LEMMA RouteFacts ==
    ASSUME NEW route \in RouteConfig
    PROVE  route.fallback \in Routes \cup {NoRoute} /\ route.rails \in Seq(Guardrail)
  <1>1. CASE route = Absent
    <2>1. route.fallback = NoRoute /\ route.rails = <<>>
      BY <1>1 DEF Absent
    <2> QED
      BY <2>1, EmptySeq
  <1>2. CASE route # Absent
    BY <1>2 DEF RouteConfig
  <1> QED
    BY <1>1, <1>2

-----------------------------------------------------------------------------
(* The kinds of steps there are. *)

Begins(r, seen) ==
    /\ stage # "answered" /\ Opening(seen) /\ seen \subseteq Routes
    /\ Start(r, seen)
    /\ rules' = <<>>
    /\ UNCHANGED <<config, changes, books>>

(* The request is answered with anything but a completion. *)
TurnedDown(outcome) ==
    /\ stage # "answered" /\ outcome \in Verdicts \ {"ok"}
    /\ Answer(outcome)
    /\ rules' = <<>>
    /\ UNCHANGED <<config, changes, hopVars, calls, books, hedgeVars>>

AsksClassifier(now) ==
    /\ stage = "new" /\ now # <<>>
    /\ stage' = "classifying"
    /\ rules' = now
    /\ UNCHANGED <<config, changes, hopVars, slots, calls, answer, books, hedgeVars>>

(* An attempt is over: the upstream answered, or it was cancelled. *)
IsSettled(a, res, completion) ==
    /\ H!End(a, res) \/ H!Cancelled(a)
    /\ calls' = Settled(a, res, completion)
    /\ Untouched

(* Nothing reaches an upstream. *)
Within ==
    /\ H!LoopStep \/ \E a \in H!Attempts, f \in {"config", "routing"} : H!Refuse(a, f)
    /\ UNCHANGED calls
    /\ Untouched

Step ==
    \/ \E r \in Routes : \E seen : Begins(r, seen)
    \/ \E outcome : TurnedDown(outcome)
    \/ \E now \in RuleSets : AsksClassifier(now)
    \/ \E a \in H!Attempts : Send(a)
    \/ \E a \in H!Attempts, res \in {"ok", "retryable", "permanent", "cancelled"},
          completion \in [text : Text, tokens : Nat] : IsSettled(a, res, completion)
    \/ Within
    \/ Serve
    \/ Reconfigure

LEMMA EnterKinds ==
    ASSUME NEW r \in Routes, NEW seen, stage # "answered", Opening(seen), seen \subseteq Routes,
           Enter(r, seen)
    PROVE  Step
  <1>1. CASE Start(r, seen)
    BY <1>1 DEF Enter, Begins, Step
  <1>2. CASE ~Start(r, seen)
    <2>1. \E outcome \in Verdicts \ {"ok"} : Answer(outcome) /\ UNCHANGED <<hopVars, calls, hedgeVars>>
      BY <1>2 DEF Enter, Unservable, Denied, InputBlocked, Looping, Unwritten, Verdicts
    <2> QED
      BY <2>1 DEF Enter, TurnedDown, Step
  <1> QED
    BY <1>1, <1>2

(* What an upstream may answer is a completion of some text. *)
LEMMA RepliesAreTyped ==
    ASSUME NEW answered \in Replies, NEW via
    PROVE  /\ Completion(via, answered).text \in Text
           /\ Completion(via, answered).tokens \in Nat
  <1>1. <<>> \in Text
    BY EmptySeq DEF Text
  <1>2. answered.text \in Text /\ answered.tokens \in Nat
    <2>1. \A c \in Completions : c.text \in Text /\ c.tokens \in Nat
      BY ConstantsOK
    <2>2. ASSUME NEW c \in Completions, answered = BodyReply("completion", c.text, c.tokens)
          PROVE  answered.text \in Text /\ answered.tokens \in Nat
      BY <2>1, <2>2 DEF BodyReply
    <2>3. ASSUME NEW s, answered = StatusReply(s)
          PROVE  answered.text \in Text /\ answered.tokens \in Nat
      BY <1>1, <2>3 DEF StatusReply
    <2>4. ASSUME NEW f, answered = FaultReply(f)
          PROVE  answered.text \in Text /\ answered.tokens \in Nat
      BY <1>1, <2>4 DEF FaultReply, StatusReply
    <2>5. ASSUME answered = BodyReply("no choices", <<>>, 0)
          PROVE  answered.text \in Text /\ answered.tokens \in Nat
      BY <1>1, <2>5 DEF BodyReply
    <2> QED
      BY <2>2, <2>3, <2>4, <2>5 DEF Replies
  <1>3. \A error : Raised(error).text \in Text /\ Raised(error).tokens \in Nat
    BY <1>1 DEF Raised
  <1>4. /\ Returned(answered.text, answered.tokens).text \in Text
        /\ Returned(answered.text, answered.tokens).tokens \in Nat
        /\ Returned(<<>>, 0).text \in Text /\ Returned(<<>>, 0).tokens \in Nat
    BY <1>1, <1>2 DEF Returned
  <1>5. \A made : made.text \in Text /\ made.tokens \in Nat =>
           Exchanged(answered, made).text \in Text /\ Exchanged(answered, made).tokens \in Nat
    BY <1>3 DEF Exchanged
  <1>6. Normalised(answered).text \in Text /\ Normalised(answered).tokens \in Nat
    BY <1>3, <1>4 DEF Normalised
  <1> QED
    BY <1>4, <1>5, <1>6 DEF Completion, OllamaMakes

LEMMA StepKinds ==
    ASSUME Whole, Next
    PROVE  Step
  <1> USE DEF Whole, Knowledge
  <1>1. ASSUME NEW outcome \in Verdicts \ {"ok"}, stage # "answered", Ends(outcome) PROVE Step
    BY <1>1 DEF Ends, TurnedDown, Step
  <1>2. ASSUME NEW header, NEW request, Arrive(header, request) PROVE Step
    <2>1. stage = "new" /\ Opening({})
      BY <1>2 DEF Arrive, Opening
    <2>2. ASSUME NEW r \in Routes, Enter(r, {}) PROVE Step
      BY <2>1, <2>2, EnterKinds
    <2>3. {"unauthorized", "unprocessable", "not_found"} \subseteq Verdicts \ {"ok"}
      BY DEF Verdicts
    <2>4. CASE ArriveAuto
      <3>1. PICK now \in RuleSets :
               \/ now = <<>> /\ Ends("not_found")
               \/ /\ now # <<>> /\ Confident(now, Spoken)
                  /\ Enter(KeywordRule(now, Spoken).route, {})
               \/ AsksClassifier(now)
        BY <2>1, <2>4 DEF ArriveAuto, AsksClassifier
      <3>2. Confident(now, Spoken) => KeywordRule(now, Spoken).route \in Routes
        BY KeywordsLeadToARoute DEF Confident
      <3> QED
        BY <1>1, <2>1, <2>2, <2>3, <3>1, <3>2 DEF Step
    <2> QED
      BY <1>1, <1>2, <2>1, <2>2, <2>3, <2>4 DEF Arrive
  <1>3. CASE Classified
    <2>1. PICK r \in Named(rules) \cup Otherwise(rules, Spoken) : stage = "classifying" /\ Enter(r, {})
      BY <1>3 DEF Classified
    <2>2. rules \in RuleSets \cup {<<>>}
      BY DEF Kinds
    <2>3. Named(rules) \subseteq Routes
      BY <2>2, RulesFacts DEF Named
    <2>4. Otherwise(rules, Spoken) \subseteq Routes
      BY <2>2, KeywordsLeadToARoute DEF Otherwise
    <2> QED
      BY <2>1, <2>3, <2>4, EnterKinds DEF Opening
  <1>4. CASE ClassifierFails
    BY <1>1, <1>4 DEF ClassifierFails, Verdicts
  <1>5. ASSUME NEW a \in H!Attempts, Send(a) PROVE Step
    BY <1>5 DEF Step
  <1>6. ASSUME NEW a \in H!Attempts, Refuse(a) PROVE Step
    <2>1. \E f \in {"config", "routing"} : H!Refuse(a, f)
      BY <1>6 DEF Refuse
    <2> QED
      BY <1>6, <2>1 DEF Refuse, Within, Step
  <1>7. ASSUME NEW a \in H!Attempts, NEW answered \in Replies, Respond(a, answered) PROVE Step
    <2>1. PICK i \in OfThisHop(a) :
             LET made == Completion(calls[i].via, answered)
             IN  /\ H!End(a, Outcome(made))
                 /\ calls' = Settled(a, Outcome(made), [text |-> made.text, tokens |-> made.tokens])
      BY <1>7 DEF Respond
    <2> DEFINE made == Completion(calls[i].via, answered)
    <2> DEFINE completion == [text |-> made.text, tokens |-> made.tokens]
    <2>2. Outcome(made) \in {"ok", "retryable", "permanent", "cancelled"}
      BY DEF Outcome
    <2>3. made.text \in Text /\ made.tokens \in Nat
      BY RepliesAreTyped
    <2>4. completion \in [text : Text, tokens : Nat]
      BY <2>3
    <2>5. IsSettled(a, Outcome(made), completion)
      BY <1>7, <2>1 DEF Respond, IsSettled
    <2> HIDE DEF made, completion
    <2> QED
      BY <2>2, <2>4, <2>5 DEF Step
  <1>8. ASSUME NEW a \in H!Attempts, Abandoned(a) PROVE Step
    <2>1. NoText \in [text : Text, tokens : Nat]
      BY EmptySeq DEF NoText, Text
    <2>2. IsSettled(a, "cancelled", NoText)
      BY <1>8 DEF Abandoned, IsSettled
    <2> QED
      BY <2>1, <2>2 DEF Step
  <1>9. CASE Loop
    BY <1>9 DEF Loop, Within, Step
  <1>10. CASE Misconfigured \/ GiveUp
    BY <1>1, <1>10 DEF Misconfigured, GiveUp, Verdicts
  <1>11. CASE FallBack
    <2>1. /\ stage = "calling" /\ phase = "raised" /\ raised # "permanent"
          /\ plan.fallback \notin {NoRoute, hop} /\ Enter(plan.fallback, visited \cup {hop})
      BY <1>11 DEF FallBack, Failed, Retryable
    <2>2. plan.fallback \in Routes \cup {NoRoute}
      BY RouteFacts DEF Kinds
    <2>3. visited \cup {hop} \subseteq Routes
      BY <2>1 DEF Kinds, Place
    <2> QED
      BY <2>1, <2>2, <2>3, EnterKinds DEF Opening
  <1> QED
    BY <1>2, <1>3, <1>4, <1>5, <1>6, <1>7, <1>8, <1>9, <1>10, <1>11 DEF Next, Handle, Step

-----------------------------------------------------------------------------
(* Where steps are taken, and what they do to the hedged call. *)

LEMMA BusyWhileCalling ==
    ASSUME Ledger
    PROVE  /\ \A a \in H!Attempts : task[a] \in {"created", "running", "cancelling"} => stage = "calling"
           /\ H!LoopStep => stage = "calling"
  <1>1. phase \notin {"idle", "returned", "raised"} => stage = "calling"
    BY DEF Ledger, Books, Path
  <1> QED
    BY <1>1, HedgeFacts, LoopKeeps DEF Ledger

LEMMA Underway ==
    ASSUME Ledger,
           \/ \E a \in H!Attempts : Send(a)
           \/ \E a, res, completion : a \in H!Attempts /\ IsSettled(a, res, completion)
           \/ Within
    PROVE  stage = "calling" /\ UNCHANGED <<config, changes, stage, hopVars, rules, slots, answer, books>>
  <1>1. \A a \in H!Attempts : task[a] \in {"created", "running", "cancelling"} => stage = "calling"
    BY BusyWhileCalling
  <1>2. H!LoopStep => stage = "calling"
    BY BusyWhileCalling
  <1> QED
    BY <1>1, <1>2 DEF Send, H!Send, IsSettled, H!End, H!Cancelled, Within, H!Refuse, Untouched

(* No step of a call in progress makes it a hedging one, or lets it begin again. *)
LEMMA HedgingStays ==
    ASSUME Ledger,
           \/ \E a \in H!Attempts : Send(a)
           \/ \E a, res, completion : a \in H!Attempts /\ IsSettled(a, res, completion)
           \/ Within
    PROVE  /\ Hedges' => Hedges
           /\ phase # "idle" => phase' # "idle"
  <1>1. task \in [H!Attempts -> {"none", "created", "running", "ok", "cancelling", "cancelled",
                                "retryable", "permanent", "routing", "config"}]
    BY HedgeFacts DEF Ledger
  <1>2. ASSUME NEW a \in H!Attempts, NEW s, task[a] # "none", H!Becomes(a, s)
        PROVE  (Hedges' => Hedges) /\ (phase # "idle" => phase' # "idle")
    BY <1>1, <1>2 DEF H!Becomes, Hedges, H!Attempts
  <1>3. ASSUME NEW a \in H!Attempts, H!Cancelled(a)
        PROVE  (Hedges' => Hedges) /\ (phase # "idle" => phase' # "idle")
    BY <1>1, <1>3 DEF H!Cancelled, Hedges, H!Attempts
  <1>4. ASSUME H!LoopStep PROVE (Hedges' => Hedges) /\ (phase # "idle" => phase' # "idle")
    <2>1. phase' # "idle"
      BY <1>4, LoopKeeps DEF Ledger
    <2>2. ASSUME Hedges' PROVE Hedges
      <3>1. CASE H!DirectReturns \/ H!DirectRaises \/ H!Threshold \/ H!FastPath \/ H!FailsPermanently
                 \/ H!FireSecondary
        BY <2>2, <3>1 DEF H!DirectReturns, H!DirectRaises, H!Threshold, H!FastPath,
              H!FailsPermanently, H!FireSecondary, H!Raise, H!Return, Hedges
      <3>2. CASE H!RaceGoesOn \/ H!RaceLost \/ \E a \in H!Attempts : H!RaceWon(a)
        <4>1. phase = "racing"
          BY <3>2 DEF H!RaceGoesOn, H!RaceLost, H!RaceWon, H!Resumed
        <4>2. task["secondary"] # "none"
          BY <4>1, HedgeFacts DEF Ledger, HP!Safe, HP!IInv, HP!Shape, HP!Attempts, HP!Failures
        <4> QED
          BY <4>2 DEF Hedges
      <3> QED
        BY <1>4, <3>1, <3>2 DEF H!LoopStep
    <2> QED
      BY <2>1, <2>2
  <1>5. ASSUME NEW a \in H!Attempts, Send(a)
        PROVE  (Hedges' => Hedges) /\ (phase # "idle" => phase' # "idle")
    BY <1>2, <1>5 DEF Send, H!Send
  <1>6. ASSUME NEW a \in H!Attempts, NEW res, NEW completion, IsSettled(a, res, completion)
        PROVE  (Hedges' => Hedges) /\ (phase # "idle" => phase' # "idle")
    BY <1>2, <1>3, <1>6 DEF IsSettled, H!End
  <1>7. ASSUME Within PROVE (Hedges' => Hedges) /\ (phase # "idle" => phase' # "idle")
    BY <1>2, <1>4, <1>7 DEF Within, H!Refuse
  <1> QED
    BY <1>5, <1>6, <1>7

(* The route whose request an attempt sends is one there is. *)
LEMMA TargetsAreRoutes ==
    ASSUME Whole, NEW a \in H!Attempts, Send(a)
    PROVE  Target(a) \in Routes /\ hop \in Routes
  <1>1. stage = "calling"
    BY Underway DEF Whole
  <1>2. hop \in Routes
    BY <1>1 DEF Whole, Knowledge, Place
  <1>3. task[a] = "created"
    BY DEF Send, H!Send
  <1> QED
    BY <1>2, <1>3 DEF Whole, Knowledge, Place, Hedges, Target, H!Attempts

-----------------------------------------------------------------------------
(* The ledger again, with what was sent. *)
LEMMA RequestFacts ==
    ASSUME NEW n \in Nat, NEW a \in H!Attempts, NEW r \in Routes, Registered(config[r]),
           NEW prompt \in Seq(Message), NEW rails \in Seq(Guardrail)
    PROVE  /\ Request(n, a, r, prompt, rails) \in Call
           /\ Request(n, a, r, prompt, rails).hop = n
           /\ Request(n, a, r, prompt, rails).sent.messages = prompt
           /\ Request(n, a, r, prompt, rails).rails = rails
  <1>1. /\ Payload(config[r], prompt) \in ProviderRequest(Seq(Message))
        /\ Payload(config[r], prompt).messages = prompt
    <2>1. KeyOf(config[r]) \in Environment \cup {Unnamed}
      BY DEF KeyOf
    <2> QED
      BY <2>1 DEF Payload, ProviderRequest
  <1>2. <<>> \in Text
    BY EmptySeq DEF Text
  <1>3. config[r].provider \in DOMAIN Registry
    BY DEF Registered
  <1> QED
    BY <1>1, <1>2, <1>3 DEF Request, Call

LEMMA GrownCalls ==
    ASSUME calls \in Seq(Call), NEW e \in Call, calls' = Append(calls, e)
    PROVE  /\ calls' \in Seq(Call)
           /\ Len(calls) \in Nat /\ DOMAIN calls = 1..Len(calls)
           /\ DOMAIN calls' = DOMAIN calls \cup {Len(calls) + 1}
           /\ \A i \in DOMAIN calls : calls'[i] = calls[i]
           /\ calls'[Len(calls) + 1] = e
  <1>1. /\ calls' \in Seq(Call) /\ Len(calls') = Len(calls) + 1
        /\ \A i \in 1..Len(calls) : calls'[i] = calls[i]
        /\ calls'[Len(calls) + 1] = e
    BY AppendProperties
  <1>2. /\ Len(calls) \in Nat /\ DOMAIN calls = 1..Len(calls)
        /\ DOMAIN calls' = 1..Len(calls')
    BY <1>1, LenProperties
  <1> QED
    BY <1>1, <1>2

LEMMA SettledCalls ==
    ASSUME calls \in Seq(Call), NEW a,
           NEW res \in {"ok", "retryable", "permanent", "cancelled"},
           NEW completion \in [text : Text, tokens : Nat], calls' = Settled(a, res, completion)
    PROVE  /\ calls' \in Seq(Call)
           /\ DOMAIN calls' = DOMAIN calls
           /\ \A i \in DOMAIN calls :
                 /\ calls'[i].hop = calls[i].hop
                 /\ calls'[i].sent = calls[i].sent
                 /\ calls'[i].rails = calls[i].rails
  <1>1. /\ Len(calls) \in Nat /\ DOMAIN calls = 1..Len(calls)
        /\ \A i \in DOMAIN calls : calls[i] \in Call
    BY LenProperties, ElementOfSeq
  <1>2. \A e \in Call :
           /\ [e EXCEPT !.res = res, !.got = completion] \in Call
           /\ [e EXCEPT !.res = res, !.got = completion].hop = e.hop
           /\ [e EXCEPT !.res = res, !.got = completion].sent = e.sent
           /\ [e EXCEPT !.res = res, !.got = completion].rails = e.rails
    BY DEF Call
  <1>3. /\ DOMAIN calls' = DOMAIN calls /\ calls' = [i \in DOMAIN calls |-> calls'[i]]
        /\ \A i \in DOMAIN calls :
              calls'[i] = IF i \in OfThisHop(a)
                          THEN [calls[i] EXCEPT !.res = res, !.got = completion] ELSE calls[i]
    BY DEF Settled
  <1>4. ASSUME NEW i \in DOMAIN calls
        PROVE  /\ calls'[i] \in Call
               /\ calls'[i].hop = calls[i].hop
               /\ calls'[i].sent = calls[i].sent
               /\ calls'[i].rails = calls[i].rails
    <2>1. calls[i] \in Call
      BY <1>1
    <2> DEFINE new == [calls[i] EXCEPT !.res = res, !.got = completion]
    <2>2. new \in Call /\ new.hop = calls[i].hop /\ new.sent = calls[i].sent /\ new.rails = calls[i].rails
      BY <1>2, <2>1
    <2>3. calls'[i] = new \/ calls'[i] = calls[i]
      BY <1>3
    <2> HIDE DEF new
    <2> QED
      BY <2>1, <2>2, <2>3
  <1>5. calls' \in [1..Len(calls) -> Call]
    BY <1>1, <1>3, <1>4
  <1>6. calls' \in Seq(Call)
    BY <1>1, <1>5, SeqDef
  <1> QED
    BY <1>3, <1>4, <1>6

-----------------------------------------------------------------------------
(* The steps, once more. *)

(* A hop begins with the messages its guardrails let through. *)
LEMMA BeginsFacts ==
    ASSUME Whole, NEW r \in Routes, NEW seen, Begins(r, seen)
    PROVE  /\ hop' = r /\ visited' = seen /\ plan' = config[r] /\ Cardinality(seen) \in Nat
           /\ plan' \in RouteConfig /\ plan'.present /\ plan'.rails \in Seq(Guardrail)
           /\ messages' \in Seq(Message) /\ RedactsEach(messages, messages')
           /\ PromptIsClean(messages', plan'.rails)
           /\ \A i \in DOMAIN calls : calls[i].hop < Cardinality(seen)
           /\ \/ calls' = calls
              \/ \E e \in Call :
                    /\ calls' = Append(calls, e)
                    /\ e.hop = Cardinality(seen) /\ e.sent.messages = messages' /\ e.rails = plan'.rails
  <1>1. /\ Ready(r) /\ hop' = r /\ visited' = seen /\ plan' = config[r]
        /\ Prepared(r).outcome = "ok" /\ messages' = Prepared(r).result
        /\ calls' = IF Hedging(r) THEN calls
                    ELSE Append(calls, Request(Cardinality(seen), "primary", r, messages', plan'.rails))
    BY DEF Begins, Start
  <1>2. Cardinality(seen) \in Nat /\ \A i \in DOMAIN calls : calls[i].hop < Cardinality(seen)
    BY OpeningFacts DEF Whole, Begins
  <1>3. messages \in Seq(Message) /\ config[r] \in RouteConfig
    BY ConstantsOK DEF Whole, Knowledge, Kinds
  <1>4. config[r].present /\ Registered(config[r])
    BY <1>1 DEF Ready, Servable
  <1>5. config[r].rails \in Seq(Guardrail)
    BY <1>3, RouteFacts
  <1>6. /\ messages' \in Seq(Message) /\ RedactsEach(messages, messages')
        /\ PromptIsClean(messages', config[r].rails)
    BY <1>1, <1>3, <1>5, PromptIsSentClean DEF Prepared
  <1>7. "primary" \in H!Attempts
    BY DEF H!Attempts
  <1> DEFINE e == Request(Cardinality(seen), "primary", r, messages', plan'.rails)
  <1>8. /\ e \in Call
        /\ e.hop = Cardinality(seen) /\ e.sent.messages = messages' /\ e.rails = plan'.rails
    BY <1>1, <1>2, <1>4, <1>5, <1>6, <1>7, RequestFacts
  <1>9. calls' = calls \/ calls' = Append(calls, e)
    BY <1>1
  <1> HIDE DEF e
  <1> QED
    BY <1>1, <1>2, <1>3, <1>4, <1>5, <1>6, <1>8, <1>9

(* An attempt sends what its hop's guardrails left. *)
LEMMA SendFacts ==
    ASSUME Whole, NEW a \in H!Attempts, Send(a)
    PROVE  \E e \in Call :
              /\ calls' = Append(calls, e)
              /\ e.hop = HopNumber /\ e.sent.messages = messages /\ e.rails = plan.rails
  <1> DEFINE e == Request(HopNumber, a, Target(a), messages, plan.rails)
  <1>1. Target(a) \in Routes /\ Registered(config[Target(a)])
    BY TargetsAreRoutes DEF Send, Callable, Ready, Servable
  <1>2. HopNumber \in Nat
    BY FS_CardinalityType DEF Whole, Ledger, Books, Path, HopNumber
  <1>3. messages \in Seq(Message) /\ plan.rails \in Seq(Guardrail)
    BY RouteFacts DEF Whole, Knowledge, Kinds
  <1>4. e \in Call /\ e.hop = HopNumber /\ e.sent.messages = messages /\ e.rails = plan.rails
    BY <1>1, <1>2, <1>3, RequestFacts
  <1>5. calls' = Append(calls, e)
    BY DEF Send, HopNumber
  <1> HIDE DEF e
  <1> QED
    BY <1>4, <1>5

LEMMA KindsKept ==
    ASSUME Whole, Step \/ UNCHANGED vars
    PROVE  Kinds'
  <1> USE DEF Whole, Knowledge, Kinds
  <1>1. ASSUME NEW r \in Routes, NEW seen, Begins(r, seen) PROVE Kinds'
    <2>1. /\ hop' = r /\ visited' = seen /\ plan' \in RouteConfig /\ messages' \in Seq(Message)
          /\ calls' = calls \/ \E e \in Call : calls' = Append(calls, e)
      BY <1>1, BeginsFacts
    <2>2. calls' \in Seq(Call)
      BY <2>1, GrownCalls
    <2> QED
      BY <1>1, <2>1, <2>2 DEF Begins, Start
  <1>2. ASSUME NEW outcome, TurnedDown(outcome) PROVE Kinds'
    BY <1>2 DEF TurnedDown, Answer, hopVars
  <1>3. ASSUME NEW now \in RuleSets, AsksClassifier(now) PROVE Kinds'
    BY <1>3 DEF AsksClassifier, hopVars
  <1>4. ASSUME NEW a \in H!Attempts, Send(a) PROVE Kinds'
    <2>1. calls' \in Seq(Call)
      BY <1>4, SendFacts, GrownCalls
    <2> QED
      BY <1>4, <2>1 DEF Send, Untouched, hopVars
  <1>5. ASSUME NEW a \in H!Attempts, NEW res \in {"ok", "retryable", "permanent", "cancelled"},
               NEW completion \in [text : Text, tokens : Nat], IsSettled(a, res, completion)
        PROVE  Kinds'
    <2>1. calls' \in Seq(Call)
      BY <1>5, SettledCalls DEF IsSettled
    <2> QED
      BY <1>5, <2>1 DEF IsSettled, Untouched, hopVars
  <1>6. CASE Within
    BY <1>6 DEF Within, Untouched, hopVars
  <1>7. CASE Serve
    <2>1. \A outcome : Answered(outcome) \in Verdicts
      BY DEF Answered, Verdicts
    <2> QED
      BY <1>7, <2>1 DEF Serve, Answer, hopVars
  <1>8. CASE Reconfigure
    BY <1>8, ConstantsOK DEF Reconfigure, hopVars
  <1>9. CASE UNCHANGED vars
    BY <1>9 DEF vars
  <1> QED
    BY <1>1, <1>2, <1>3, <1>4, <1>5, <1>6, <1>7, <1>8, <1>9 DEF Step

LEMMA PlaceKept ==
    ASSUME Whole, Step \/ UNCHANGED vars
    PROVE  Place'
  <1> USE DEF Whole, Knowledge, Place
  <1>1. ASSUME NEW r \in Routes, NEW seen, Begins(r, seen) PROVE Place'
    <2>1. /\ hop' = r /\ plan' = config[r] /\ plan' \in RouteConfig /\ plan'.present
      BY <1>1, BeginsFacts
    <2>2. stage' = "calling" /\ rules' = <<>>
      BY <1>1 DEF Begins, Start
    <2>3. phase' = IF Hedging(r) THEN "waiting" ELSE "direct"
      BY <1>1 DEF Begins, Start, H!Call
    <2>4. task'["secondary"] = "none"
      BY <1>1 DEF Begins, Start, H!Call, H!NoTasks, H!Attempts
    <2>5. Hedging(r) => plan'.fallback \in Routes \ {r}
      BY <2>1, RouteFacts DEF Hedging
    <2> QED
      BY <2>1, <2>2, <2>3, <2>4, <2>5 DEF Hedges
  <1>2. ASSUME NEW outcome, TurnedDown(outcome) PROVE Place'
    BY <1>2 DEF TurnedDown, Answer, hopVars, hedgeVars, Hedges
  <1>3. ASSUME NEW now, AsksClassifier(now) PROVE Place'
    BY <1>3 DEF AsksClassifier, hopVars, hedgeVars, Hedges
  <1>4. ASSUME \/ \E a \in H!Attempts : Send(a)
               \/ \E a, res, completion : a \in H!Attempts /\ IsSettled(a, res, completion)
               \/ Within
        PROVE  Place'
    <2>1. stage = "calling" /\ UNCHANGED <<stage, hop, plan, rules>>
      BY <1>4, Underway DEF hopVars
    <2>2. (Hedges' => Hedges) /\ (phase # "idle" => phase' # "idle")
      BY <1>4, HedgingStays
    <2> QED
      BY <2>1, <2>2
  <1>5. CASE Serve
    BY <1>5 DEF Serve, Answer, hopVars, hedgeVars, Hedges
  <1>6. CASE Reconfigure
    BY <1>6 DEF Reconfigure, hopVars, hedgeVars, Hedges
  <1>7. CASE UNCHANGED vars
    BY <1>7 DEF vars, hedgeVars, Hedges
  <1> QED
    BY <1>1, <1>2, <1>3, <1>4, <1>5, <1>6, <1>7 DEF Step

(* A call is added to the ledger, of this hop, under its guardrails, with its messages. *)
LEMMA GrownGuarded ==
    ASSUME Whole, NEW e \in Call, calls' = Append(calls, e),
           \A i \in DOMAIN calls : /\ calls[i].hop <= e.hop
                                   /\ PromptIsClean(messages', calls[i].rails)
                                   /\ calls[i].hop = e.hop => /\ calls[i].sent.messages = messages'
                                                              /\ calls[i].rails = plan'.rails,
           PromptIsClean(messages', plan'.rails),
           e.hop = HopNumber', e.sent.messages = messages', e.rails = plan'.rails
    PROVE  Ascending' /\ Guarded'
  <1>1. calls \in Seq(Call) /\ Ascending /\ Guarded
    BY DEF Whole, Knowledge, Kinds
  <1> DEFINE new == Len(calls) + 1
  <1>2. /\ Len(calls) \in Nat /\ DOMAIN calls = 1..Len(calls)
        /\ DOMAIN calls' = DOMAIN calls \cup {new}
        /\ \A i \in DOMAIN calls : calls'[i] = calls[i]
        /\ calls'[new] = e
    BY <1>1, GrownCalls
  <1>3. \A i \in DOMAIN calls : i < new /\ ~(new < i)
    BY <1>2
  <1>4. \A i \in DOMAIN calls : calls[i].hop \in Nat
    BY TypedFacts DEF Whole, Ledger, Books
  <1>5. e.hop \in Nat /\ ~(new < new)
    BY <1>2 DEF Call
  <1> HIDE DEF new
  <1>6. Ascending'
    BY <1>1, <1>2, <1>3, <1>5 DEF Ascending
  <1>7. ASSUME NEW i \in DOMAIN calls', NEW j \in DOMAIN calls', calls'[j].hop <= calls'[i].hop
        PROVE  PromptIsClean(calls'[i].sent.messages, calls'[j].rails)
    <2>1. CASE i \in DOMAIN calls /\ j \in DOMAIN calls
      BY <1>1, <1>2, <1>7, <2>1 DEF Guarded
    <2>2. CASE i = new
      BY <1>2, <1>7, <2>2
    <2>3. CASE i \in DOMAIN calls /\ j = new
      <3>1. calls[i].hop = e.hop
        BY <1>2, <1>4, <1>5, <1>7, <2>3
      <3> QED
        BY <1>2, <2>3, <3>1
    <2> QED
      BY <1>2, <2>1, <2>2, <2>3
  <1>8. ASSUME NEW i \in DOMAIN calls'
        PROVE  /\ PromptIsClean(messages', calls'[i].rails)
               /\ calls'[i].hop = HopNumber' =>
                     calls'[i].sent.messages = messages' /\ calls'[i].rails = plan'.rails
    BY <1>2, <1>8
  <1> QED
    BY <1>6, <1>7, <1>8 DEF Guarded

LEMMA GuardedKept ==
    ASSUME Whole, Step \/ UNCHANGED vars
    PROVE  Ascending' /\ Guarded'
  <1>1. calls \in Seq(Call) /\ Ascending /\ Guarded
    BY DEF Whole, Knowledge, Kinds
  <1>2. \A i \in DOMAIN calls : calls[i].rails \in Seq(Guardrail) /\ calls[i].hop \in Nat
    <2>1. \A i \in DOMAIN calls : calls[i] \in Call
      BY <1>1, LenProperties, ElementOfSeq
    <2> QED
      BY <2>1 DEF Call
  <1>3. ASSUME UNCHANGED <<calls, hopVars>> PROVE Ascending' /\ Guarded'
    BY <1>1, <1>3 DEF hopVars, Ascending, Guarded, HopNumber
  <1>4. ASSUME NEW r \in Routes, NEW seen, Begins(r, seen) PROVE Ascending' /\ Guarded'
    <2>1. /\ hop' = r /\ visited' = seen /\ plan' = config[r] /\ Cardinality(seen) \in Nat
          /\ messages' \in Seq(Message) /\ RedactsEach(messages, messages')
          /\ PromptIsClean(messages', plan'.rails)
          /\ \A i \in DOMAIN calls : calls[i].hop < Cardinality(seen)
          /\ \/ calls' = calls
             \/ \E e \in Call :
                   /\ calls' = Append(calls, e)
                   /\ e.hop = Cardinality(seen) /\ e.sent.messages = messages' /\ e.rails = plan'.rails
      BY <1>4, BeginsFacts
    <2>2. HopNumber' = Cardinality(seen)
      BY <2>1 DEF HopNumber
    <2>3. \A i \in DOMAIN calls : PromptIsClean(messages', calls[i].rails)
      <3> SUFFICES ASSUME NEW i \in DOMAIN calls PROVE PromptIsClean(messages', calls[i].rails)
        OBVIOUS
      <3>1. PromptIsClean(messages, calls[i].rails)
        BY <1>1 DEF Guarded
      <3> QED
        BY <1>2, <2>1, <3>1, CleanStays
    <2>4. \A i \in DOMAIN calls : calls[i].hop <= Cardinality(seen) /\ calls[i].hop # Cardinality(seen)
      BY <1>2, <2>1
    <2>5. CASE calls' = calls
      BY <1>1, <2>1, <2>2, <2>3, <2>4, <2>5 DEF Ascending, Guarded
    <2>6. ASSUME NEW e \in Call, calls' = Append(calls, e),
                 e.hop = Cardinality(seen), e.sent.messages = messages', e.rails = plan'.rails
          PROVE  Ascending' /\ Guarded'
      BY <2>1, <2>2, <2>3, <2>4, <2>6, GrownGuarded
    <2> QED
      BY <2>1, <2>5, <2>6
  <1>5. ASSUME NEW a \in H!Attempts, Send(a) PROVE Ascending' /\ Guarded'
    <2>1. PICK e \in Call :
             /\ calls' = Append(calls, e)
             /\ e.hop = HopNumber /\ e.sent.messages = messages /\ e.rails = plan.rails
      BY <1>5, SendFacts
    <2>2. UNCHANGED <<hop, plan, visited, messages>>
      BY <1>5 DEF Send, Untouched, hopVars
    <2>3. hop \in Routes
      BY <1>5, TargetsAreRoutes
    <2>4. HopNumber' = HopNumber
      BY <2>2 DEF HopNumber
    <2>5. \A i \in DOMAIN calls : calls[i].hop <= HopNumber
      BY DEF Whole, Ledger, Books, Chain
    <2>6. PromptIsClean(messages, plan.rails)
      BY <1>1, <2>3 DEF Guarded
    <2>7. \A i \in DOMAIN calls : /\ PromptIsClean(messages, calls[i].rails)
                                  /\ calls[i].hop = HopNumber =>
                                        calls[i].sent.messages = messages /\ calls[i].rails = plan.rails
      BY <1>1 DEF Guarded
    <2> QED
      BY <2>1, <2>2, <2>4, <2>5, <2>6, <2>7, GrownGuarded
  <1>6. ASSUME NEW a \in H!Attempts, NEW res \in {"ok", "retryable", "permanent", "cancelled"},
               NEW completion \in [text : Text, tokens : Nat], IsSettled(a, res, completion)
        PROVE  Ascending' /\ Guarded'
    <2>1. /\ DOMAIN calls' = DOMAIN calls
          /\ \A i \in DOMAIN calls :
                /\ calls'[i].hop = calls[i].hop
                /\ calls'[i].sent = calls[i].sent
                /\ calls'[i].rails = calls[i].rails
      BY <1>1, <1>6, SettledCalls DEF IsSettled
    <2>2. UNCHANGED <<hop, plan, visited, messages>>
      BY <1>6 DEF IsSettled, Untouched, hopVars
    <2> QED
      BY <1>1, <2>1, <2>2 DEF Ascending, Guarded, HopNumber
  <1>7. ASSUME NEW outcome, TurnedDown(outcome) PROVE Ascending' /\ Guarded'
    BY <1>3, <1>7 DEF TurnedDown
  <1>8. ASSUME NEW now, AsksClassifier(now) PROVE Ascending' /\ Guarded'
    BY <1>3, <1>8 DEF AsksClassifier
  <1>9. CASE Within \/ Serve \/ Reconfigure \/ UNCHANGED vars
    BY <1>3, <1>9 DEF Within, Untouched, Serve, Reconfigure, vars, hopVars
  <1> QED
    BY <1>4, <1>5, <1>6, <1>7, <1>8, <1>9 DEF Step

(* What the client gets of what the guardrails and the count made of the upstream's text. *)
ServesAs(out, tokens, so) ==
    /\ answer' = Answered(out.outcome)
    /\ reply' = IF out.outcome = "ok" THEN out.result ELSE <<>>
    /\ usage' = Accounted(out.outcome, tokens, so)
    /\ redisErrors' = IF out.outcome = "ok" /\ so.error THEN redisErrors + 1 ELSE redisErrors

(* The response is served: what the output guardrails let through, and its cost. *)
LEMMA ServedAccounts ==
    ASSUME Whole, Serve, NEW so \in Recordings, NEW got \in [text : Text, tokens : Nat],
           NEW out, NEW tokens, ServesAs(out, tokens, so),
           tokens = ResolveUsage(got.tokens, out.result),
           out.outcome = "ok" => out = AppliedToOutput(got.text, plan.rails)
    PROVE  Accounts'
  <1>1. /\ stage = "calling" /\ hop \in Routes /\ plan.rails \in Seq(Guardrail)
        /\ UNCHANGED <<hop, plan>>
    BY RouteFacts DEF Serve, hopVars, Whole, Knowledge, Kinds, Place
  <1>2. Unserved
    BY <1>1 DEF Whole, Ledger, Books, Path, Knowledge, Accounts
  <1>4. /\ answer' = Answered(out.outcome)
        /\ reply' = IF out.outcome = "ok" THEN out.result ELSE <<>>
        /\ usage' = Accounted(out.outcome, tokens, so)
        /\ redisErrors' = IF out.outcome = "ok" /\ so.error THEN redisErrors + 1 ELSE redisErrors
    BY DEF ServesAs
  <1>5. got.text \in Text /\ got.tokens \in Nat
    OBVIOUS
  <1>6. CASE out.outcome = "ok"
    <2>1. out.result \in Text /\ CompletionIsClean(out.result, plan.rails)
      BY <1>1, <1>5, <1>6, CompletionIsServedClean
    <2> DEFINE result == out.result
    <2>2. Len(result) \in Nat /\ (result # <<>> => Len(result) > 0)
      BY <2>1, EmptySeq, LenProperties DEF Text
    <2>3. tokens \in Nat /\ (result # <<>> => tokens > 0)
      BY <1>5, <2>2 DEF ResolveUsage, CountTokens
    <2>4. answer' = "ok" /\ reply' = result
      BY <1>4, <1>6 DEF Answered
    <2>5. usage' = [usage EXCEPT ![hop] = WithUsage(@, tokens, so)]
      BY <1>4, <1>6 DEF Accounted
    <2> DEFINE counters == IF so.written THEN <<tokens>> ELSE <<>>
    <2>6. WithUsage(<<>>, tokens, so) = counters
      BY DEF WithUsage
    <2>7. usage' = [q \in Routes |-> IF q = hop THEN counters ELSE <<>>]
      BY <1>1, <1>2, <2>5, <2>6 DEF Unserved
    <2>8. /\ counters \in Seq(Nat)
          /\ counters # <<>> => Len(counters) = 1
          /\ result # <<>> => \A n \in DOMAIN counters : counters[n] > 0
      BY <2>3
    <2>9. /\ so.written \/ so.error
          /\ so.error => redisErrors' = 1
          /\ redisErrors' \in Nat
      <3>1. redisErrors = 0
        BY <1>2 DEF Unserved
      <3>2. so.written \in BOOLEAN /\ so.error \in BOOLEAN
            /\ so # [written |-> FALSE, error |-> FALSE]
            /\ so = [written |-> so.written, error |-> so.error]
        BY DEF Recordings
      <3>3. so.written \/ so.error
        BY <3>2
      <3>4. redisErrors' = IF so.error THEN 0 + 1 ELSE 0
        BY <1>4, <1>6, <3>1
      <3> QED
        BY <3>3, <3>4
    <2>10. counters # <<>> \/ redisErrors' > 0
      BY <2>9
    <2> HIDE DEF counters
    <2>11. Served'
      BY <1>1, <2>1, <2>4, <2>7, <2>8, <2>9, <2>10 DEF Served, result
    <2> QED
      BY <2>4, <2>11 DEF Accounts
  <1>7. CASE out.outcome # "ok"
    <2>1. answer' # "ok" /\ reply' = <<>> /\ UNCHANGED <<usage, redisErrors>>
      BY <1>4, <1>7 DEF Answered, Accounted
    <2>2. Unserved'
      BY <1>2, <2>1 DEF Unserved
    <2> QED
      BY <2>1, <2>2 DEF Accounts
  <1> QED
    BY <1>6, <1>7

LEMMA ServeAccounts ==
    ASSUME Whole, Serve
    PROVE  Accounts'
  <1>1. PICK i \in OfThisHop(winner), so \in Recordings, raises \in EstimateRaises :
           LET out == Outgoing(calls[i].got.text, raises)
               tokens == ResolveUsage(calls[i].got.tokens, out.result)
           IN  /\ Answer(Answered(out.outcome))
               /\ reply' = IF out.outcome = "ok" THEN out.result ELSE <<>>
               /\ usage' = Accounted(out.outcome, tokens, so)
               /\ redisErrors' = IF out.outcome = "ok" /\ so.error THEN redisErrors + 1 ELSE redisErrors
    BY DEF Serve
  <1>2. calls[i].got \in [text : Text, tokens : Nat]
    <2>1. i \in DOMAIN calls /\ calls \in Seq(Call)
      BY DEF OfThisHop, Whole, Knowledge, Kinds
    <2>2. calls[i] \in Call
      BY <2>1, LenProperties, ElementOfSeq
    <2> QED
      BY <2>2 DEF Call
  <1> DEFINE out == Outgoing(calls[i].got.text, raises)
  <1>3. ServesAs(out, ResolveUsage(calls[i].got.tokens, out.result), so)
    BY <1>1 DEF ServesAs, Answer
  <1>4. out.outcome = "ok" => out = AppliedToOutput(calls[i].got.text, plan.rails)
    BY DEF Outgoing, Stopped
  <1> HIDE DEF out
  <1> QED
    BY <1>2, <1>3, <1>4, ServedAccounts

LEMMA AccountsKept ==
    ASSUME Whole, Step \/ UNCHANGED vars
    PROVE  Accounts'
  <1>1. stage # "answered" => Unserved
    BY DEF Whole, Ledger, Books, Path, Knowledge, Accounts
  <1>2. ASSUME stage # "answered", UNCHANGED books, answer' # "ok" PROVE Accounts'
    BY <1>1, <1>2 DEF books, Accounts, Unserved
  <1>3. stage # "answered" => answer = "none"
    BY DEF Whole, Ledger, Books, Path
  <1>4. ASSUME NEW r, NEW seen, Begins(r, seen) PROVE Accounts'
    BY <1>2, <1>3, <1>4 DEF Begins, Start
  <1>5. ASSUME NEW outcome, TurnedDown(outcome) PROVE Accounts'
    BY <1>2, <1>5 DEF TurnedDown, Answer
  <1>6. ASSUME NEW now, AsksClassifier(now) PROVE Accounts'
    BY <1>2, <1>3, <1>6 DEF AsksClassifier
  <1>7. ASSUME \/ \E a \in H!Attempts : Send(a)
               \/ \E a, res, completion : a \in H!Attempts /\ IsSettled(a, res, completion)
               \/ Within
        PROVE  Accounts'
    <2>1. stage = "calling" /\ UNCHANGED <<answer, books>>
      BY <1>7, Underway DEF Whole
    <2> QED
      BY <1>2, <1>3, <2>1
  <1>8. CASE Reconfigure
    BY <1>2, <1>3, <1>8 DEF Reconfigure
  <1>9. CASE UNCHANGED vars
    BY <1>9 DEF vars, Whole, Knowledge, Accounts, Served, Unserved
  <1> QED
    BY <1>4, <1>5, <1>6, <1>7, <1>8, <1>9, ServeAccounts DEF Step

LEMMA StepKeepsKnowledge == Whole /\ [Next]_vars => Knowledge'
  <1> SUFFICES ASSUME Whole, [Next]_vars PROVE Knowledge'
    OBVIOUS
  <1>1. Step \/ UNCHANGED vars
    BY StepKinds
  <1> QED
    BY <1>1, KindsKept, PlaceKept, GuardedKept, AccountsKept DEF Knowledge

-----------------------------------------------------------------------------
(* The results. *)

(* The ledger invariant is inductive, for any routes, any tables the control plane may *)
(* distribute and any depth of fallbacks, and however often the tables are replaced.   *)
THEOREM Inductive == Spec => []Ledger
  <1>1. Ledger /\ [Next]_vars => Ledger'
    BY StepKeepsBooks, HedgeSteps, HP!StepKeepsSafe DEF Ledger
  <1> QED
    BY LedgerStarts, <1>1, PTL DEF Spec

(* What one request may cost: the route of a hop is the route of no other hop, an attempt *)
(* of a hop is made once, and there are at most two calls per hop.                        *)
THEOREM SpendIsBounded == Spec => []SpendBounded
  <1>1. Ledger => SpendBounded
    <2> SUFFICES ASSUME Ledger PROVE SpendBounded
      OBVIOUS
    <2>1. HopNumber \in Nat /\ HopNumber < MaxDepth /\ MaxDepth \in Nat
      BY FS_CardinalityType, ConstantsOK DEF Ledger, Books, Path, HopNumber
    <2>2. Len(calls) \in Nat
      BY TypedFacts DEF Ledger, Books
    <2>3. Len(calls) <= 2 * MaxDepth
      BY <2>1, <2>2 DEF Ledger, Books, Counted, SentNow
    <2> QED
      BY <2>3 DEF Ledger, Books, Unique, SpendBounded
  <1> QED
    BY Inductive, <1>1, PTL

(* Every call that a route gets as the route of a hop is covered by a slot of its own limit. *)
THEOREM HopsMetered == Spec => []HopsAreMetered
  <1>1. Ledger => HopsAreMetered
    <2> SUFFICES ASSUME Ledger, NEW r \in Routes
                 PROVE  Cardinality({i \in DOMAIN calls :
                                        calls[i].by = "primary" /\ calls[i].to = r}) <= slots[r]
      BY DEF HopsAreMetered
    <2> DEFINE mine == {i \in DOMAIN calls : calls[i].by = "primary" /\ calls[i].to = r}
    <2>1. slots[r] \in Nat
      BY DEF Ledger, Books, Metered
    <2>2. CASE mine = {}
      BY <2>1, <2>2, FS_EmptySet
    <2>3. CASE mine # {}
      <3> PICK i \in mine : TRUE
        BY <2>3
      <3>1. mine = {i}
        BY DEF Ledger, Books, Unique
      <3>2. Cardinality(mine) = 1
        BY <3>1, FS_Singleton
      <3>3. r \in visited \cup {hop}
        BY DEF Ledger, Books, Chain
      <3>4. slots[r] > 0
        BY <3>3 DEF Ledger, Books, Metered
      <3> QED
        BY <2>1, <3>2, <3>4
    <2> QED
      BY <2>2, <2>3
  <1> QED
    BY Inductive, <1>1, PTL

(* An answer that arrived is the last of it: no later hop exists, and the client gets it *)
(* unless the output guardrails stop it.  A hedge that wins is such an answer as well.   *)
THEOREM AnswersAreFinal == Spec => []AnswerIsFinal
  <1>1. Ledger => AnswerIsFinal
    BY DEF Ledger, Books, Final, Chain, AnswerIsFinal
  <1> QED
    BY Inductive, <1>1, PTL

(* A request its own route refused for good has no later hop. *)
THEOREM RefusalsAreFinal == Spec => []RefusalIsFinal
  <1>1. Ledger => RefusalIsFinal
    BY DEF Ledger, Books, Final, Chain, RefusalIsFinal
  <1> QED
    BY Inductive, <1>1, PTL

(* What HedgedRequest proves of a hedged call holds of every call of the router: the client *)
(* is not answered while an attempt is on its way or still being cancelled.                 *)
THEOREM NothingLeftRunning == Spec => [](stage = "answered" => \A a \in H!Attempts :
                                  task[a] \notin {"created", "running", "cancelling"})
  <1>1. Ledger => (stage = "answered" => \A a \in H!Attempts :
                       task[a] \notin {"created", "running", "cancelling"})
    BY HedgeFacts DEF Ledger, Books, Path
  <1> QED
    BY Inductive, <1>1, PTL

(* Both layers together are inductive, for all routes, guardrails, prompts and completions, *)
(* and however often the configuration is replaced while the request is under way.          *)
THEOREM WholeHolds == Spec => []Whole
  <1>1. Init => Whole
    BY LedgerStarts, KnowledgeStarts DEF Whole
  <1>2. Whole /\ [Next]_vars => Whole'
    <2>1. Ledger /\ [Next]_vars => Ledger'
      BY StepKeepsBooks, HedgeSteps, HP!StepKeepsSafe DEF Ledger
    <2> QED
      BY <2>1, StepKeepsKnowledge DEF Whole
  <1> QED
    BY <1>1, <1>2, PTL DEF Spec

(* IInv, which the run checks, holds for all values of the constants: everything is of its *)
(* type, the hedged call of every hop is in shape, and request, hops and call fit together. *)
THEOREM WellFormed == Spec => []IInv
  <1>1. Whole => IInv
    <2> SUFFICES ASSUME Whole PROVE IInv
      OBVIOUS
    <2> USE DEF Whole, Knowledge
    <2>1. H!TypeOK /\ H!IInv
      BY DEF Ledger, HP!Safe, HP!IInv, HP!TypeOK, HP!Shape, HP!NoErrors, HP!Attempts, HP!Failures,
             H!IInv, H!TypeOK, H!Shape, H!NoErrors, H!Attempts, H!Failures
    <2>2. usage \in [Routes -> Seq(Nat)] /\ redisErrors \in Nat /\ reply \in Text
      <3>1. CASE answer = "ok"
        <4>1. PICK counters \in Seq(Nat) : usage = [r \in Routes |-> IF r = hop THEN counters ELSE <<>>]
          BY <3>1 DEF Accounts, Served
        <4>2. <<>> \in Seq(Nat)
          BY EmptySeq
        <4>3. usage \in [Routes -> Seq(Nat)]
          BY <4>1, <4>2
        <4> QED
          BY <3>1, <4>3 DEF Accounts, Served
      <3>2. CASE answer # "ok"
        <4>1. usage = [r \in Routes |-> <<>>] /\ redisErrors = 0 /\ reply = <<>>
          BY <3>2 DEF Accounts, Unserved
        <4>2. <<>> \in Seq(Nat) /\ <<>> \in Text
          BY EmptySeq DEF Text
        <4> QED
          BY <4>1, <4>2
      <3> QED
        BY <3>1, <3>2
    <2>3. answer \in Verdicts \cup {"none"}
      BY DEF Kinds
    <2>4. TypeOK
      BY <2>1, <2>2, <2>3 DEF TypeOK, Kinds, Ledger, Books, Path, Metered
    <2>5. Coherent
      <3>1. phase = "raised" <=> raised # "none"
        BY DEF Ledger, HP!Safe, HP!RaisesAFailure
      <3>2. hop \in Routes => slots[hop] > 0
        BY DEF Ledger, Books, Metered
      <3>3. \A r \in visited : slots[r] > 0
        BY DEF Ledger, Books, Metered, Kinds
      <3>4. \A i, j \in DOMAIN calls :
               calls[i].hop <= Cardinality(visited) /\ (i < j => calls[i].hop <= calls[j].hop)
        BY DEF Ledger, Books, Chain, HopNumber, Ascending
      <3> QED
        BY <3>1, <3>2, <3>3, <3>4 DEF Coherent, Ledger, Books, Path, HopNumber, Place, Hedges
    <2> QED
      BY <2>1, <2>4, <2>5 DEF IInv
  <1> QED
    BY WholeHolds, <1>1, PTL

(* Usage is recorded once, for the hop that was served, or its loss is counted, and a text *)
(* that is not empty costs something; a request that fails leaves no usage.                  *)
THEOREM UsageServed == Spec => []UsageIsServed
  <1>1. Whole => UsageIsServed
    <2> SUFFICES ASSUME Whole PROVE UsageIsServed
      OBVIOUS
    <2>1. CASE answer = "ok"
      <3>1. PICK counters \in Seq(Nat) :
               /\ usage = [r \in Routes |-> IF r = hop THEN counters ELSE <<>>]
               /\ counters # <<>> => Len(counters) = 1
               /\ counters # <<>> \/ redisErrors > 0
               /\ reply # <<>> => \A n \in DOMAIN counters : counters[n] > 0
        BY <2>1 DEF Whole, Knowledge, Accounts, Served
      <3>2. hop \in Routes
        BY <2>1 DEF Whole, Knowledge, Accounts, Served
      <3>3. usage[hop] = counters
        BY <3>1, <3>2
      <3> QED
        BY <2>1, <3>1, <3>2, <3>3 DEF UsageIsServed
    <2>2. CASE answer # "ok"
      BY <2>2 DEF Whole, Knowledge, Accounts, Unserved, UsageIsServed
    <2> QED
      BY <2>1, <2>2
  <1> QED
    BY WholeHolds, <1>1, PTL

(* Whatever an upstream is sent is clean by the input guardrails of its hop and of every hop *)
(* before it, and what the client gets by the output guardrails of the hop that served it.    *)
(* Clean is said of the words that the client and the model wrote (see Guardrails): a redaction *)
(* may put in words that an earlier rule looks for, and make a text longer than it was allowed. *)
THEOREM TextsAreGuarded == Spec => []TextIsGuarded
  <1>1. Whole => TextIsGuarded
    BY DEF Whole, Knowledge, Guarded, Accounts, Served, TextIsGuarded
  <1> QED
    BY WholeHolds, <1>1, PTL

=============================================================================
