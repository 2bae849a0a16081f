------------------------- MODULE HedgedRequestProofs -------------------------
(***************************************************************************)
(* Proofs about HedgedRequest.  `Safe' is the inductive invariant: the     *)
(* shape of the call and the promises kept when it is over.  The           *)
(* promises are only kept because of the shape (an attempt leaves          *)
(* `pending' exactly when its failure is recorded), and the shape only     *)
(* because no attempt runs on once the call is over.                       *)
(***************************************************************************)
EXTENDS HedgedRequest, TLAPS

(* A failure is kept exactly when the call has raised it. *)
RaisesAFailure == phase = "raised" <=> raised # "none"

Safe == IInv /\ NoOrphanAttempt /\ HealthyAnswerKept /\ OwnFailureSurfaces /\ RaisesAFailure

(* The call starts with nothing scheduled. *)
LEMMA InitSafe == HedgeInit => Safe
  BY DEF HedgeInit, Safe, IInv, TypeOK, Shape, NoOrphanAttempt, HealthyAnswerKept,
         OwnFailureSurfaces, RaisesAFailure, Over, Attempts, Failures, NoErrors, NoTasks

(* A new call resets everything. *)
LEMMA CallKeepsSafe ==
  ASSUME Safe, NEW hedging \in BOOLEAN, Call(hedging)
  PROVE  Safe'
  BY DEF Call, Safe, IInv, TypeOK, Shape, NoOrphanAttempt, HealthyAnswerKept,
         OwnFailureSurfaces, RaisesAFailure, Over, Attempts, Failures, NoErrors, NoTasks

(* An attempt moves on by itself: only task[a] changes, from "created" or "running". *)
LEMMA AttemptKeepsSafe ==
  ASSUME Safe, NEW a \in Attempts, task[a] \in {"created", "running"},
         NEW s \in {"running", "ok"} \cup Failures, Becomes(a, s)
  PROVE  Safe'
<1>1. phase \in {"direct", "waiting", "racing"}
  BY DEF Safe, IInv, TypeOK, Shape, NoOrphanAttempt, Over, Attempts, Failures
<1>2. TypeOK'
  BY DEF Safe, IInv, TypeOK, Becomes, Attempts, Failures
<1>3. Shape'
  BY <1>1 DEF Safe, IInv, TypeOK, Shape, Becomes, Attempts, Failures, NoErrors
<1> QED
  BY <1>1, <1>2, <1>3 DEF Safe, IInv, Becomes, NoOrphanAttempt, HealthyAnswerKept,
                          OwnFailureSurfaces, RaisesAFailure, Over

(* The event loop runs the caller until its next await. *)
LEMMA LoopKeepsSafe ==
  ASSUME Safe, LoopStep
  PROVE  Safe'
<1> USE DEF Safe, IInv, TypeOK, Shape, NoOrphanAttempt, HealthyAnswerKept,
            OwnFailureSurfaces, RaisesAFailure, Over, Attempts, Failures, NoErrors, Return, Raise, Finished
<1>1. CASE DirectReturns
  BY <1>1 DEF DirectReturns
<1>2. CASE DirectRaises
  BY <1>2 DEF DirectRaises
<1>3. CASE Threshold
  BY <1>3 DEF Threshold
<1>4. CASE FastPath
  BY <1>4 DEF FastPath, Arrived
<1>5. CASE FailsPermanently
  BY <1>5 DEF FailsPermanently, Arrived
<1>6. CASE FireSecondary
  BY <1>6 DEF FireSecondary, Arrived, Late
<1>7. CASE RaceGoesOn
  BY <1>7 DEF RaceGoesOn, Resumed, Done, Answers, Recorded, Undecided
<1>8. CASE RaceLost
  BY <1>8 DEF RaceLost, Resumed, Done, Answers, Recorded, Undecided, Surfaced, Cancelling
<1>9. ASSUME NEW a \in Attempts, RaceWon(a) PROVE Safe'
  BY <1>9 DEF RaceWon, Resumed, Done, Answers, Recorded, AfterWin, Cancelling
<1> QED
  BY <1>1, <1>2, <1>3, <1>4, <1>5, <1>6, <1>7, <1>8, <1>9 DEF LoopStep

(* The loser of the race has been awaited. *)
LEMMA CancelKeepsSafe ==
  ASSUME Safe, NEW a \in Attempts, Cancelled(a)
  PROVE  Safe'
  BY DEF Cancelled, Safe, IInv, TypeOK, Shape, NoOrphanAttempt, HealthyAnswerKept,
         OwnFailureSurfaces, RaisesAFailure, Over, Attempts, Failures, NoErrors

(* Every step of a hedged call keeps the invariant. *)
LEMMA StepKeepsSafe == Safe /\ [HedgeNext]_hedgeVars => Safe'
<1> SUFFICES ASSUME Safe, [HedgeNext]_hedgeVars PROVE Safe'
  OBVIOUS
<1>1. CASE UNCHANGED hedgeVars
  BY <1>1 DEF hedgeVars, Safe, IInv, TypeOK, Shape, NoOrphanAttempt, HealthyAnswerKept,
              OwnFailureSurfaces, RaisesAFailure, Over
<1>2. ASSUME NEW hedging \in BOOLEAN, Call(hedging) PROVE Safe'
  BY <1>2, CallKeepsSafe
<1>3. ASSUME NEW a \in Attempts, Send(a) PROVE Safe'
  BY <1>3, AttemptKeepsSafe DEF Send
<1>4. ASSUME NEW a \in Attempts, NEW f \in {"routing", "config"}, Refuse(a, f) PROVE Safe'
  BY <1>4, AttemptKeepsSafe DEF Refuse, Failures
<1>5. ASSUME NEW a \in Attempts, NEW o \in {"ok", "retryable", "permanent"}, End(a, o)
      PROVE  Safe'
  BY <1>5, AttemptKeepsSafe DEF End, Failures
<1>6. ASSUME NEW a \in Attempts, Cancelled(a) PROVE Safe'
  BY <1>6, CancelKeepsSafe
<1>7. CASE LoopStep
  BY <1>7, LoopKeepsSafe
<1> QED
  BY <1>1, <1>2, <1>3, <1>4, <1>5, <1>6, <1>7 DEF HedgeNext

(* The call is well shaped at every await, for every interleaving of the two attempts. *)
THEOREM Inductive == HedgeSpec => []IInv
<1>1. Safe => IInv
  BY DEF Safe
<1> QED
  BY <1>1, InitSafe, StepKeepsSafe, PTL DEF HedgeSpec

(* No attempt outlives its call (hedged_request.py:136-142). *)
THEOREM NothingLeftRunning == HedgeSpec => []NoOrphanAttempt
<1>1. Safe => NoOrphanAttempt
  BY DEF Safe
<1> QED
  BY <1>1, InitSafe, StepKeepsSafe, PTL DEF HedgeSpec

(* A call fails only after every attempt it made has failed (hedged_request.py:116-118). *)
THEOREM HealthyAnswers == HedgeSpec => []HealthyAnswerKept
<1>1. Safe => HealthyAnswerKept
  BY DEF Safe
<1> QED
  BY <1>1, InitSafe, StepKeepsSafe, PTL DEF HedgeSpec

(* And then with the failure of the route that was asked for, whichever attempt failed *)
(* last (hedged_request.py:145-147).                                                    *)
THEOREM OwnFailures == HedgeSpec => []OwnFailureSurfaces
<1>1. Safe => OwnFailureSurfaces
  BY DEF Safe
<1> QED
  BY <1>1, InitSafe, StepKeepsSafe, PTL DEF HedgeSpec

(* A second upstream is never started for a request the primary has settled. *)
THEOREM HedgesOnlyTheUnsettled == HedgeSpec => NoHedgeOnceSettled
<1>1. Safe /\ [HedgeNext]_hedgeVars =>
        (task["secondary"] = "none" /\ task'["secondary"] # "none" =>
            task["primary"] \notin {"ok", "permanent"})
  <2> SUFFICES ASSUME Safe, HedgeNext, task["secondary"] = "none",
                      task'["secondary"] # "none"
               PROVE  task["primary"] \notin {"ok", "permanent"}
    BY DEF hedgeVars
  <2>1. FireSecondary
    <3> USE DEF Safe, IInv, TypeOK, Shape, Attempts, Failures
    <3>1. ASSUME NEW hedging \in BOOLEAN, Call(hedging) PROVE FALSE
      BY <3>1 DEF Call, NoTasks
    <3>2. ASSUME NEW a \in Attempts, Send(a) \/ \E f \in {"routing", "config"} : Refuse(a, f)
          PROVE  FALSE
      BY <3>2 DEF Send, Refuse, Becomes
    <3>3. ASSUME NEW a \in Attempts,
                 (\E o \in {"ok", "retryable", "permanent"} : End(a, o)) \/ Cancelled(a)
          PROVE  FALSE
      BY <3>3 DEF End, Cancelled, Becomes
    <3>4. ASSUME DirectReturns \/ DirectRaises \/ Threshold \/ FastPath \/ FailsPermanently
                 \/ RaceGoesOn
          PROVE  FALSE
      BY <3>4 DEF DirectReturns, DirectRaises, Threshold, FastPath, FailsPermanently, RaceGoesOn
    <3>5. ASSUME RaceLost \/ \E a \in Attempts : RaceWon(a) PROVE FALSE
      BY <3>5 DEF RaceLost, RaceWon, Resumed, Done, Answers, Cancelling, Recorded, Finished
    <3> QED
      BY <3>1, <3>2, <3>3, <3>4, <3>5 DEF HedgeNext, LoopStep
  <2> QED
    BY <2>1 DEF FireSecondary, Arrived, Late, Finished, Failures, Safe, IInv, TypeOK, Attempts
<1> QED
  BY <1>1, InitSafe, StepKeepsSafe, PTL DEF HedgeSpec, NoHedgeOnceSettled

=============================================================================
