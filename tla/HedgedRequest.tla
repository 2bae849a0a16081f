---------------------------- MODULE HedgedRequest ----------------------------
(***************************************************************************)
(* hedged_call (gateway/app/router/hedged_request.py): a request to a      *)
(* primary route and, once that is late or has failed in a way worth       *)
(* retrying, a second one to a fallback route; the first success wins.     *)
(*                                                                         *)
(* One asyncio event loop runs the caller and both attempts, so a step     *)
(* here is what runs between two awaits.  asyncio.wait tells its caller    *)
(* what is done when the caller RESUMES, which may be later than the event *)
(* that woke it up: the actions below look at the attempts as they then    *)
(* are.  The route that calls without hedging is `direct'.                 *)
(***************************************************************************)
EXTENDS FiniteSets

Attempts == {"primary", "secondary"}

(* How an attempt fails: a retryable ProviderError (or any stray exception), one *)
(* that is not retryable, a route that left the configuration, and the gateway's *)
(* own misconfiguration.  hedged_call tells apart only "permanent".              *)
Failures == {"retryable", "permanent", "routing", "config"}

VARIABLES phase,    (* where the caller is                                    *)
          task,     (* task[a]: the asyncio task of attempt a                 *)
          overdue,  (* the hedge threshold has passed while waiting           *)
          pending,  (* the attempts the race still waits for                  *)
          errors,   (* errors[a]: the failure recorded for a                  *)
          winner,   (* the attempt whose answer is returned                   *)
          raised    (* the failure raised instead                             *)

hedgeVars == <<phase, task, overdue, pending, errors, winner, raised>>

TypeOK ==
    /\ phase \in {"idle", "direct", "waiting", "racing", "reaping", "returned", "raised"}
    /\ task \in [Attempts -> {"none", "created", "running", "ok", "cancelling", "cancelled"}
                             \cup Failures]
    /\ overdue \in BOOLEAN
    /\ pending \subseteq Attempts
    /\ errors \in [Attempts -> Failures \cup {"none"}]
    /\ winner \in Attempts \cup {"none"}
    /\ raised \in Failures \cup {"none"}

NoTasks == [a \in Attempts |-> "none"]

NoErrors == [a \in Attempts |-> "none"]

HedgeInit ==
    /\ phase = "idle"
    /\ task = NoTasks
    /\ overdue = FALSE
    /\ pending = {}
    /\ errors = NoErrors
    /\ winner = "none"
    /\ raised = "none"

Over == phase \in {"returned", "raised"}

Finished(a) == task[a] \in {"ok"} \cup Failures

-----------------------------------------------------------------------------
(* A call.  Without a fallback route of its own name the attempt runs in the *)
(* caller; otherwise it is a task whose first step is only scheduled.        *)
Call(hedging) ==
    /\ phase = "idle" \/ Over
    /\ phase' = IF hedging THEN "waiting" ELSE "direct"
    /\ task' = [NoTasks EXCEPT !["primary"] = IF hedging THEN "created" ELSE "running"]
    /\ overdue' = FALSE
    /\ pending' = {}
    /\ errors' = NoErrors
    /\ winner' = "none"
    /\ raised' = "none"

(* The attempts.  The first step of a task sends the request or fails before it is *)
(* sent; the answer, an error status or the timeout ends it.                       *)
Becomes(a, s) ==
    /\ task' = [task EXCEPT ![a] = s]
    /\ UNCHANGED <<phase, overdue, pending, errors, winner, raised>>

Send(a) == task[a] = "created" /\ Becomes(a, "running")

Refuse(a, f) == task[a] = "created" /\ Becomes(a, f)

End(a, outcome) == task[a] = "running" /\ Becomes(a, outcome)

-----------------------------------------------------------------------------
Return(a) ==
    /\ winner' = a
    /\ raised' = raised

Raise(f) ==
    /\ phase' = "raised"
    /\ raised' = f
    /\ winner' = winner

DirectReturns ==
    /\ phase = "direct"
    /\ task["primary"] = "ok"
    /\ phase' = "returned"
    /\ Return("primary")
    /\ UNCHANGED <<task, overdue, pending, errors>>

DirectRaises ==
    /\ phase = "direct"
    /\ task["primary"] \in Failures
    /\ Raise(task["primary"])
    /\ UNCHANGED <<task, overdue, pending, errors>>

(* asyncio.wait({primary_task}, timeout=hedge_ms / 1000): the timer fires. *)
Threshold ==
    /\ phase = "waiting"
    /\ task["primary"] # "created"
    /\ ~overdue
    /\ overdue' = TRUE
    /\ UNCHANGED <<phase, task, pending, errors, winner, raised>>

ArrivedInTime == Finished("primary") /\ ~overdue  \* mutant: decides by what woke it up

(* primary_task in done, when the caller resumes *)
Arrived == Finished("primary")

FastPath ==
    /\ phase = "waiting"
    /\ Arrived
    /\ task["primary"] = "ok"
    /\ phase' = "returned"
    /\ Return("primary")
    /\ UNCHANGED <<task, overdue, pending, errors>>

FailsPermanently ==
    /\ phase = "waiting"
    /\ Arrived
    /\ task["primary"] = "permanent"
    /\ Raise("permanent")
    /\ UNCHANGED <<task, overdue, pending, errors>>

LateNever == FALSE                                \* mutant: only a failure fires the hedge

Late == overdue

(* The primary is slow, or failed in a way worth retrying elsewhere. *)
FireSecondary ==
    /\ phase = "waiting"
    /\ Arrived \/ Late
    /\ Arrived => task["primary"] \notin {"ok", "permanent"}
    /\ phase' = "racing"
    /\ task' = [task EXCEPT !["secondary"] = "created"]
    /\ pending' = Attempts
    /\ errors' = [errors EXCEPT !["primary"] = IF Arrived THEN task["primary"] ELSE "none"]
    /\ UNCHANGED <<overdue, winner, raised>>

-----------------------------------------------------------------------------
(* The race: one turn of the loop around asyncio.wait(FIRST_COMPLETED).  The caller *)
(* cannot resume before the first step of a task that was scheduled ahead of it.    *)

Done == {a \in pending : Finished(a)}

Resumed == /\ phase = "racing"
           /\ \A a \in pending : task[a] # "created"
           /\ Done # {}

Answers == {a \in Done : task[a] = "ok"}

RecordedNever == errors                           \* mutant: the failure is not kept

Recorded == [a \in Attempts |-> IF a \in Done \ Answers THEN task[a] ELSE errors[a]]

(* task.cancel() *)
Cancelling(S) == [a \in Attempts |-> IF a \in S THEN "cancelling" ELSE task[a]]

AbandonsLoser(left) == "returned"                 \* mutant: cancels, does not await

AfterWin(left) == IF left = {} THEN "returned" ELSE "reaping"

RaceWon(a) ==
    /\ Resumed
    /\ a \in Answers
    /\ phase' = AfterWin(pending \ Done)
    /\ task' = Cancelling(pending \ Done)
    /\ pending' = pending \ Done
    /\ errors' = Recorded
    /\ Return(a)
    /\ UNCHANGED overdue

FirstToFinish(left) == FALSE                      \* mutant: the first to finish decides
NeverDecided(left) == TRUE                        \* mutant: loops on an empty set

(* while pending and winner_result is None *)
Undecided(left) == left # {}

RaceGoesOn ==
    /\ Resumed
    /\ Answers = {}
    /\ Undecided(pending \ Done)
    /\ pending' = pending \ Done
    /\ errors' = Recorded
    /\ UNCHANGED <<phase, task, overdue, winner, raised>>

LastError(e) ==                                   \* mutant: the most recent failure
    IF e["secondary"] # "none" THEN e["secondary"] ELSE e["primary"]

(* errors.get(primary) or the other one *)
Surfaced(e) == IF e["primary"] # "none" THEN e["primary"] ELSE e["secondary"]

RaceLost ==
    /\ Resumed
    /\ Answers = {}
    /\ ~Undecided(pending \ Done)
    /\ task' = Cancelling(pending \ Done)
    /\ pending' = pending \ Done
    /\ errors' = Recorded
    /\ Raise(Surfaced(Recorded))
    /\ UNCHANGED overdue

(* The loser has been awaited: its CancelledError, or whatever it raised, is dropped. *)
Cancelled(a) ==
    /\ task[a] = "cancelling"
    /\ task' = [task EXCEPT ![a] = "cancelled"]
    /\ phase' = IF phase = "reaping" THEN "returned" ELSE phase
    /\ UNCHANGED <<overdue, pending, errors, winner, raised>>

-----------------------------------------------------------------------------
(* What the event loop does of itself, the upstreams and the router aside. *)
LoopStep ==
    \/ DirectReturns \/ DirectRaises
    \/ Threshold \/ FastPath \/ FailsPermanently \/ FireSecondary
    \/ RaceGoesOn \/ RaceLost
    \/ \E a \in Attempts : RaceWon(a)

HedgeNext ==
    \/ \E hedging \in BOOLEAN : Call(hedging)
    \/ \E a \in Attempts :
          \/ Send(a)
          \/ \E f \in {"routing", "config"} : Refuse(a, f)
          \/ \E o \in {"ok", "retryable", "permanent"} : End(a, o)
          \/ Cancelled(a)
    \/ LoopStep

HedgeSpec == HedgeInit /\ [][HedgeNext]_hedgeVars

(* The event loop runs what is ready, and every provider request has a timeout; but *)
(* the properties below must hold even if the PRIMARY's upstream never answers.     *)
FairSpec ==
    /\ HedgeSpec
    /\ WF_hedgeVars(LoopStep)
    /\ \A a \in Attempts : WF_hedgeVars(Send(a)) /\ WF_hedgeVars(Cancelled(a))
    /\ WF_hedgeVars(\E o \in {"ok", "retryable", "permanent"} : End("secondary", o))

-----------------------------------------------------------------------------
(* No attempt outlives the call: when the caller has its answer or its error, none is *)
(* scheduled, in flight or still being cancelled (hedged_request.py:136-142).         *)
NoOrphanAttempt ==
    Over => \A a \in Attempts : task[a] \notin {"created", "running", "cancelling"}

(* A call only fails when every attempt it made has itself failed: a healthy secondary *)
(* is not abandoned because the primary failed first (hedged_request.py:116-118).      *)
HealthyAnswerKept ==
    phase = "raised" => \A a \in Attempts : task[a] \in Failures \cup {"none"}

(* The failure a caller sees is that of the route it asked for, whichever attempt *)
(* failed first (hedged_request.py:145-147).                                      *)
OwnFailureSurfaces == phase = "raised" => raised = task["primary"]

(* No second upstream is started once the primary has answered or was refused for good, *)
(* not even when the threshold passed before the caller looked.                         *)
NoHedgeOnceSettled ==
    [][task["secondary"] = "none" /\ task'["secondary"] # "none" =>
          task["primary"] \notin {"ok", "permanent"}]_hedgeVars

(* A hanging primary is covered: the call ends, unless the primary hangs and the *)
(* secondary has failed as well (hedged_request.py:1-10).                        *)
TailCovered ==
    (phase = "waiting") ~>
        (Over \/ (task["primary"] = "running" /\ task["secondary"] \in Failures))

(* Why these hold, and inductive: which states the attempts can be in at each point of *)
(* the call, and that an error is recorded for every attempt the race has given up.    *)
Shape ==
    /\ phase = "idle" => \A a \in Attempts : task[a] = "none"
    /\ phase \in {"direct", "waiting"} =>
          /\ task["secondary"] = "none"
          /\ pending = {}
          /\ errors = NoErrors
          /\ task["primary"] \in {"created", "running", "ok"} \cup Failures
    /\ phase = "racing" =>
          /\ pending # {}
          /\ \A a \in Attempts : task[a] \in {"created", "running", "ok"} \cup Failures
          /\ \A a \in Attempts \ pending : errors[a] # "none"
          /\ \A a \in Attempts : errors[a] # "none" => errors[a] = task[a]
    /\ phase = "reaping" =>
          /\ winner # "none" /\ task[winner] = "ok"
          /\ \A a \in Attempts \ {winner} : task[a] = "cancelling"
    /\ phase = "returned" => winner # "none" /\ task[winner] = "ok"

IInv == TypeOK /\ Shape

=============================================================================
