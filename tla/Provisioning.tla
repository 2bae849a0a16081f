----------------------------- MODULE Provisioning -----------------------------
(***************************************************************************)
(* Provisioning of LLM routes, MCP servers and guardrails: the broker's    *)
(* PUT and DELETE of a service instance (broker/app/api/routes/            *)
(* provision.py) and the Celery tasks that do the work (workers/tasks:     *)
(* provision_route.py, register_mcp.py, configure_guardrail.py).           *)
(*                                                                         *)
(* A task is delivered at least once (acks_late) and finds its request by  *)
(* instance id, so it may run beside another delivery of itself, after the *)
(* instance was deprovisioned, or after somebody has put it again.  An     *)
(* action is what happens between two of a task's commits or calls.        *)
(***************************************************************************)
EXTENDS Integers, FiniteSets

CONSTANTS Puts,        (* the PUT requests that may be accepted                       *)
          Instances,   (* instance ids                                                *)
          Names,       (* names of routes, servers and guardrails, each in one table  *)
          Routes,      (* those of routes                                             *)
          Servers,     (* those of MCP servers                                        *)
          Workers,     (* processes of the Celery workers                             *)
          MaxRetries,  (* max_retries of the tasks                                    *)
          MaxEvents,   (* bound: crashes, failed calls, losses and rejected parameters *)
          None         (* no row                                                      *)

ASSUME ConstantsOK ==
    /\ Routes \subseteq Names /\ Servers \subseteq Names \ Routes
    /\ MaxRetries \in Nat /\ MaxEvents \in Nat
    /\ None \notin Puts

VARIABLES of,         (* of[n]: the instance and the name that request n is for     *)
          status,     (* status[n]: of n's row in provision_requests                *)
          api,        (* api[n]: the handler of n has yet to enqueue the task       *)
          queue,      (* queue[<<n, t>>]: deliveries due of n's task after t retries    *)
          run,        (* run[w]: the task that w is running                         *)
          catalogue,  (* catalogue[x]: the request whose parameters row x has       *)
          written,    (* requests whose parameters have been in the catalogue       *)
          checked,    (* those whose server's health has been recorded              *)
          told,       (* those that a reload signal for their table has followed    *)
          dropped,    (* requests of which a delivery was lost, or ended unrecorded *)
          events      (* crashes, failed calls, losses and rejections so far        *)

requests == <<of, status, api>>
history == <<written, checked, told>>
vars == <<requests, queue, run, catalogue, history, dropped, events>>

Tries == 0..MaxRetries
Open == {"pending", "in_progress"}
Stored == Open \cup {"succeeded", "failed"}
Points == {"started", "loaded", "marked", "looked", "written", "checked", "notified",
           "failing", "retrying", "done"}

HasRow == Points \ {"started", "retrying", "done"}

Task == [pc : Points, put : Puts, tries : Tries, row : Puts \cup {None}, found : BOOLEAN]
Idle == [pc |-> "idle", put |-> None, tries |-> 0, row |-> None, found |-> FALSE]

TypeOK ==
    /\ of \in [Puts -> [instance : Instances, name : Names]]
    /\ status \in [Puts -> Stored \cup {"none", "deleted"}]
    /\ api \in [Puts -> BOOLEAN]
    /\ queue \in [Puts \X Tries -> Nat]
    /\ run \in [Workers -> Task \cup {Idle}]
    /\ catalogue \in [Names -> Puts \cup {None}]
    /\ written \subseteq Puts /\ checked \subseteq Puts /\ told \subseteq Puts
    /\ dropped \subseteq Puts
    /\ events \in Nat

Init ==
    /\ of \in [Puts -> [instance : Instances, name : Names]]
    /\ status = [n \in Puts |-> "none"]
    /\ api = [n \in Puts |-> FALSE]
    /\ queue = [m \in Puts \X Tries |-> 0]
    /\ run = [w \in Workers |-> Idle]
    /\ catalogue = [x \in Names |-> None]
    /\ written = {} /\ checked = {} /\ told = {} /\ dropped = {}
    /\ events = 0

Event == events < MaxEvents /\ events' = events + 1

-----------------------------------------------------------------------------
(* The API. *)

RowsOf(i) == {n \in Puts : of[n].instance = i /\ status[n] \in Stored}

RowsToDo(i) == {n \in RowsOf(i) : status[n] \in Open}   \* mutant: settled ones may be put again

(* PUT: 409 if there is a row already, and the unique column refuses a second one even *)
(* from another replica that has looked at the same time.                              *)
Conflicts(i) == RowsOf(i)

Put(n) ==
    /\ status[n] = "none"
    /\ Conflicts(of[n].instance) = {}
    /\ status' = [status EXCEPT ![n] = "pending"]
    /\ api' = [api EXCEPT ![n] = TRUE]
    /\ UNCHANGED <<of, queue, run, catalogue, history, dropped, events>>

Enqueue(n) ==
    /\ api[n]
    /\ api' = [api EXCEPT ![n] = FALSE]
    /\ queue' = [queue EXCEPT ![<<n, 0>>] = @ + 1]
    /\ UNCHANGED <<of, status, run, catalogue, history, dropped, events>>

(* The broker of the queue cannot be reached, or the API's process ends here. *)
EnqueueFails(n) ==
    /\ api[n]
    /\ Event
    /\ api' = [api EXCEPT ![n] = FALSE]
    /\ dropped' = dropped \cup {n}
    /\ UNCHANGED <<of, status, queue, run, catalogue, history>>

Due == {m \in Puts \X Tries : queue[m] > 0}

(* Redis evicts a key of the queue, or all of them (docker-compose.yml:24), and with it the *)
(* deliveries due.                                                                          *)
Evict(lost) ==
    /\ lost # {}
    /\ Event
    /\ queue' = [m \in Puts \X Tries |-> IF m \in lost THEN 0 ELSE queue[m]]
    /\ dropped' = dropped \cup {m[1] : m \in lost}
    /\ UNCHANGED <<requests, run, catalogue, history>>

(* DELETE takes the row and nothing else: not the task, nor what it has provisioned. *)
Deprovision(n) ==
    /\ status[n] \in Stored
    /\ status' = [status EXCEPT ![n] = "deleted"]
    /\ UNCHANGED <<of, api, queue, run, catalogue, history, dropped, events>>

-----------------------------------------------------------------------------
(* A worker and the task it runs. *)

Name(w) == of[run[w].put].name
At(w, pc) == run[w].pc = pc
Goes(w, pc) == run' = [run EXCEPT ![w].pc = pc]
Ends(w) == run' = [run EXCEPT ![w] = Idle]

(* The delivery is acknowledged, with nothing recorded of how it went. *)
Drop(w) ==
    /\ Ends(w)
    /\ dropped' = dropped \cup {run[w].put}
    /\ UNCHANGED <<requests, queue, catalogue, history>>

Take(w, n, t) ==
    /\ At(w, "idle")
    /\ queue[<<n, t>>] > 0
    /\ queue' = [queue EXCEPT ![<<n, t>>] = @ - 1]
    /\ run' = [run EXCEPT ![w] = [pc |-> "started", put |-> n, tries |-> t, row |-> None, found |-> FALSE]]
    /\ UNCHANGED <<requests, catalogue, history, dropped, events>>

(* The row is looked up by the instance id: it may be another request's. *)
Load(w) ==
    /\ At(w, "started")
    /\ LET rows == RowsOf(of[run[w].put].instance)
       IN  \/ rows = {} /\ Goes(w, "retrying")
           \/ \E n \in rows : run' = [run EXCEPT ![w].pc = "loaded", ![w].row = n]
    /\ UNCHANGED <<requests, queue, catalogue, history, dropped, events>>

Records(w, s) ==
    /\ status[run[w].row] \in Stored
    /\ status' = [status EXCEPT ![run[w].row] = s]

Mark(w) ==
    /\ At(w, "loaded")
    /\ Records(w, "in_progress")
    /\ Goes(w, "marked")
    /\ UNCHANGED <<of, api, queue, catalogue, history, dropped, events>>

(* An UPDATE of a row that has been deleted fails, and so does the commit in the except *)
(* branch: the session has not been rolled back.                                        *)
RowGone(w) ==
    /\ run[w].pc \in {"loaded", "notified", "failing"}
    /\ status[run[w].row] \notin Stored
    /\ Drop(w)
    /\ UNCHANGED events

Lookup(w) ==
    /\ At(w, "marked")
    /\ run' = [run EXCEPT ![w].pc = "looked", ![w].found = catalogue[Name(w)] # None]
    /\ UNCHANGED <<requests, queue, catalogue, history, dropped, events>>

Write(w) ==
    /\ At(w, "looked")
    /\ run[w].found \/ catalogue[Name(w)] = None
    /\ catalogue' = [catalogue EXCEPT ![Name(w)] = run[w].put]
    /\ written' = written \cup {run[w].put}
    /\ Goes(w, "written")
    /\ UNCHANGED <<requests, queue, checked, told, dropped, events>>

(* An MCP server's task calls the server and commits whether it answered. *)
Check(w) ==
    /\ At(w, "written")
    /\ Name(w) \in Servers
    /\ checked' = checked \cup {run[w].put}
    /\ Goes(w, "checked")
    /\ UNCHANGED <<requests, queue, catalogue, written, told, dropped, events>>

(* Another task has inserted the name since: IntegrityError, and no rollback. *)
InsertConflicts(w) ==
    /\ At(w, "looked")
    /\ ~run[w].found /\ catalogue[Name(w)] # None
    /\ Drop(w)
    /\ UNCHANGED events

(* Parameters the model class does not take, or parameters the table does not. *)
Rejected(w) ==
    /\ At(w, "looked")
    /\ Event
    /\ \/ Goes(w, "failing") /\ UNCHANGED <<requests, queue, catalogue, history, dropped>>
       \/ Drop(w)

(* The catalogue has all that the task puts there. *)
Written(w) == At(w, "checked") \/ (At(w, "written") /\ Name(w) \notin Servers)

(* _notify_control_plane: the reload signal is for the whole table. *)
ToldNow(w) == told \cup {n \in written : of[n].name \in Routes <=> Name(w) \in Routes}

Notify(w) ==
    /\ Written(w)
    /\ told' = ToldNow(w)
    /\ Goes(w, "notified")
    /\ UNCHANGED <<requests, queue, catalogue, written, checked, dropped, events>>

BestEffort(w) == "notified"                    \* mutant: swallowed for routes as well

(* A route's task insists (five attempts, then it fails); the others only log. *)
AfterSilence(w) == IF Name(w) \in Routes THEN "failing" ELSE "notified"

NotifyFails(w) ==
    /\ Written(w)
    /\ Event
    /\ told' \in {told, ToldNow(w)}            \* only the reply may have been lost
    /\ Goes(w, AfterSilence(w))
    /\ UNCHANGED <<requests, queue, catalogue, written, checked, dropped>>

Finish(w) ==
    /\ At(w, "notified")
    /\ Records(w, "succeeded")
    /\ Goes(w, "done")
    /\ UNCHANGED <<of, api, queue, catalogue, history, dropped, events>>

RecordsNothing(w) == status' = status          \* mutant: the logging call fails first

RecordsFailure(w) == Records(w, "failed")

Fail(w) ==
    /\ At(w, "failing")
    /\ RecordsFailure(w)
    /\ Goes(w, "retrying")
    /\ UNCHANGED <<of, api, queue, catalogue, history, dropped, events>>

(* self.retry publishes the task again, with one more retry, or gives up. *)
Retry(w) ==
    /\ At(w, "retrying")
    /\ LET r == run[w]
       IN  queue' = IF r.tries < MaxRetries THEN [queue EXCEPT ![<<r.put, r.tries + 1>>] = @ + 1] ELSE queue
    /\ Goes(w, "done")
    /\ UNCHANGED <<requests, catalogue, history, dropped, events>>

Ack(w) ==
    /\ At(w, "done")
    /\ Ends(w)
    /\ UNCHANGED <<requests, queue, catalogue, history, dropped, events>>

AckedEarly(w) == queue                         \* mutant: acks_late is off

Redelivered(w) == [queue EXCEPT ![<<run[w].put, run[w].tries>>] = @ + 1]

(* The worker is lost with its connection: the task is delivered again from its beginning. *)
Crash(w) ==
    /\ ~At(w, "idle")
    /\ Event
    /\ Ends(w)
    /\ queue' = Redelivered(w)
    /\ UNCHANGED <<requests, catalogue, history, dropped>>

(* Only the process is: its parent acknowledges (task_reject_on_worker_lost is off). *)
Killed(w) ==
    /\ ~At(w, "idle")
    /\ Event
    /\ Drop(w)

-----------------------------------------------------------------------------
Progress(w) ==
    \/ Load(w) \/ Mark(w) \/ RowGone(w) \/ Lookup(w) \/ Write(w) \/ Check(w)
    \/ InsertConflicts(w) \/ Notify(w) \/ Finish(w) \/ Fail(w) \/ Retry(w) \/ Ack(w)

Next ==
    \/ \E n \in Puts : Put(n) \/ Enqueue(n) \/ EnqueueFails(n) \/ Deprovision(n)
    \/ \E lost \in SUBSET Due : Evict(lost)
    \/ \E w \in Workers :
          \/ \E n \in Puts, t \in Tries : Take(w, n, t)
          \/ Progress(w)
          \/ Rejected(w) \/ NotifyFails(w) \/ Crash(w) \/ Killed(w)

Spec == Init /\ [][Next]_vars

(* The API's handlers and the workers go on; which task a worker takes is open. *)
FairSpec ==
    /\ Spec
    /\ \A n \in Puts : WF_vars(Enqueue(n))
    /\ \A w \in Workers :
          /\ WF_vars(\E n \in Puts, t \in Tries : Take(w, n, t))
          /\ WF_vars(Progress(w))

-----------------------------------------------------------------------------
Kin(n) == {m \in Puts : of[m].instance = of[n].instance}

Excused(n) == Kin(n) \cap dropped # {}

(* What will still settle request n: its handler, a delivery, or a run that has its row. *)
Carries(w, n) ==
    /\ run[w].put \in Kin(n)
    /\ \/ At(w, "started")
       \/ run[w].row = n /\ run[w].pc \in HasRow

Carried(n) ==
    \/ api[n]
    \/ \E m \in Kin(n), t \in Tries : queue[<<m, t>>] > 0
    \/ \E w \in Workers : Carries(w, n)

(* A request that is pending or in progress is never left with nobody to settle it, whatever *)
(* is retried, delivered again or deprovisioned around it.  The exceptions are a delivery    *)
(* that is acknowledged without a word: the unreported database error of the tasks           *)
(* (provision_route.py:38-44), a killed process, a task that was never enqueued, and one that *)
(* the evicting Redis lost.                                                                  *)
NeverStranded == \A n \in Puts : status[n] \in Open => Excused(n) \/ Carried(n)

(* A request is reported as succeeded only when what was asked for under its instance id has *)
(* been in the catalogue and, for a route, the control plane has been told of it since, or,  *)
(* for a server, its health has been recorded (provision_route.py:29-34,                     *)
(* register_mcp.py:27-38).                                                                   *)
ToldOfSuccess ==
    \A n \in Puts : status[n] = "succeeded" =>
        \E m \in Kin(n) : /\ m \in written
                          /\ of[m].name \in Routes => m \in told
                          /\ of[m].name \in Servers => m \in checked

(* A request that was accepted is settled or taken back, unless a delivery of its task was *)
(* dropped.                                                                                *)
RequestSettles ==
    \A n \in Puts : status[n] \in Open ~> status[n] \notin Open \/ Excused(n)

(* Why. *)
OneRow == \A n \in Puts : status[n] \in Stored => RowsOf(of[n].instance) = {n}

HandlerFirst == \A n \in Puts : api[n] => status[n] # "none"

RunsKnowTheirRow ==
    \A w \in Workers :
       /\ run[w].row # None => run[w].row \in Kin(run[w].put) /\ status[run[w].row] # "none"
       /\ run[w].pc \in HasRow => run[w].row # None
       /\ run[w].pc \in {"written", "checked", "notified"} => run[w].put \in written
       /\ At(w, "notified") /\ Name(w) \in Routes => run[w].put \in told
       /\ run[w].pc \in {"checked", "notified"} /\ Name(w) \in Servers => run[w].put \in checked

IInv == TypeOK /\ OneRow /\ HandlerFirst /\ RunsKnowTheirRow /\ NeverStranded /\ ToldOfSuccess

=============================================================================
