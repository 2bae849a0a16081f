-------------------------- MODULE ProvisioningProofs --------------------------
(***************************************************************************)
(* For any number of requests, instances, names and workers, and any       *)
(* number of retries and crashes: nobody is left waiting without an        *)
(* excuse, and what is reported as succeeded has been served.              *)
(***************************************************************************)
EXTENDS Provisioning, TLAPS

(* A worker that is not idle runs a task. *)
LEMMA Busy ==
    ASSUME TypeOK, NEW w \in Workers, run[w].pc # "idle"
    PROVE  run[w] \in Task
BY DEF TypeOK, Idle

LEMMA InitIInv == Init => IInv
<1> SUFFICES ASSUME Init PROVE IInv
  OBVIOUS
<1>1. TypeOK
  BY ConstantsOK DEF Init, TypeOK, Stored, Open, Tries
<1>2. OneRow /\ HandlerFirst /\ NeverStranded /\ ToldOfSuccess
  BY DEF Init, OneRow, HandlerFirst, NeverStranded, ToldOfSuccess, Stored, Open
<1>3. RunsKnowTheirRow
  BY DEF Init, RunsKnowTheirRow, Idle, At, Points, HasRow
<1> QED
  BY <1>1, <1>2, <1>3 DEF IInv

(* How a task moves on, and how it ends. *)
LEMMA GoesTypeOK ==
    ASSUME TypeOK, NEW w \in Workers, run[w].pc # "idle", NEW pc \in Points, Goes(w, pc)
    PROVE  run' \in [Workers -> Task \cup {Idle}]
<1>1. [run[w] EXCEPT !.pc = pc] \in Task
  BY Busy DEF Task
<1> QED
  BY <1>1 DEF Goes, TypeOK

LEMMA DropTypeOK ==
    ASSUME TypeOK, NEW w \in Workers, run[w].pc # "idle", Drop(w), events' \in Nat
    PROVE  TypeOK'
<1>1. run[w].put \in Puts
  BY Busy DEF Task
<1> QED
  BY <1>1 DEF Drop, Ends, TypeOK, requests, history

LEMMA RecordsTypeOK ==
    ASSUME TypeOK, NEW w \in Workers, NEW s \in Stored, Records(w, s)
    PROVE  status' \in [Puts -> Stored \cup {"none", "deleted"}]
BY DEF Records, TypeOK

LEMMA EventCounted ==
    ASSUME TypeOK, Event PROVE events' \in Nat
BY DEF TypeOK, Event

LEMMA NextTypeOK == TypeOK /\ [Next]_vars => TypeOK'
<1> SUFFICES ASSUME TypeOK, [Next]_vars PROVE TypeOK'
  OBVIOUS
<1>p. Points = {"started", "loaded", "marked", "looked", "written", "checked", "notified", "failing",
                "retrying", "done"}
  BY DEF Points
<1>1. ASSUME NEW n \in Puts, Put(n) \/ Enqueue(n) \/ EnqueueFails(n) \/ Deprovision(n)
      PROVE  TypeOK'
  <2>1. CASE Put(n)
    BY <2>1 DEF Put, TypeOK, history, Stored, Open
  <2>2. CASE Enqueue(n)
    <3>1. <<n, 0>> \in Puts \X Tries
      BY ConstantsOK DEF Tries
    <3> QED
      BY <2>2, <3>1 DEF Enqueue, TypeOK, history
  <2>3. CASE EnqueueFails(n)
    BY <2>3 DEF EnqueueFails, Event, TypeOK, history
  <2>4. CASE Deprovision(n)
    BY <2>4 DEF Deprovision, TypeOK, history
  <2> QED
    BY <1>1, <2>1, <2>2, <2>3, <2>4
<1>2. ASSUME NEW w \in Workers, NEW n \in Puts, NEW t \in Tries, Take(w, n, t) PROVE TypeOK'
  <2>1. queue[<<n, t>>] - 1 \in Nat
    BY <1>2 DEF Take, TypeOK
  <2>2. queue' \in [Puts \X Tries -> Nat]
    BY <1>2, <2>1 DEF Take, TypeOK
  <2>3. run' \in [Workers -> Task \cup {Idle}]
    BY <1>2 DEF Take, TypeOK, Task, Points
  <2> QED
    BY <1>2, <2>2, <2>3 DEF Take, TypeOK, requests, history
<1>3. ASSUME NEW w \in Workers, Load(w) PROVE TypeOK'
  <2>1. run[w] \in Task
    BY <1>3, Busy DEF Load, At
  <2>2. ASSUME NEW n \in Puts, run' = [run EXCEPT ![w].pc = "loaded", ![w].row = n]
        PROVE  run' \in [Workers -> Task \cup {Idle}]
    <3>1. [run[w] EXCEPT !.pc = "loaded", !.row = n] \in Task
      BY <2>1 DEF Task, Points
    <3> QED
      BY <2>2, <3>1 DEF TypeOK
  <2>3. run' \in [Workers -> Task \cup {Idle}]
    BY <1>3, <1>p, <2>2, GoesTypeOK DEF Load, At, RowsOf
  <2> QED
    BY <1>3, <2>3 DEF Load, TypeOK, requests, history
<1>4. ASSUME NEW w \in Workers, Mark(w) \/ Finish(w) PROVE TypeOK'
  <2>1. status' \in [Puts -> Stored \cup {"none", "deleted"}]
    BY <1>4, RecordsTypeOK DEF Mark, Finish, Stored, Open
  <2>2. run' \in [Workers -> Task \cup {Idle}]
    BY <1>4, <1>p, GoesTypeOK DEF Mark, Finish, At
  <2> QED
    BY <1>4, <2>1, <2>2 DEF Mark, Finish, TypeOK, history
<1>5. ASSUME NEW w \in Workers, Fail(w) PROVE TypeOK'
  <2>1. status' \in [Puts -> Stored \cup {"none", "deleted"}]
    BY <1>5, RecordsTypeOK DEF Fail, RecordsFailure, Stored, Open
  <2>2. run' \in [Workers -> Task \cup {Idle}]
    BY <1>5, <1>p, GoesTypeOK DEF Fail, At
  <2> QED
    BY <1>5, <2>1, <2>2 DEF Fail, TypeOK, history
<1>6. ASSUME NEW w \in Workers, RowGone(w) \/ InsertConflicts(w) PROVE TypeOK'
  BY <1>6, DropTypeOK DEF RowGone, InsertConflicts, At, TypeOK
<1>7. ASSUME NEW w \in Workers, Lookup(w) PROVE TypeOK'
  <2>1. run[w] \in Task
    BY <1>7, Busy DEF Lookup, At
  <2>2. [run[w] EXCEPT !.pc = "looked", !.found = catalogue[Name(w)] # None] \in Task
    BY <2>1 DEF Task, Points
  <2> QED
    BY <1>7, <2>2 DEF Lookup, TypeOK, requests, history
<1>8. ASSUME NEW w \in Workers, Write(w) \/ Check(w) PROVE TypeOK'
  <2>1. run[w].put \in Puts
    BY <1>8, Busy DEF Write, Check, At, Task
  <2>2. run' \in [Workers -> Task \cup {Idle}]
    BY <1>8, <1>p, GoesTypeOK DEF Write, Check, At
  <2> QED
    BY <1>8, <2>1, <2>2 DEF Write, Check, TypeOK, requests
<1>9. ASSUME NEW w \in Workers, Rejected(w) PROVE TypeOK'
  <2>1. run[w].pc # "idle"
    BY <1>9 DEF Rejected, At
  <2>2. events' \in Nat
    BY <1>9, EventCounted DEF Rejected
  <2>3. CASE Goes(w, "failing") /\ UNCHANGED <<requests, queue, catalogue, history, dropped>>
    <3>1. run' \in [Workers -> Task \cup {Idle}]
      BY <2>1, <2>3, <1>p, GoesTypeOK
    <3> QED
      BY <2>2, <2>3, <3>1 DEF TypeOK, requests, history
  <2> QED
    BY <1>9, <2>1, <2>2, <2>3, DropTypeOK DEF Rejected
<1>10. ASSUME NEW w \in Workers, Notify(w) \/ NotifyFails(w) PROVE TypeOK'
  <2>1. run[w].pc # "idle"
    BY <1>10 DEF Notify, NotifyFails, Written, At
  <2>2. events' \in Nat
    BY <1>10, EventCounted DEF Notify, NotifyFails, TypeOK
  <2>3. told' \subseteq Puts
    BY <1>10 DEF Notify, NotifyFails, ToldNow, TypeOK
  <2>4. run' \in [Workers -> Task \cup {Idle}]
    <3>1. AfterSilence(w) \in Points
      BY <1>p DEF AfterSilence
    <3> QED
      BY <1>10, <2>1, <1>p, <3>1, GoesTypeOK DEF Notify, NotifyFails
  <2> QED
    BY <1>10, <2>2, <2>3, <2>4 DEF Notify, NotifyFails, TypeOK, requests
<1>11. ASSUME NEW w \in Workers, Retry(w) PROVE TypeOK'
  <2>1. run[w] \in Task
    BY <1>11, Busy DEF Retry, At
  <2>2. run[w].tries < MaxRetries => <<run[w].put, run[w].tries + 1>> \in Puts \X Tries
    BY <2>1, ConstantsOK DEF Task, Tries
  <2>3. queue' \in [Puts \X Tries -> Nat]
    BY <1>11, <2>2 DEF Retry, TypeOK
  <2>4. run' \in [Workers -> Task \cup {Idle}]
    BY <1>11, <1>p, GoesTypeOK DEF Retry, At
  <2> QED
    BY <1>11, <2>3, <2>4 DEF Retry, TypeOK, requests, history
<1>12. ASSUME NEW w \in Workers, Ack(w) PROVE TypeOK'
  BY <1>12 DEF Ack, Ends, TypeOK, requests, history
<1>13. ASSUME NEW w \in Workers, Crash(w) PROVE TypeOK'
  <2>1. run[w] \in Task
    BY <1>13, Busy DEF Crash, At
  <2>2. <<run[w].put, run[w].tries>> \in Puts \X Tries
    BY <2>1 DEF Task
  <2>3. queue' \in [Puts \X Tries -> Nat]
    BY <1>13, <2>2 DEF Crash, Redelivered, TypeOK
  <2> QED
    BY <1>13, <2>3, EventCounted DEF Crash, Ends, TypeOK, requests, history
<1>14. ASSUME NEW w \in Workers, Killed(w) PROVE TypeOK'
  BY <1>14, DropTypeOK, EventCounted DEF Killed, At
<1>15. ASSUME NEW lost \in SUBSET Due, Evict(lost) PROVE TypeOK'
  <2>1. \A m \in lost : m[1] \in Puts
    BY DEF Due
  <2>2. queue' \in [Puts \X Tries -> Nat]
    BY <1>15 DEF Evict, TypeOK
  <2> QED
    BY <1>15, <2>1, <2>2, EventCounted DEF Evict, TypeOK, requests, history
<1>16. CASE UNCHANGED vars
  BY <1>16 DEF vars, requests, history, TypeOK
<1> QED
  BY <1>1, <1>2, <1>3, <1>4, <1>5, <1>6, <1>7, <1>8, <1>9, <1>10, <1>11, <1>12, <1>13, <1>14, <1>15,
     <1>16
  DEF Next, Progress
-----------------------------------------------------------------------------
(* What a worker does, and what it leaves alone. *)

WorkerStep(w) ==
    \/ \E n \in Puts, t \in Tries : Take(w, n, t)
    \/ Progress(w)
    \/ Rejected(w) \/ NotifyFails(w) \/ Crash(w) \/ Killed(w)

LEMMA WorkerKeepsRows ==
    ASSUME TypeOK, NEW w \in Workers, WorkerStep(w)
    PROVE  /\ of' = of /\ api' = api
           /\ \A n \in Puts : /\ status'[n] \in Stored <=> status[n] \in Stored
                              /\ status'[n] = "none" <=> status[n] = "none"
<1>1. ASSUME NEW s \in Stored, Records(w, s)
      PROVE  \A n \in Puts : /\ status'[n] \in Stored <=> status[n] \in Stored
                             /\ status'[n] = "none" <=> status[n] = "none"
  BY <1>1 DEF Records, TypeOK, Stored, Open
<1>2. CASE Mark(w) \/ Finish(w) \/ Fail(w)
  BY <1>1, <1>2 DEF Mark, Finish, Fail, RecordsFailure, Stored, Open
<1>3. CASE ~(Mark(w) \/ Finish(w) \/ Fail(w))
  BY <1>3
  DEF WorkerStep, Progress, Take, Load, RowGone, Lookup, Write, Check, InsertConflicts, Rejected, Notify,
      NotifyFails, Retry, Ack, Crash, Killed, Drop, requests
<1> QED
  BY <1>2, <1>3

LEMMA NextOneRow == TypeOK /\ OneRow /\ [Next]_vars => OneRow'
<1> SUFFICES ASSUME TypeOK, OneRow, [Next]_vars PROVE OneRow'
  OBVIOUS
<1>1. ASSUME NEW n \in Puts, Put(n) PROVE OneRow'
  <2>1. RowsOf(of[n].instance) = {} /\ status[n] = "none" /\ of' = of
    BY <1>1 DEF Put, Conflicts
  <2>2. \A m \in Puts \ {n} : status'[m] = status[m]
    BY <1>1 DEF Put, TypeOK
  <2> QED
    BY <2>1, <2>2 DEF OneRow, RowsOf, Stored, Open
<1>2. ASSUME NEW n \in Puts, Enqueue(n) \/ EnqueueFails(n) PROVE OneRow'
  BY <1>2 DEF Enqueue, EnqueueFails, OneRow, RowsOf
<1>3. ASSUME NEW n \in Puts, Deprovision(n) PROVE OneRow'
  <2>1. of' = of /\ \A m \in Puts : status'[m] \in Stored => m # n /\ status[m] \in Stored
    BY <1>3 DEF Deprovision, TypeOK, Stored, Open
  <2>2. \A m \in Puts \ {n} : status'[m] = status[m]
    BY <1>3 DEF Deprovision, TypeOK
  <2> QED
    BY <2>1, <2>2 DEF OneRow, RowsOf
<1>4. ASSUME NEW w \in Workers, WorkerStep(w) PROVE OneRow'
  BY <1>4, WorkerKeepsRows DEF OneRow, RowsOf
<1>5. CASE UNCHANGED requests
  BY <1>5 DEF requests, OneRow, RowsOf
<1> QED
  BY <1>1, <1>2, <1>3, <1>4, <1>5 DEF Next, WorkerStep, Evict, vars

LEMMA NextHandlerFirst == TypeOK /\ HandlerFirst /\ [Next]_vars => HandlerFirst'
<1> SUFFICES ASSUME TypeOK, HandlerFirst, [Next]_vars PROVE HandlerFirst'
  OBVIOUS
<1>1. ASSUME NEW n \in Puts, Put(n) \/ Enqueue(n) \/ EnqueueFails(n) \/ Deprovision(n)
      PROVE  HandlerFirst'
  BY <1>1 DEF Put, Enqueue, EnqueueFails, Deprovision, HandlerFirst, TypeOK
<1>2. ASSUME NEW w \in Workers, WorkerStep(w) PROVE HandlerFirst'
  BY <1>2, WorkerKeepsRows DEF HandlerFirst
<1>3. CASE UNCHANGED requests
  BY <1>3 DEF requests, HandlerFirst
<1> QED
  BY <1>1, <1>2, <1>3 DEF Next, WorkerStep, Evict, vars

-----------------------------------------------------------------------------
(* A run and its row. *)

Knows(w) ==
    /\ run[w].row # None => run[w].row \in Kin(run[w].put) /\ status[run[w].row] # "none"
    /\ run[w].pc \in HasRow => run[w].row # None
    /\ run[w].pc \in {"written", "checked", "notified"} => run[w].put \in written
    /\ At(w, "notified") /\ Name(w) \in Routes => run[w].put \in told
    /\ run[w].pc \in {"checked", "notified"} /\ Name(w) \in Servers => run[w].put \in checked

(* It stays so when the run itself does nothing. *)
LEMMA OthersKnow ==
    ASSUME TypeOK, NEW v \in Workers, Knows(v), run'[v] = run[v], of' = of,
           written \subseteq written', checked \subseteq checked', told \subseteq told',
           \A n \in Puts : status'[n] = "none" => status[n] = "none"
    PROVE  Knows(v)'
BY DEF Knows, Kin, At, Name

LEMMA HistoryGrows ==
    [Next]_vars =>
        written \subseteq written' /\ checked \subseteq checked' /\ told \subseteq told'
BY DEF Next, Progress, Put, Enqueue, EnqueueFails, Deprovision, Evict, Take, Load, Mark, RowGone, Lookup, Write,
       Check, InsertConflicts, Rejected, Notify, NotifyFails, ToldNow, Finish, Fail, Retry, Ack, Crash, Killed,
       Drop, history, vars

LEMMA NextKnows == TypeOK /\ RunsKnowTheirRow /\ [Next]_vars => RunsKnowTheirRow'
<1> SUFFICES ASSUME TypeOK, RunsKnowTheirRow, [Next]_vars PROVE RunsKnowTheirRow'
  OBVIOUS
<1>0. \A v \in Workers : Knows(v)
  BY DEF RunsKnowTheirRow, Knows
<1>1. SUFFICES \A v \in Workers : Knows(v)'
  BY DEF RunsKnowTheirRow, Knows
<1>2. ASSUME NEW n \in Puts, Put(n) \/ Enqueue(n) \/ EnqueueFails(n) \/ Deprovision(n)
      PROVE  \A v \in Workers : Knows(v)'
  <2>1. run' = run /\ of' = of /\ \A m \in Puts : status'[m] = "none" => status[m] = "none"
    BY <1>2 DEF Put, Enqueue, EnqueueFails, Deprovision, TypeOK
  <2> QED
    BY <1>0, <2>1, HistoryGrows, OthersKnow
<1>3. ASSUME NEW w \in Workers, WorkerStep(w) PROVE \A v \in Workers : Knows(v)'
  <2>0. of' = of /\ \A m \in Puts : status'[m] = "none" => status[m] = "none"
    BY <1>3, WorkerKeepsRows
  <2>1. ASSUME NEW v \in Workers, v # w PROVE Knows(v)'
    <3>1. run'[v] = run[v]
      BY <1>3, <2>1
      DEF WorkerStep, Progress, Take, Load, Mark, RowGone, Lookup, Write, Check, InsertConflicts, Rejected, Notify,
          NotifyFails, Finish, Fail, Retry, Ack, Crash, Killed, Drop, Ends, Goes, TypeOK
    <3> QED
      BY <1>0, <2>0, <3>1, HistoryGrows, OthersKnow
  <2>2. Knows(w)'
    <3>1. ASSUME NEW n \in Puts, NEW t \in Tries, Take(w, n, t) PROVE Knows(w)'
      BY <3>1 DEF Take, Knows, TypeOK, At, HasRow, Points
    <3>2. ASSUME Load(w) PROVE Knows(w)'
      <4>1. run[w] \in Task
        BY <3>2, Busy DEF Load, At
      <4>2. ASSUME NEW n \in RowsOf(of[run[w].put].instance),
                   run' = [run EXCEPT ![w].pc = "loaded", ![w].row = n]
            PROVE  Knows(w)'
        <5>1. n \in Puts /\ n # None /\ n \in Kin(run[w].put) /\ status[n] # "none"
          BY <4>2, ConstantsOK DEF RowsOf, Kin, Stored, Open
        <5>2. run'[w].pc = "loaded" /\ run'[w].row = n /\ run'[w].put = run[w].put
          BY <4>1, <4>2 DEF TypeOK, Task
        <5> QED
          BY <3>2, <5>1, <5>2, <2>0 DEF Load, requests, Knows, Kin, At
      <4>3. ASSUME Goes(w, "retrying") PROVE Knows(w)'
        BY <1>0, <2>0, <3>2, <4>1, <4>3 DEF Load, requests, Goes, Knows, Kin, At, TypeOK, Task, HasRow
      <4> QED
        BY <3>2, <4>2, <4>3 DEF Load
    <3>3. ASSUME NEW pc \in Points, Goes(w, pc), run[w].pc # "idle",
                 pc \in HasRow => run[w].pc \in HasRow,
                 pc \in {"written", "checked", "notified"} => run[w].put \in written',
                 pc \in {"checked", "notified"} /\ Name(w) \in Servers => run[w].put \in checked',
                 pc = "notified" /\ Name(w) \in Routes => run[w].put \in told'
          PROVE  Knows(w)'
      <4>1. run[w] \in Task
        BY <3>3, Busy
      <4>2. run'[w].pc = pc /\ run'[w].put = run[w].put /\ run'[w].row = run[w].row
        BY <3>3, <4>1 DEF Goes, TypeOK, Task
      <4> QED
        BY <1>0, <2>0, <3>3, <4>1, <4>2 DEF Knows, Kin, At, Name, Task
    <3>p. /\ Points = {"started", "loaded", "marked", "looked", "written", "checked", "notified",
                       "failing", "retrying", "done"}
          /\ HasRow = {"loaded", "marked", "looked", "written", "checked", "notified", "failing"}
      BY DEF Points, HasRow
    <3>4. ASSUME Mark(w) \/ Fail(w) \/ Finish(w) \/ Retry(w) PROVE Knows(w)'
      BY <3>3, <3>4, <3>p DEF Mark, Fail, Finish, Retry, At
    <3>5. ASSUME Write(w) \/ Check(w) PROVE Knows(w)'
      BY <1>0, <3>3, <3>5, <3>p DEF Write, Check, Knows, At
    <3>w. ASSUME Written(w)
          PROVE  /\ run[w].pc # "idle" /\ run[w].pc \in HasRow /\ run[w].put \in written
                 /\ Name(w) \in Servers => run[w].put \in checked
      BY <1>0, <3>p, <3>w DEF Written, Knows, At
    <3>6. ASSUME Notify(w) PROVE Knows(w)'
      <4>1. run[w].put \in written /\ run[w].put \in Puts
        BY <3>6, <3>w, Busy DEF Notify, Task
      <4>2. run[w].put \in told'
        BY <3>6, <4>1 DEF Notify, ToldNow, Name
      <4> QED
        BY <3>3, <3>6, <3>p, <3>w, <4>1, <4>2 DEF Notify
    <3>7. ASSUME NotifyFails(w) PROVE Knows(w)'
      <4>1. run[w].put \in written
        BY <3>7, <3>w DEF NotifyFails
      <4>2. AfterSilence(w) \in {"failing", "notified"}
            /\ (AfterSilence(w) = "notified" => Name(w) \notin Routes)
        BY DEF AfterSilence
      <4> QED
        BY <3>3, <3>7, <3>p, <3>w, <4>1, <4>2 DEF NotifyFails
    <3>8. ASSUME Lookup(w) PROVE Knows(w)'
      <4>1. run[w] \in Task
        BY <3>8, Busy DEF Lookup, At
      <4>2. run'[w].pc = "looked" /\ run'[w].put = run[w].put /\ run'[w].row = run[w].row
        BY <3>8, <4>1 DEF Lookup, TypeOK, Task
      <4> QED
        BY <1>0, <2>0, <3>8, <3>p, <4>1, <4>2 DEF Lookup, requests, Knows, Kin, At, Name, Task
    <3>9. ASSUME Ends(w) PROVE Knows(w)'
      <4>1. run'[w] = Idle
        BY <3>9 DEF Ends, TypeOK
      <4> QED
        BY <3>p, <4>1 DEF Knows, Idle, At
    <3>10. ASSUME Rejected(w) PROVE Knows(w)'
      BY <3>3, <3>9, <3>10, <3>p DEF Rejected, Drop, At
    <3> QED
      BY <1>3, <3>1, <3>2, <3>4, <3>5, <3>6, <3>7, <3>8, <3>9, <3>10
      DEF WorkerStep, Progress, RowGone, InsertConflicts, Ack, Crash, Killed, Drop
  <2> QED
    BY <2>1, <2>2
<1>4. CASE UNCHANGED <<requests, run>>
  BY <1>0, <1>4, HistoryGrows, OthersKnow DEF requests
<1> QED
  BY <1>2, <1>3, <1>4 DEF Next, WorkerStep, Evict, vars
-----------------------------------------------------------------------------
(* Nobody is left waiting. *)

LEMMA KinTypeOK == \A n \in Puts : n \in Kin(n) /\ Kin(n) \subseteq Puts
BY DEF Kin

LEMMA NoneHasNoKin == ASSUME NEW n \in Puts PROVE None \notin Kin(n)
BY ConstantsOK DEF Kin

(* A request whose carrier is not touched by a step is carried after it. *)
LEMMA CarriedOn ==
    ASSUME NEW w \in Workers, NEW n \in Puts, Carried(n), ~Carries(w, n),
           of' = of, api' = api,
           \A m \in Kin(n), t \in Tries : queue[<<m, t>>] > 0 => queue'[<<m, t>>] > 0,
           \A v \in Workers : v # w => run'[v] = run[v]
    PROVE  Carried(n)'
<1>1. Kin(n)' = Kin(n)
  BY DEF Kin
<1>2. ASSUME NEW v \in Workers, v # w, Carries(v, n) PROVE Carries(v, n)'
  BY <1>1, <1>2 DEF Carries, At
<1> QED
  BY <1>1, <1>2 DEF Carried

Waiting(n) == status[n] \in Open => Excused(n) \/ Carried(n)

(* Steps of the API. *)
LEMMA ApiCarries ==
    ASSUME TypeOK, NeverStranded, NEW n \in Puts,
           Put(n) \/ Enqueue(n) \/ EnqueueFails(n) \/ Deprovision(n)
    PROVE  NeverStranded'
<1>1. SUFFICES ASSUME NEW k \in Puts, status'[k] \in Open PROVE Excused(k)' \/ Carried(k)'
  BY DEF NeverStranded
<1>2. of' = of /\ run' = run /\ Kin(k)' = Kin(k) /\ k \in Kin(k)
  BY DEF Put, Enqueue, EnqueueFails, Deprovision, Kin
<1>3. \A v \in Workers : Carries(v, k)' <=> Carries(v, k)
  BY <1>2 DEF Carries, At
<1>4. CASE Put(n)
  <2>1. CASE k = n
    BY <1>4, <2>1 DEF Put, Carried, TypeOK
  <2>2. CASE k # n
    <3>1. status[k] = status'[k] /\ (api[k] => api'[k])
      BY <1>4, <2>2 DEF Put, TypeOK
    <3> QED
      BY <1>1, <1>2, <1>3, <1>4, <3>1 DEF Put, NeverStranded, Carried, Excused
  <2> QED
    BY <2>1, <2>2
<1>5. CASE Enqueue(n)
  <2>0. 0 \in Tries /\ <<n, 0>> \in Puts \X Tries
    BY ConstantsOK DEF Tries
  <2>1. queue'[<<n, 0>>] > 0
    BY <1>5, <2>0 DEF Enqueue, TypeOK
  <2>2. \A m \in Puts, t \in Tries : queue[<<m, t>>] > 0 => queue'[<<m, t>>] > 0
    <3>1. ASSUME NEW m \in Puts, NEW t \in Tries, queue[<<m, t>>] > 0 PROVE queue'[<<m, t>>] > 0
      <4>1. CASE <<m, t>> = <<n, 0>>
        BY <2>1, <4>1
      <4>2. CASE <<m, t>> # <<n, 0>>
        BY <1>5, <3>1, <4>2 DEF Enqueue, TypeOK
      <4> QED
        BY <4>1, <4>2
    <3> QED
      BY <3>1
  <2>3. CASE k = n
    BY <1>2, <2>0, <2>1, <2>3 DEF Carried
  <2>4. CASE k # n
    <3>1. status[k] = status'[k] /\ (api[k] => api'[k]) /\ dropped' = dropped
      BY <1>5, <2>4 DEF Enqueue, TypeOK
    <3> QED
      BY <1>1, <1>2, <1>3, <2>2, <3>1, KinTypeOK DEF NeverStranded, Carried, Excused
  <2> QED
    BY <2>3, <2>4
<1>6. CASE EnqueueFails(n)
  <2>1. CASE k = n
    BY <1>2, <1>6, <2>1 DEF EnqueueFails, Excused
  <2>2. CASE k # n
    <3>1. status[k] = status'[k] /\ (api[k] => api'[k]) /\ dropped \subseteq dropped'
      BY <1>6, <2>2 DEF EnqueueFails, TypeOK
    <3> QED
      BY <1>1, <1>2, <1>3, <1>6, <3>1 DEF EnqueueFails, NeverStranded, Carried, Excused
  <2> QED
    BY <2>1, <2>2
<1>7. CASE Deprovision(n)
  <2>1. k # n /\ status[k] = status'[k]
    BY <1>1, <1>7 DEF Deprovision, TypeOK, Open
  <2> QED
    BY <1>1, <1>2, <1>3, <1>7, <2>1 DEF Deprovision, NeverStranded, Carried, Excused
<1> QED
  BY <1>4, <1>5, <1>6, <1>7

(* Steps of a worker. *)
LEMMA WorkerCarries ==
    ASSUME TypeOK, OneRow, RunsKnowTheirRow, NeverStranded, NEW w \in Workers, WorkerStep(w)
    PROVE  NeverStranded'
<1>1. SUFFICES ASSUME NEW n \in Puts, status'[n] \in Open PROVE Excused(n)' \/ Carried(n)'
  BY DEF NeverStranded
<1>2. of' = of /\ api' = api /\ Kin(n)' = Kin(n)
  BY WorkerKeepsRows DEF Kin
<1>3. \A v \in Workers : v # w => run'[v] = run[v]
  BY DEF WorkerStep, Progress, Take, Load, Mark, RowGone, Lookup, Write, Check, InsertConflicts, Rejected, Notify,
         NotifyFails, Finish, Fail, Retry, Ack, Crash, Killed, Drop, Ends, Goes, TypeOK
<1>4. dropped \subseteq dropped' /\ (Excused(n) => Excused(n)')
  <2>1. dropped \subseteq dropped'
    BY DEF WorkerStep, Progress, Take, Load, Mark, RowGone, Lookup, Write, Check, InsertConflicts, Rejected, Notify,
           NotifyFails, Finish, Fail, Retry, Ack, Crash, Killed, Drop
  <2> QED
    BY <1>2, <2>1 DEF Excused
<1>5. ASSUME \A m \in Kin(n), t \in Tries : queue[<<m, t>>] > 0 => queue'[<<m, t>>] > 0,
             status[n] \in Open, Carries(w, n) => Excused(n)' \/ Carried(n)'
      PROVE  Excused(n)' \/ Carried(n)'
  BY <1>2, <1>3, <1>4, <1>5, CarriedOn DEF NeverStranded
<1>6. ASSUME Drop(w), run[w].pc # "idle" PROVE Excused(n)' \/ Carried(n)'
  <2>1. status[n] \in Open
    BY <1>1, <1>6 DEF Drop, requests
  <2>2. Carries(w, n) => Excused(n)'
    BY <1>2, <1>6 DEF Carries, Drop, Excused
  <2> QED
    BY <1>5, <1>6, <2>1, <2>2 DEF Drop
<1>7. ASSUME NEW pc \in HasRow, Goes(w, pc), run[w].pc \in HasRow, queue' = queue,
             status[n] \in Open \/ run[w].row = n
      PROVE  Excused(n)' \/ Carried(n)'
  <2>1. run[w] \in Task
    BY <1>7, Busy DEF HasRow, Points
  <2>2. run'[w].pc = pc /\ run'[w].put = run[w].put /\ run'[w].row = run[w].row
    BY <1>7, <2>1 DEF Goes, TypeOK, Task
  <2>3. run[w].row = n => Carries(w, n)'
    <3>1. run[w].row = n => run[w].put \in Kin(n)
      BY <2>1, ConstantsOK DEF RunsKnowTheirRow, Kin, Task
    <3> QED
      BY <1>2, <1>7, <2>2, <3>1 DEF Carries
  <2>4. Carries(w, n) => run[w].row = n
    BY <1>7 DEF Carries, At, HasRow
  <2> QED
    BY <1>5, <1>7, <2>3, <2>4 DEF Carried
<1>p. HasRow = {"loaded", "marked", "looked", "written", "checked", "notified", "failing"}
  BY DEF HasRow, Points
<1>8. ASSUME NEW m \in Puts, NEW t \in Tries, Take(w, m, t) PROVE Excused(n)' \/ Carried(n)'
  <2>1. run'[w].put = m /\ run'[w].pc = "started" /\ status[n] \in Open
    BY <1>1, <1>8 DEF Take, TypeOK, requests
  <2>2. CASE m \in Kin(n)
    BY <1>2, <2>1, <2>2 DEF Carried, Carries, At
  <2>3. CASE m \notin Kin(n)
    <3>1. ~Carries(w, n)
      BY <1>8, <1>p DEF Take, Carries, At
    <3>2. \A k \in Kin(n), u \in Tries : queue[<<k, u>>] > 0 => queue'[<<k, u>>] > 0
      BY <1>8, <2>3, KinTypeOK DEF Take, TypeOK
    <3> QED
      BY <1>5, <2>1, <3>1, <3>2
  <2> QED
    BY <2>2, <2>3
<1>9. ASSUME Load(w) PROVE Excused(n)' \/ Carried(n)'
  <2>1. run[w] \in Task /\ run[w].pc = "started" /\ status[n] \in Open /\ queue' = queue
    BY <1>1, <1>9, Busy DEF Load, At, requests
  <2>2. Carries(w, n) => Carries(w, n)'
    <3>1. SUFFICES ASSUME Carries(w, n) PROVE Carries(w, n)'
      OBVIOUS
    <3>2. of[run[w].put].instance = of[n].instance
      BY <3>1 DEF Carries, Kin
    <3>3. RowsOf(of[run[w].put].instance) = {n}
      BY <2>1, <3>2 DEF OneRow, Stored
    <3>4. run' = [run EXCEPT ![w].pc = "loaded", ![w].row = n]
      BY <1>9, <3>3 DEF Load
    <3>5. run'[w].pc = "loaded" /\ run'[w].row = n /\ run'[w].put = run[w].put
      BY <2>1, <3>4 DEF TypeOK, Task
    <3> QED
      BY <1>2, <1>p, <3>1, <3>5 DEF Carries
  <2> QED
    BY <1>5, <2>1, <2>2 DEF Carried
<1>10. ASSUME Mark(w) PROVE Excused(n)' \/ Carried(n)'
  <2>1. status[n] \in Open \/ run[w].row = n
    BY <1>1, <1>10 DEF Mark, Records, TypeOK
  <2> QED
    BY <1>7, <1>10, <1>p, <2>1 DEF Mark, At
<1>11. ASSUME Lookup(w) PROVE Excused(n)' \/ Carried(n)'
  <2>1. run[w] \in Task /\ status[n] \in Open /\ queue' = queue
    BY <1>1, <1>11, Busy DEF Lookup, At, requests
  <2>2. run'[w].pc = "looked" /\ run'[w].put = run[w].put /\ run'[w].row = run[w].row
    BY <1>11, <2>1 DEF Lookup, TypeOK, Task
  <2>3. Carries(w, n) => Carries(w, n)'
    BY <1>2, <1>11, <1>p, <2>2 DEF Carries, Lookup, At
  <2> QED
    BY <1>5, <2>1, <2>3 DEF Carried
<1>12. ASSUME Write(w) \/ Check(w) PROVE Excused(n)' \/ Carried(n)'
  BY <1>1, <1>7, <1>12, <1>p DEF Write, Check, At, requests
<1>13. ASSUME Notify(w) \/ NotifyFails(w) PROVE Excused(n)' \/ Carried(n)'
  <2>1. AfterSilence(w) \in HasRow
    BY <1>p DEF AfterSilence
  <2> QED
    BY <1>1, <1>7, <1>13, <1>p, <2>1 DEF Notify, NotifyFails, Written, At, requests
<1>14. ASSUME Finish(w) \/ Fail(w) PROVE Excused(n)' \/ Carried(n)'
  <2>1. run[w].row # n /\ status[n] \in Open
    BY <1>1, <1>14 DEF Finish, Fail, Records, RecordsFailure, TypeOK, Open
  <2>2. ~Carries(w, n)
    BY <1>14, <2>1 DEF Carries, Finish, Fail, At
  <2> QED
    BY <1>5, <1>14, <2>1, <2>2 DEF Finish, Fail
<1>15. ASSUME Retry(w) PROVE Excused(n)' \/ Carried(n)'
  <2>1. ~Carries(w, n) /\ status[n] \in Open
    BY <1>1, <1>15, <1>p DEF Carries, Retry, At, requests
  <2>2. \A k \in Kin(n), u \in Tries : queue[<<k, u>>] > 0 => queue'[<<k, u>>] > 0
    <3>1. run[w] \in Task
      BY <1>15, Busy DEF Retry, At
    <3>2. ASSUME NEW k \in Puts, NEW u \in Tries, queue[<<k, u>>] > 0 PROVE queue'[<<k, u>>] > 0
      <4>1. CASE <<k, u>> = <<run[w].put, run[w].tries + 1>>
        BY <1>15, <3>2, <4>1 DEF Retry, TypeOK
      <4>2. CASE <<k, u>> # <<run[w].put, run[w].tries + 1>>
        BY <1>15, <3>2, <4>2 DEF Retry, TypeOK
      <4> QED
        BY <4>1, <4>2
    <3> QED
      BY <3>2, KinTypeOK
  <2> QED
    BY <1>5, <2>1, <2>2
<1>16. ASSUME Ack(w) PROVE Excused(n)' \/ Carried(n)'
  <2>1. ~Carries(w, n) /\ status[n] \in Open
    BY <1>1, <1>16, <1>p DEF Carries, Ack, At, requests
  <2> QED
    BY <1>5, <1>16, <2>1 DEF Ack
<1>17. ASSUME Crash(w) PROVE Excused(n)' \/ Carried(n)'
  <2>1. run[w] \in Task /\ status[n] \in Open
    BY <1>1, <1>17, Busy DEF Crash, At, requests
  <2>2. <<run[w].put, run[w].tries>> \in Puts \X Tries
    BY <2>1 DEF Task
  <2>3. queue'[<<run[w].put, run[w].tries>>] > 0
    BY <1>17, <2>2 DEF Crash, Redelivered, TypeOK
  <2>4. \A k \in Kin(n), u \in Tries : queue[<<k, u>>] > 0 => queue'[<<k, u>>] > 0
    <3>1. ASSUME NEW k \in Puts, NEW u \in Tries, queue[<<k, u>>] > 0 PROVE queue'[<<k, u>>] > 0
      <4>1. CASE <<k, u>> = <<run[w].put, run[w].tries>>
        BY <2>3, <4>1
      <4>2. CASE <<k, u>> # <<run[w].put, run[w].tries>>
        BY <1>17, <3>1, <4>2 DEF Crash, Redelivered, TypeOK
      <4> QED
        BY <4>1, <4>2
    <3> QED
      BY <3>1, KinTypeOK
  <2>5. Carries(w, n) => Carried(n)'
    BY <1>2, <2>1, <2>3 DEF Carries, Carried, Task
  <2> QED
    BY <1>5, <2>1, <2>4, <2>5
<1>18. ASSUME Rejected(w) PROVE Excused(n)' \/ Carried(n)'
  BY <1>1, <1>6, <1>7, <1>18, <1>p DEF Rejected, At, requests
<1> QED
  BY <1>6, <1>8, <1>9, <1>10, <1>11, <1>12, <1>13, <1>14, <1>15, <1>16, <1>17, <1>18
  DEF WorkerStep, Progress, RowGone, InsertConflicts, Killed, At

(* What Redis loses excuses those who waited for it. *)
LEMMA EvictCarries ==
    ASSUME TypeOK, NeverStranded, NEW lost \in SUBSET Due, Evict(lost)
    PROVE  NeverStranded'
<1>1. /\ of' = of /\ status' = status /\ api' = api /\ run' = run
      /\ dropped' = dropped \cup {m[1] : m \in lost}
      /\ queue' = [m \in Puts \X Tries |-> IF m \in lost THEN 0 ELSE queue[m]]
  BY DEF Evict, requests
<1>2. SUFFICES ASSUME NEW n \in Puts, status[n] \in Open PROVE Excused(n)' \/ Carried(n)'
  BY <1>1 DEF NeverStranded
<1>3. Kin(n)' = Kin(n) /\ \A w \in Workers : Carries(w, n)' <=> Carries(w, n)
  BY <1>1 DEF Kin, Carries, At
<1>4. ASSUME NEW k \in Kin(n), NEW t \in Tries, queue[<<k, t>>] > 0
      PROVE  Excused(n)' \/ Carried(n)'
  <2>1. <<k, t>> \in Puts \X Tries
    BY KinTypeOK
  <2>2. CASE <<k, t>> \in lost
    <3>1. k \in dropped'
      BY <1>1, <2>2
    <3> QED
      BY <1>3, <3>1 DEF Excused
  <2>3. CASE <<k, t>> \notin lost
    <3>1. queue'[<<k, t>>] > 0
      BY <1>1, <1>4, <2>1, <2>3
    <3> QED
      BY <1>3, <3>1 DEF Carried
  <2> QED
    BY <2>2, <2>3
<1> QED
  BY <1>1, <1>2, <1>3, <1>4 DEF NeverStranded, Excused, Carried

LEMMA NextCarries ==
    TypeOK /\ OneRow /\ RunsKnowTheirRow /\ NeverStranded /\ [Next]_vars => NeverStranded'
<1> SUFFICES ASSUME TypeOK, OneRow, RunsKnowTheirRow, NeverStranded, [Next]_vars
             PROVE  NeverStranded'
  OBVIOUS
<1>1. CASE UNCHANGED vars
  BY <1>1 DEF vars, requests, NeverStranded, Excused, Carried, Carries, Kin, At
<1> QED
  BY <1>1, ApiCarries, WorkerCarries, EvictCarries DEF Next, WorkerStep

-----------------------------------------------------------------------------
(* What is reported as succeeded has been served. *)

Served(n) ==
    \E m \in Kin(n) : /\ m \in written
                      /\ of[m].name \in Routes => m \in told
                      /\ of[m].name \in Servers => m \in checked

LEMMA NextServed ==
    TypeOK /\ RunsKnowTheirRow /\ ToldOfSuccess /\ [Next]_vars => ToldOfSuccess'
<1> SUFFICES ASSUME TypeOK, RunsKnowTheirRow, ToldOfSuccess, [Next]_vars,
                    NEW n \in Puts, status'[n] = "succeeded"
             PROVE  Served(n)'
  BY DEF ToldOfSuccess, Served
<1>1. ASSUME status[n] = "succeeded", of' = of PROVE Served(n)'
  BY <1>1, HistoryGrows DEF ToldOfSuccess, Served, Kin
<1>2. ASSUME NEW k \in Puts, Put(k) \/ Enqueue(k) \/ EnqueueFails(k) \/ Deprovision(k)
      PROVE  Served(n)'
  <2>1. status[n] = "succeeded" /\ of' = of
    BY <1>2 DEF Put, Enqueue, EnqueueFails, Deprovision, TypeOK
  <2> QED
    BY <1>1, <2>1
<1>3. ASSUME NEW w \in Workers, WorkerStep(w) PROVE Served(n)'
  <2>1. of' = of
    BY <1>3, WorkerKeepsRows
  <2>2. CASE status[n] = "succeeded"
    BY <1>1, <2>1, <2>2
  <2>3. CASE status[n] # "succeeded"
    <3>1. Finish(w) /\ run[w].row = n
      BY <1>3, <2>3
      DEF WorkerStep, Progress, Take, Load, Mark, RowGone, Lookup, Write, Check, InsertConflicts, Rejected, Notify,
          NotifyFails, Finish, Fail, RecordsFailure, Records, Retry, Ack, Crash, Killed, Drop, requests,
          TypeOK
    <3>2. run[w].put \in Puts
      BY <3>1, Busy DEF Finish, At, Task
    <3>3. /\ run[w].put \in written
          /\ Name(w) \in Routes => run[w].put \in told
          /\ Name(w) \in Servers => run[w].put \in checked
      BY <3>1 DEF Finish, RunsKnowTheirRow, At
    <3>4. run[w].put \in Kin(n)
      BY <3>1, <3>2, ConstantsOK DEF RunsKnowTheirRow, Kin
    <3> QED
      BY <2>1, <3>1, <3>3, <3>4 DEF Served, Kin, Name, Finish, history
  <2> QED
    BY <2>2, <2>3
<1>4. CASE UNCHANGED requests
  BY <1>1, <1>4 DEF requests
<1> QED
  BY <1>2, <1>3, <1>4 DEF Next, WorkerStep, Evict, vars

-----------------------------------------------------------------------------
(* An instance has one row, a run knows whose row it has, and both of the below. *)
THEOREM Inductive == Spec => []IInv
<1>1. IInv /\ [Next]_vars => IInv'
  BY NextTypeOK, NextOneRow, NextHandlerFirst, NextKnows, NextCarries, NextServed DEF IInv
<1> QED
  BY InitIInv, <1>1, PTL DEF Spec

(* Whatever is retried, delivered again or deprovisioned, a request that is not settled has *)
(* somebody to settle it, or a delivery of its task has been dropped.                       *)
THEOREM NobodyStranded == Spec => []NeverStranded
<1>1. IInv => NeverStranded
  BY DEF IInv
<1> QED
  BY Inductive, <1>1, PTL

(* Success is reported of what has been in the catalogue and, for a route, told of. *)
THEOREM SuccessIsServed == Spec => []ToldOfSuccess
<1>1. IInv => ToldOfSuccess
  BY DEF IInv
<1> QED
  BY Inductive, <1>1, PTL

=============================================================================
