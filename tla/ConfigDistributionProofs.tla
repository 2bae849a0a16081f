----------------------- MODULE ConfigDistributionProofs -----------------------
(***************************************************************************)
(* What a gateway may conclude from a version, and what a reload signal    *)
(* does, for every number of gateways, tables, edits and failures.         *)
(***************************************************************************)
EXTENDS ConfigDistribution, TLAPS

LEMMA InitIInv == Init => IInv
  <1> SUFFICES ASSUME Init PROVE IInv
    OBVIOUS
  <1> USE DEF Init
  <1>1. TypeOK
    BY ConstantsOK DEF TypeOK, Content, Config, Idle, Empty, Job, NoJob, Nobody, Prints, Parts, Uncached
  <1>2. \A c \in Held : c = Empty
    BY DEF Held, Idle
  <1>3. Numbered
    BY <1>2 DEF Numbered, VersionNamesContent, Empty, Nothing, Kinds
  <1>4. Fresh /\ Awaited
    BY DEF Fresh, Awaited, NoJob, Parts, Uncached
  <1> QED
    BY <1>1, <1>3, <1>4 DEF IInv

-----------------------------------------------------------------------------
(* What a job fetches: a shorter list of tables, or in the end one value for each. *)
LEMMA GotContent ==
    ASSUME TypeOK, NEW v \in Nat
    PROVE  /\ Table \in Parts
           /\ Table < NumParts => Append(job.got, v) \in {s \in Seq(Nat) : Len(s) < NumParts}
           /\ ~(Table < NumParts) => Append(job.got, v) \in Content
           /\ DOMAIN job.got \subseteq Parts
           /\ \A p \in DOMAIN job.got : Append(job.got, v)[p] = job.got[p]
           /\ Append(job.got, v)[Table] = v
           /\ DOMAIN Append(job.got, v) = DOMAIN job.got \cup {Table}
  <1> DEFINE n == Len(job.got)
  <1>1. /\ job.got \in Seq(Nat) /\ n < NumParts /\ NumParts \in Nat
    BY ConstantsOK DEF TypeOK, Job
  <1>2. n \in Nat /\ DOMAIN job.got = 1..n
    BY <1>1
  <1>3. /\ Append(job.got, v) \in Seq(Nat)
        /\ Len(Append(job.got, v)) = n + 1
        /\ \A p \in 1..n : Append(job.got, v)[p] = job.got[p]
        /\ Append(job.got, v)[n + 1] = v
    BY <1>1, <1>2
  <1>4. Append(job.got, v) \in [1..(n + 1) -> Nat] /\ DOMAIN Append(job.got, v) = 1..(n + 1)
    <2>1. \A s \in Seq(Nat) : s \in [1..Len(s) -> Nat] /\ DOMAIN s = 1..Len(s)
      OBVIOUS
    <2> QED
      BY <1>3, <2>1
  <1>5. ~(n + 1 < NumParts) => n + 1 = NumParts
    BY <1>1, <1>2
  <1>6. ~(Table < NumParts) => Append(job.got, v) \in Content
    BY <1>4, <1>5 DEF Content, Parts, Table
  <1>7. 1..(n + 1) = 1..n \cup {n + 1} /\ 1..n \subseteq 1..NumParts /\ n + 1 \in 1..NumParts
    BY <1>1, <1>2
  <1> QED
    BY <1>1, <1>2, <1>3, <1>4, <1>6, <1>7 DEF Table, Parts

(* Three ways a fetch can go: the job goes on, it ends without an answer, or with one. *)
LEMMA GotCases ==
    ASSUME NEW v, Got(v)
    PROVE  \/ /\ Table < NumParts
              /\ job' = [job EXCEPT !.got = Append(job.got, v)]
              /\ UNCHANGED <<counter, last, fetch>>
           \/ ~(Table < NumParts) /\ job' = NoJob /\ NoAnswer
           \/ /\ ~(Table < NumParts) /\ job' = NoJob
              /\ job.kind \in Kinds /\ Answer(Append(job.got, v))
  BY DEF Got

LEMMA FetchTypeOK ==
    ASSUME TypeOK, NEW v \in Nat, Got(v)
    PROVE  /\ counter' \in Nat
           /\ last' \in [Kinds -> Prints]
           /\ job' \in Job
           /\ fetch' \in [Calls -> [state : {"idle", "asked", "replied"}, reply : Config]]
  <1> DEFINE got == Append(job.got, v)
  <1>0. NoJob \in Job
    BY ConstantsOK DEF NoJob, Job, Nobody
  <1>1. CASE Table < NumParts
    <2>1. got \in {s \in Seq(Nat) : Len(s) < NumParts}
      BY <1>1, GotContent
    <2>2. job' = [job EXCEPT !.got = got] /\ UNCHANGED <<counter, last, fetch>>
      BY <1>1 DEF Got
    <2> HIDE DEF got
    <2> QED
      BY <2>1, <2>2 DEF TypeOK, Job
  <1>2. CASE job' = NoJob /\ NoAnswer
    <2>1. Idle \in [state : {"idle", "asked", "replied"}, reply : Config]
      BY DEF Idle, Empty, Config, Content
    <2> QED
      BY <1>0, <1>2, <2>1 DEF NoAnswer, TypeOK
  <1>3. CASE ~(Table < NumParts) /\ job' = NoJob /\ job.kind \in Kinds /\ Answer(got)
    <2>1. got \in Content /\ job' = NoJob /\ Answer(got)
      BY <1>3, GotContent
    <2> HIDE DEF got
    <2>2. counter' \in Nat
      BY <2>1 DEF Answer, VersionFor, TypeOK
    <2>3. Fingerprint(job.kind, got) \in [Shown[job.kind] -> Nat]
      <3>1. Shown[job.kind] \subseteq Parts
        BY <1>3, ConstantsOK DEF Shown, Kinds
      <3> QED
        BY <3>1, <2>1 DEF Fingerprint, Content
    <2>4. Fingerprint(job.kind, got) \in Prints
      BY <1>3, <2>3 DEF Prints, Shown, Kinds, Content
    <2>5. [version |-> counter', content |-> got] \in Config
      BY <2>1, <2>2 DEF Config
    <2>6. last' \in [Kinds -> Prints]
      BY <2>1, <2>4 DEF Answer, TypeOK
    <2>7. fetch' \in [Calls -> [state : {"idle", "asked", "replied"}, reply : Config]]
      BY <2>1, <2>5 DEF Answer, TypeOK
    <2> QED
      BY <1>0, <2>1, <2>2, <2>6, <2>7
  <1> QED
    BY <1>1, <1>2, <1>3, GotCases

LEMMA NextTypeOK == TypeOK /\ [Next]_vars => TypeOK'
  <1> SUFFICES ASSUME TypeOK, [Next]_vars PROVE TypeOK'
    OBVIOUS
  <1> USE DEF Event
  <1>0. /\ NoJob \in Job /\ Empty \in Config /\ Idle.state = "idle" /\ Idle.reply = Empty
        /\ Idle \in [state : {"idle", "asked", "replied"}, reply : Config]
    BY ConstantsOK DEF NoJob, Job, Nobody, Empty, Config, Content, Idle
  <1>1. ASSUME NEW p \in Parts, Edit(p) PROVE TypeOK'
    BY <1>1 DEF Edit, TypeOK, controlPlane, Content
  <1>2. ASSUME NEW p \in Parts, Expire(p) PROVE TypeOK'
    BY <1>2 DEF Expire, TypeOK, Uncached
  <1>3. ASSUME NEW k \in Jobs, NEW c \in Calls \cup {Nobody}, Begin(k, c)
        PROVE job' \in Job
    <2>1. <<>> \in {s \in Seq(Nat) : Len(s) < NumParts}
      BY ConstantsOK
    <2> QED
      BY <1>3, <2>1 DEF Begin, Job
  <1>4. ASSUME NEW c \in Calls, BeginFetch(c) PROVE TypeOK'
    BY <1>3, <1>4 DEF BeginFetch, TypeOK, Jobs, Kinds
  <1>5. ASSUME NEW k \in Jobs, BeginOther(k) PROVE TypeOK'
    BY <1>3, <1>5 DEF BeginOther, TypeOK
  <1>6. CASE BeginRefresh
    BY <1>3, <1>6 DEF BeginRefresh, TypeOK, Jobs
  <1>7. ASSUME NEW S, Reload(S) PROVE TypeOK'
    BY <1>7 DEF Reload, Invalidated, TypeOK, Content
  <1>8. CASE FetchCached
    <2>1. cache[Table] \in Nat
      BY <1>8, GotContent, 0 \in Nat DEF FetchCached, TypeOK
    <2> QED
      BY <1>8, <2>1, FetchTypeOK DEF FetchCached, TypeOK
  <1>9. CASE FetchFromBroker
    <2>1. broker[Table] \in Nat /\ Table \in Parts
      BY GotContent, 0 \in Nat DEF TypeOK, Content
    <2>2. cache' \in [Parts -> Nat \cup {Uncached}]
      BY <1>9, <2>1 DEF FetchFromBroker, TypeOK
    <2> QED
      BY <1>9, <2>1, <2>2, FetchTypeOK DEF FetchFromBroker, TypeOK
  <1>10. CASE FetchFails
    BY <1>10, FetchTypeOK DEF FetchFails, TypeOK
  <1>11. CASE JobFails
    BY <1>0, <1>11 DEF JobFails, NoAnswer, TypeOK
  <1>12. ASSUME NEW d \in Drift, Restart(d) PROVE TypeOK'
    <2>1. counter' \in Nat
      BY <1>12, ConstantsOK DEF Restart, TypeOK
    <2>2. last' \in [Kinds -> Prints]
      BY <1>12 DEF Restart, Prints
    <2> QED
      BY <1>0, <1>12, <2>1, <2>2 DEF Restart, TypeOK
  <1>13. ASSUME NEW c \in Calls, Receive(c) PROVE TypeOK'
    <2>1. c[1] \in Gateways /\ fetch[c].reply \in Config
      BY DEF Calls, TypeOK
    <2> QED
      BY <1>0, <1>13, <2>1 DEF Receive, Installs, TypeOK, controlPlane
  <1>14. ASSUME NEW c \in Calls, TimesOut(c) PROVE TypeOK'
    <2>1. job' \in Job
      BY <1>14 DEF TimesOut, TypeOK, Job
    <2> QED
      BY <1>0, <1>14, <2>1 DEF TimesOut, TypeOK
  <1>15. ASSUME NEW g \in Gateways, RestartGateway(g) PROVE TypeOK'
    <2>1. job' \in Job
      BY <1>15 DEF RestartGateway, TypeOK, Job
    <2> QED
      BY <1>0, <1>15, <2>1 DEF RestartGateway, TypeOK
  <1>16. CASE UNCHANGED vars
    BY <1>16 DEF vars, controlPlane, TypeOK
  <1> QED
    BY <1>1, <1>2, <1>4, <1>5, <1>6, <1>7, <1>8, <1>9, <1>10, <1>11, <1>12, <1>13, <1>14,
       <1>15, <1>16 DEF Next, Work

-----------------------------------------------------------------------------
(* A job answers the call it was begun for, and that call still waits. *)
LEMMA NextAwaited == TypeOK /\ Awaited /\ [Next]_vars => Awaited'
  <1> SUFFICES ASSUME TypeOK, Awaited, [Next]_vars PROVE Awaited'
    OBVIOUS
  <1>1. ASSUME UNCHANGED <<job, fetch>> PROVE Awaited'
    BY <1>1 DEF Awaited
  <1>2. ASSUME job' = NoJob PROVE Awaited'
    BY <1>2 DEF Awaited, NoJob
  <1>3. ASSUME NEW v \in Nat, Got(v) PROVE Awaited'
    <2>1. CASE Table < NumParts
      <3>1. UNCHANGED fetch /\ job' = [job EXCEPT !.got = Append(job.got, v)]
        BY <1>3, <2>1 DEF Got
      <3>2. job'.client = job.client /\ job'.kind = job.kind
        BY <3>1 DEF TypeOK, Job
      <3> QED
        BY <3>1, <3>2 DEF Awaited
    <2>2. CASE ~(Table < NumParts)
      BY <1>2, <1>3, <2>2 DEF Got
    <2> QED
      BY <2>1, <2>2
  <1>4. ASSUME NEW c \in Calls, BeginFetch(c) PROVE Awaited'
    BY <1>4 DEF BeginFetch, Begin, Awaited, TypeOK
  <1>5. ASSUME NEW k, Begin(k, Nobody) PROVE Awaited'
    BY <1>5 DEF Begin, Awaited
  <1>6. FetchCached \/ FetchFromBroker \/ FetchFails => Awaited'
    <2>1. Table \in Parts /\ cache[Table] \in Nat \cup {Uncached} /\ broker[Table] \in Nat
      BY GotContent, 0 \in Nat DEF TypeOK, Content
    <2> QED
      BY <1>3, <2>1 DEF FetchCached, FetchFromBroker, FetchFails
  <1>7. ASSUME NEW c \in Calls, Receive(c) PROVE Awaited'
    <2>1. job' = job /\ job.client \in Calls \cup {Nobody}
      BY <1>7 DEF Receive, controlPlane, TypeOK, Job
    <2>2. job.client # Nobody => job.client # c /\ fetch'[job.client] = fetch[job.client]
      BY <1>7, <2>1 DEF Receive, Awaited, TypeOK
    <2> QED
      BY <2>1, <2>2 DEF Awaited
  <1>8. ASSUME NEW c \in Calls, TimesOut(c) PROVE Awaited'
    <2>1. CASE job.client = c
      BY <1>8, <2>1 DEF TimesOut, Awaited, TypeOK, Job
    <2>2. CASE job.client # c
      BY <1>8, <2>2 DEF TimesOut, Awaited, TypeOK, Job
    <2> QED
      BY <2>1, <2>2
  <1>9. ASSUME NEW g \in Gateways, RestartGateway(g) PROVE Awaited'
    <2>1. CASE job.client # Nobody /\ job.client \in {g} \X Fetchers
      BY <1>9, <2>1 DEF RestartGateway, Awaited, TypeOK, Job
    <2>2. CASE ~(job.client # Nobody /\ job.client \in {g} \X Fetchers)
      <3>1. job' = job /\ job.client \in Calls \cup {Nobody}
        BY <1>9, <2>2 DEF RestartGateway, TypeOK, Job
      <3>2. job.client # Nobody => job.client \in Calls /\ job.client[1] # g
        BY <2>2, <3>1 DEF Calls
      <3>3. job.client # Nobody => fetch'[job.client] = fetch[job.client]
        BY <1>9, <3>2 DEF RestartGateway
      <3> QED
        BY <3>1, <3>3 DEF Awaited
    <2> QED
      BY <2>1, <2>2
  <1> QED
    BY <1>1, <1>2, <1>4, <1>5, <1>6, <1>7, <1>8, <1>9
    DEF Next, Work, Edit, Expire, BeginOther, BeginRefresh, Reload, JobFails, Restart, vars,
        controlPlane

-----------------------------------------------------------------------------
(* Versions.  Two ways in which a step leaves them in order: nobody holds anything new *)
(* and the counter does not go back; or one new configuration is answered.             *)
LEMMA NumberedKept ==
    ASSUME TypeOK, TypeOK', Numbered, Held' \subseteq Held \cup {Empty}, counter' >= counter,
           \/ counter' = counter /\ last'["gateway"] = last["gateway"]
           \/ counter' > counter
           \/ last'["gateway"] = Nothing
    PROVE  Numbered'
  <1>1. counter \in Nat /\ counter' \in Nat /\ \A c \in Held \cup Held' : c \in Config
    BY DEF TypeOK, Held, Calls
  <1>2. \A c \in Held' : c.version <= counter /\ (c.version = 0 => c = Empty)
    BY <1>1 DEF Numbered, Empty
  <1>3. VersionNamesContent'
    BY <1>2 DEF Numbered, VersionNamesContent, Empty
  <1>4. counter' = counter /\ last'["gateway"] = last["gateway"] =>
           (last'["gateway"] # Nothing =>
              \A c \in Held' : c.version = counter' => c.content = last'["gateway"])
    BY DEF Numbered, Empty
  <1>5. counter' > counter => \A c \in Held' : c.version # counter'
    BY <1>1, <1>2 DEF Config
  <1>6. \A c \in Held' : c.version <= counter'
    BY <1>1, <1>2 DEF Config
  <1>7. counter' > 0
    BY <1>1 DEF Numbered
  <1> QED
    BY <1>2, <1>3, <1>4, <1>5, <1>6, <1>7 DEF Numbered

LEMMA AnswerNumbered ==
    ASSUME TypeOK, TypeOK', Numbered, NEW content \in Content, job.kind = "gateway",
           Answer(content), UNCHANGED installed
    PROVE  Numbered'
  <1> DEFINE new == [version |-> counter', content |-> content]
  <1>1. counter \in Nat /\ \A c \in Held : c \in Config
    BY DEF TypeOK, Held, Calls
  <1>2. Held' \subseteq Held \cup {new}
    BY DEF Answer, Held, TypeOK
  <1>3. Fingerprint("gateway", content) = content
    BY DEF Fingerprint, Shown, Content
  <1>4. last'["gateway"] = content
    BY <1>3 DEF Answer, TypeOK, Kinds
  <1>5. \/ last["gateway"] # content /\ counter' = counter + 1
        \/ last["gateway"] = content /\ counter' = counter
    BY <1>3 DEF Answer, VersionFor
  <1>6. content # Nothing
    BY ConstantsOK DEF Content, Parts, Nothing
  <1>7. \A c \in Held : c.version = counter' => c.content = content
    BY <1>1, <1>5, <1>6 DEF Numbered, Config
  <1>8. counter' > 0 /\ counter' >= counter
    BY <1>1, <1>5 DEF Numbered
  <1>9. \A c \in Held' : c.version <= counter' /\ (c.version = 0 => c = Empty)
    <2>1. \A c \in Held : c.version \in Nat /\ c.version <= counter /\ (c.version = 0 => c = Empty)
      BY <1>1 DEF Numbered, Config
    <2>2. new.version = counter' /\ new.version # 0 /\ counter' \in Nat
      BY <1>1, <1>5, <1>8
    <2> QED
      BY <1>1, <1>2, <1>8, <2>1, <2>2
  <1>10. VersionNamesContent'
    BY <1>2, <1>7 DEF Numbered, VersionNamesContent
  <1> QED
    BY <1>2, <1>4, <1>7, <1>8, <1>9, <1>10 DEF Numbered

LEMMA GotNumbered ==
    ASSUME TypeOK, TypeOK', Numbered, Awaited, NEW v \in Nat, Got(v), UNCHANGED installed
    PROVE  Numbered'
  <1> DEFINE got == Append(job.got, v)
  <1>0. counter \in Nat
    BY DEF TypeOK
  <1>1. CASE UNCHANGED <<counter, last, fetch>>
    BY <1>0, <1>1, NumberedKept DEF Held
  <1>2. CASE ~(Table < NumParts) /\ Answer(got) /\ job.kind = "gateway"
    BY <1>2, GotContent, AnswerNumbered
  <1>3. CASE Answer(got) /\ job.kind = "mcp"
    <2>1. Answer(got) /\ job.client = Nobody
      BY <1>3 DEF Awaited
    <2>2. \A c \in Calls : c # Nobody
      BY DEF Calls, Nobody
    <2>3. \A c \in Calls : fetch'[c] = fetch[c]
      BY <2>1, <2>2 DEF Answer
    <2>4. Held' = Held
      BY <2>3 DEF Held
    <2>5. last'["gateway"] = last["gateway"] /\ (counter' = counter \/ counter' = counter + 1)
      BY <1>3, <2>1 DEF Answer, VersionFor, TypeOK, Kinds
    <2> QED
      BY <1>0, <2>4, <2>5, NumberedKept
  <1>4. CASE NoAnswer
    <2>1. Held' \subseteq Held
      BY <1>4 DEF NoAnswer, Held, Idle
    <2> QED
      BY <1>0, <1>4, <2>1, NumberedKept DEF NoAnswer
  <1> QED
    BY <1>1, <1>2, <1>3, <1>4, GotCases DEF Kinds

LEMMA NextNumbered == TypeOK /\ Numbered /\ Awaited /\ [Next]_vars => Numbered'
  <1> SUFFICES ASSUME TypeOK, Numbered, Awaited, [Next]_vars PROVE Numbered'
    OBVIOUS
  <1>0. TypeOK' /\ counter \in Nat
    BY NextTypeOK DEF TypeOK
  <1>1. ASSUME Held' \subseteq Held \cup {Empty}, UNCHANGED <<counter, last>> PROVE Numbered'
    BY <1>0, <1>1, NumberedKept
  <1>2. ASSUME NEW p, Edit(p) \/ Expire(p) PROVE Numbered'
    BY <1>1, <1>2 DEF Edit, Expire, Held, controlPlane
  <1>3. ASSUME NEW c \in Calls, BeginFetch(c) PROVE Numbered'
    <2>1. Held' \subseteq Held
      BY <1>3 DEF BeginFetch, Held, TypeOK
    <2> QED
      BY <1>1, <1>3, <2>1 DEF BeginFetch
  <1>4. ASSUME NEW k, BeginOther(k) \/ BeginRefresh PROVE Numbered'
    BY <1>1, <1>4 DEF BeginOther, BeginRefresh, Held
  <1>5. ASSUME NEW S, Reload(S) PROVE Numbered'
    BY <1>0, <1>5, NumberedKept DEF Reload, Held
  <1>6. FetchCached \/ FetchFromBroker \/ FetchFails => Numbered'
    <2>1. Table \in Parts /\ cache[Table] \in Nat \cup {Uncached} /\ broker[Table] \in Nat
      BY GotContent, 0 \in Nat DEF TypeOK, Content
    <2> QED
      BY <1>0, <2>1, GotNumbered DEF FetchCached, FetchFromBroker, FetchFails
  <1>7. CASE JobFails
    <2>1. Held' \subseteq Held
      BY <1>7 DEF JobFails, NoAnswer, Held, Idle
    <2> QED
      BY <1>1, <1>7, <2>1 DEF JobFails, NoAnswer
  <1>8. ASSUME NEW d \in Drift, Restart(d) PROVE Numbered'
    <2>1. Held' \subseteq Held
      BY <1>8 DEF Restart, Held, Idle
    <2>2. counter' >= counter /\ last'["gateway"] = Nothing
      BY <1>0, <1>8, Paced DEF Restart, Kinds
    <2> QED
      BY <1>0, <2>1, <2>2, NumberedKept
  <1>9. ASSUME NEW c \in Calls, Receive(c) PROVE Numbered'
    <2>1. \A d \in Calls : fetch'[d].state = "replied" => fetch'[d] = fetch[d]
      BY <1>9 DEF Receive, Idle, TypeOK
    <2>2. \A g \in Gateways : installed'[g] \in {installed[g], fetch[c].reply}
      BY <1>9 DEF Receive, Installs, TypeOK
    <2>3. Held' \subseteq Held
      BY <1>9, <2>1, <2>2 DEF Receive, Held
    <2> QED
      BY <1>1, <1>9, <2>3 DEF Receive, controlPlane
  <1>10. ASSUME NEW c \in Calls, TimesOut(c) PROVE Numbered'
    <2>1. Held' \subseteq Held
      BY <1>10 DEF TimesOut, Held, Idle, TypeOK
    <2> QED
      BY <1>1, <1>10, <2>1 DEF TimesOut
  <1>11. ASSUME NEW g \in Gateways, RestartGateway(g) PROVE Numbered'
    <2>1. Held' \subseteq Held \cup {Empty}
      BY <1>11 DEF RestartGateway, Held, Idle, TypeOK
    <2> QED
      BY <1>1, <1>11, <2>1 DEF RestartGateway
  <1>12. CASE UNCHANGED vars
    BY <1>1, <1>12 DEF vars, controlPlane, Held
  <1> QED
    BY <1>2, <1>3, <1>4, <1>5, <1>6, <1>7, <1>8, <1>9, <1>10, <1>11, <1>12 DEF Next, Work

-----------------------------------------------------------------------------
(* Freshness.  A reload signal is handled between two jobs, so that no job holds what *)
(* the signal has just made old.                                                      *)
LEMMA GotFresh ==
    ASSUME TypeOK, Fresh, NEW v \in Nat, v = 0 \/ v >= floor[Table], Got(v)
    PROVE  /\ \A p \in DOMAIN job'.got : job'.got[p] = 0 \/ job'.got[p] >= floor[p]
           /\ \A c \in Calls : fetch[c].state = "asked" /\ fetch'[c].state = "replied" =>
                 \A p \in Parts : \/ fetch'[c].reply.content[p] = 0
                                  \/ fetch'[c].reply.content[p] >= floor[p]
  <1> DEFINE got == Append(job.got, v)
  <1>1. \A p \in DOMAIN got : got[p] = 0 \/ got[p] >= floor[p]
    BY GotContent DEF Fresh
  <1>2. got \in Content => DOMAIN got = Parts
    BY DEF Content
  <1>3. job'.got = got \/ job'.got = <<>>
    BY DEF Got, NoJob, TypeOK, Job
  <1>4. \A p \in DOMAIN job'.got : job'.got[p] = 0 \/ job'.got[p] >= floor[p]
    <2> HIDE DEF got
    <2> QED
      BY <1>1, <1>3
  <1>5. CASE UNCHANGED fetch
    BY <1>4, <1>5
  <1>6. CASE ~(Table < NumParts) /\ Answer(got)
    <2>1. \A p \in Parts : got[p] = 0 \/ got[p] >= floor[p]
      BY <1>1, <1>2, <1>6, GotContent
    <2> HIDE DEF got
    <2>2. \A c \in Calls : fetch[c].state = "asked" /\ fetch'[c].state = "replied" =>
             fetch'[c].reply.content = got
      BY <1>6 DEF Answer
    <2> QED
      BY <1>4, <2>1, <2>2
  <1>7. CASE NoAnswer
    BY <1>4, <1>7 DEF NoAnswer, Idle
  <1> QED
    BY <1>5, <1>6, <1>7, GotCases

(* What a fetch gives is not older than the last reload signal for its table. *)
LEMMA FetchFresh ==
    ASSUME TypeOK, Fresh
    PROVE  /\ FetchCached => \E v \in Nat : Got(v) /\ v >= floor[Table]
           /\ FetchFromBroker => \E v \in Nat : Got(v) /\ v >= floor[Table]
           /\ FetchFails => \E v \in Nat : Got(v) /\ v = 0
  <1>1. Table \in Parts /\ cache[Table] \in Nat \cup {Uncached} /\ broker[Table] \in Nat
    BY GotContent, 0 \in Nat DEF TypeOK, Content
  <1> QED
    BY <1>1 DEF FetchCached, FetchFromBroker, FetchFails, Fresh

LEMMA NextFresh == TypeOK /\ Fresh /\ [Next]_vars => Fresh'
  <1> SUFFICES ASSUME TypeOK, Fresh, [Next]_vars PROVE Fresh'
    OBVIOUS
  <1>1. ASSUME UNCHANGED <<broker, cache, floor>>,
               job'.got = job.got \/ job'.got = <<>>
        PROVE Fresh'
    BY <1>1 DEF Fresh
  <1>2. ASSUME NEW p \in Parts, Edit(p) PROVE Fresh'
    <2>1. \A q \in Parts : broker[q] \in Nat /\ floor[q] \in Nat /\ broker'[q] >= broker[q]
      BY <1>2 DEF Edit, TypeOK, Content
    <2> QED
      BY <1>2, <2>1 DEF Edit, Fresh, controlPlane
  <1>3. ASSUME NEW p \in Parts, Expire(p) PROVE Fresh'
    BY <1>3 DEF Expire, Fresh, TypeOK
  <1>4. ASSUME NEW k, NEW c, Begin(k, c) PROVE job'.got = <<>>
    BY <1>4 DEF Begin
  <1>5. ASSUME NEW c \in Calls, BeginFetch(c) PROVE Fresh'
    BY <1>1, <1>4, <1>5 DEF BeginFetch
  <1>6. ASSUME NEW k, BeginOther(k) PROVE Fresh'
    BY <1>1, <1>4, <1>6 DEF BeginOther
  <1>7. CASE BeginRefresh
    BY <1>4, <1>7 DEF BeginRefresh, Fresh
  <1>8. ASSUME NEW S, Reload(S) PROVE Fresh'
    <2>1. DOMAIN job'.got = {}
      BY <1>8 DEF Reload, NoJob
    <2>2. \A p \in Parts : broker[p] \in Nat
      BY DEF TypeOK, Content
    <2> QED
      BY <1>8, <2>1, <2>2 DEF Reload, Invalidated, Fresh
  <1>9. FetchCached \/ FetchFromBroker \/ FetchFails => Fresh'
    <2>1. ASSUME FetchCached \/ FetchFromBroker \/ FetchFails
          PROVE  \A p \in DOMAIN job'.got : job'.got[p] = 0 \/ job'.got[p] >= floor[p]
      BY <2>1, FetchFresh, GotFresh
    <2>2. ASSUME FetchCached \/ FetchFromBroker \/ FetchFails
          PROVE  /\ UNCHANGED <<broker, floor>>
                 /\ \A p \in Parts : cache'[p] \in {cache[p], broker[p]}
      BY <2>2 DEF FetchCached, FetchFromBroker, FetchFails, TypeOK
    <2> QED
      BY <2>1, <2>2 DEF Fresh
  <1>10. CASE JobFails
    BY <1>1, <1>10 DEF JobFails, NoAnswer, NoJob
  <1>11. ASSUME NEW d \in Drift, Restart(d) PROVE Fresh'
    BY <1>1, <1>11 DEF Restart, NoJob
  <1>12. ASSUME NEW c \in Calls, Receive(c) PROVE Fresh'
    BY <1>1, <1>12 DEF Receive, controlPlane
  <1>13. ASSUME NEW c \in Calls, TimesOut(c) PROVE Fresh'
    BY <1>1, <1>13 DEF TimesOut, TypeOK, Job
  <1>14. ASSUME NEW g \in Gateways, RestartGateway(g) PROVE Fresh'
    BY <1>1, <1>14 DEF RestartGateway, TypeOK, Job
  <1>15. CASE UNCHANGED vars
    BY <1>1, <1>15 DEF vars, controlPlane
  <1> QED
    BY <1>2, <1>3, <1>5, <1>6, <1>7, <1>8, <1>9, <1>10, <1>11, <1>12, <1>13, <1>14, <1>15
    DEF Next, Work

-----------------------------------------------------------------------------
(* The inductive invariant: versions in order, caches fresh, answers awaited. *)
THEOREM Inductive == Spec => []IInv
  <1>1. IInv /\ [Next]_vars => IInv'
    BY NextTypeOK, NextNumbered, NextFresh, NextAwaited DEF IInv
  <1> QED
    BY <1>1, InitIInv, PTL DEF Spec

(* No version is given to two contents (config.py:22-32), so that a gateway that compares *)
(* versions only never keeps an old content for it (config_store.py:67).                  *)
THEOREM VersionsAreNames == Spec => []VersionNamesContent
  <1>1. IInv => VersionNamesContent
    BY DEF IInv, Numbered
  <1> QED
    BY <1>1, Inductive, PTL

(* A handled reload signal is never undone by a fetch that was under way (loader.py:58-79). *)
THEOREM ReloadsStand == Spec => FreshAfterReload
  <1> DEFINE A == \A c \in Calls : fetch[c].state = "asked" /\ fetch'[c].state = "replied" =>
                     \A p \in Parts :
                        fetch'[c].reply.content[p] \in {0} \cup {n \in Nat : n >= floor[p]}
  <1>1. ASSUME IInv, [Next]_vars PROVE [A]_vars
    <2>1. TypeOK /\ Fresh /\ TypeOK'
      BY <1>1, NextTypeOK DEF IInv
    <2>2. CASE FetchCached \/ FetchFromBroker \/ FetchFails
      <3>1. \A c \in Calls : fetch[c].state = "asked" /\ fetch'[c].state = "replied" =>
               \A p \in Parts : \/ fetch'[c].reply.content[p] = 0
                                \/ fetch'[c].reply.content[p] >= floor[p]
        BY <2>1, <2>2, FetchFresh, GotFresh
      <3>2. \A c \in Calls, p \in Parts : fetch'[c].reply.content[p] \in Nat
        BY <2>1 DEF TypeOK, Config, Content
      <3> QED
        BY <3>1, <3>2
    <2>3. ASSUME \A c \in Calls : fetch'[c].state = "replied" => fetch[c].state = "replied"
          PROVE A
      BY <2>3
    <2>4. CASE JobFails
      BY <2>3, <2>4 DEF JobFails, NoAnswer, Idle
    <2>5. ASSUME NEW d \in Drift, Restart(d) PROVE A
      BY <2>3, <2>5 DEF Restart, Idle
    <2>6. ASSUME NEW c \in Calls, BeginFetch(c) PROVE A
      BY <2>1, <2>3, <2>6 DEF BeginFetch, TypeOK
    <2>7. ASSUME NEW c \in Calls, Receive(c) \/ TimesOut(c) PROVE A
      BY <2>1, <2>3, <2>7 DEF Receive, TimesOut, Idle, TypeOK
    <2>8. ASSUME NEW g \in Gateways, RestartGateway(g) PROVE A
      BY <2>3, <2>8 DEF RestartGateway, Idle
    <2>9. CASE UNCHANGED fetch
      BY <2>3, <2>9
    <2> HIDE DEF A
    <2> QED
      BY <1>1, <2>2, <2>4, <2>5, <2>6, <2>7, <2>8, <2>9
      DEF Next, Work, Edit, Expire, BeginOther, BeginRefresh, Reload, vars
  <1>2. IInv /\ [Next]_vars => [A]_vars
    BY <1>1
  <1> QED
    BY <1>2, Inductive, PTL DEF Spec, FreshAfterReload

=============================================================================
