----------------------------- MODULE AgentSession -----------------------------
(***************************************************************************)
(* The agent gateway (agent-gateway/app) above an MCP gateway that keeps   *)
(* the promise of ToolService: sessions kept in Redis, the background task *)
(* that runs the ReAct loop of a session and records its steps, and the    *)
(* event stream that polls the record.  Others call tools meanwhile.       *)
(*                                                                         *)
(* Redis is called synchronously, so a step of the loop and its write to   *)
(* the record are one action; the last step and the status are two writes, *)
(* and Redis may fail between them.  The language model's answers are      *)
(* inputs.                                                                 *)
(***************************************************************************)
EXTENDS ToolService, Sequences

CONSTANTS Sessions,      (* session ids                                               *)
          None,          (* no record                                                 *)
          MaxSteps,      (* max_steps of every request; below 0 is as 0               *)
          MaxTokens,     (* max_tokens of every request, any integer                  *)
          PerCall,       (* the most tokens one answer of the language model reports  *)
          PromptFormats  (* can _SYSTEM_PROMPT be formatted?  As the code stands it   *)
                         (* cannot, the braces of its example are not escaped, and    *)
                         (* every run raises there; TRUE adds the loop behind it      *)

AgentCalls == Sessions \X (1..MaxSteps)

ASSUME AgentConstantsOK ==
    /\ AgentCalls \subseteq Calls
    /\ MaxSteps \in Nat /\ MaxTokens \in Int /\ PerCall \in Nat
    /\ PromptFormats \in BOOLEAN

VARIABLES record,  (* record[s]: the session as Redis has it                   *)
          run,     (* run[s]: the background task of session s                 *)
          stream,  (* stream[s]: an event stream of s and the steps it sent    *)
          asked    (* the agents' tool calls on their way to the MCP gateway   *)

agentVars == <<record, run, stream, asked>>
vars == <<serviceVars, agentVars>>

Terminal == {"completed", "failed", "budget_exceeded"}
Status == {"pending", "running"} \cup Terminal

(* A step of the record: a thought, a tool's result or a tool's failure, of one iteration. *)
Step == [step : 1..MaxSteps, type : {"think", "result", "failure"}]

Record == [status : Status, steps : Seq(Step), tokens : Nat]

(* "gone" is "over" by a crash; `answer' is the status that the loop's answer stands for;  *)
(* `unchecked' counts the thoughts since the budget was last found unspent.               *)
Run == [pc : {"none", "queued", "listing", "thinking", "acting", "returned", "over", "gone"},
        answer : {"none", "completed", "budget_exceeded"},
        step : 0..MaxSteps, tokens : Nat, unchecked : Nat]

NoRun == [pc |-> "none", answer |-> "none", step |-> 0, tokens |-> 0, unchecked |-> 0]

TypeOK ==
    /\ ServiceTypeOK
    /\ record \in [Sessions -> Record \cup {None}]
    /\ run \in [Sessions -> Run]
    /\ stream \in [Sessions -> [pc : {"off", "open", "done", "cut"}, seen : Nat]]
    /\ asked \subseteq AgentCalls

Init ==
    /\ ServiceInit
    /\ record = [s \in Sessions |-> None]
    /\ run = [s \in Sessions |-> NoRun]
    /\ stream = [s \in Sessions |-> [pc |-> "off", seen |-> 0]]
    /\ asked = {}

-----------------------------------------------------------------------------
(* session_store.py: an update of a record that has gone is dropped. *)

KeepsTokens(rec, n, type, tokens) ==                     \* mutant: total_tokens not updated
    IF rec = None THEN None ELSE [rec EXCEPT !.steps = Append(@, [step |-> n, type |-> type])]

WithStep(rec, n, type, tokens) ==
    IF rec = None THEN None
    ELSE [rec EXCEPT !.steps = Append(@, [step |-> n, type |-> type]), !.tokens = @ + tokens]

WithStatus(rec, status) == IF rec = None THEN None ELSE [rec EXCEPT !.status = status]

Live(s) == run[s].pc \notin {"none", "over", "gone"}

(* Redis runs with allkeys-lru and nothing persisted: a record may go at any time. *)
Evicted(s) ==
    /\ Live(s) /\ record[s] # None
    /\ record' = [record EXCEPT ![s] = None]
    /\ UNCHANGED <<serviceVars, run, stream, asked>>

(* Its TTL is an hour from its last change, longer than any step of a live run. *)
Expires(s) ==
    /\ ~Live(s) /\ record[s] # None
    /\ record' = [record EXCEPT ![s] = None]
    /\ UNCHANGED <<serviceVars, run, stream, asked>>

-----------------------------------------------------------------------------
(* run_agent, and _execute_agent around the loop. *)

Submit(s) ==
    /\ run[s].pc = "none"
    /\ record' = [record EXCEPT ![s] = [status |-> "pending", steps |-> <<>>, tokens |-> 0]]
    /\ run' = [run EXCEPT ![s].pc = "queued"]
    /\ UNCHANGED <<serviceVars, stream, asked>>

Begin(s) ==
    /\ run[s].pc = "queued"
    /\ record' = [record EXCEPT ![s] = WithStatus(@, "running")]
    /\ run' = [run EXCEPT ![s].pc = "listing"]
    /\ UNCHANGED <<serviceVars, stream, asked>>

(* Redis, the language model or the loop itself raised.  The handler's log.exception, which *)
(* takes no keyword argument, then raises ahead of its finalize (and ahead of the try       *)
(* nothing catches): the record stays as it is.                                             *)
Raises(s) ==
    /\ Live(s)
    /\ run' = [run EXCEPT ![s].pc = "over"]
    /\ UNCHANGED <<serviceVars, record, stream, asked>>

-----------------------------------------------------------------------------
(* The loop of react_agent.run: the run and the record after a step that left them as r    *)
(* and rec.                                                                                *)

Returned(s, r, rec, status) ==
    /\ run' = [run EXCEPT ![s] = [r EXCEPT !.pc = "returned", !.answer = status]]
    /\ record' = [record EXCEPT ![s] = rec]

NextStep(s, r, rec) ==
    IF r.step = MaxSteps THEN Returned(s, r, rec, "budget_exceeded")
    ELSE /\ run' = [run EXCEPT ![s] = [r EXCEPT !.pc = "thinking", !.step = @ + 1]]
         /\ record' = [record EXCEPT ![s] = rec]

(* The MCP gateway's list, empty if it does not answer, and the prompt made of it. *)
Listed(s) ==
    /\ run[s].pc = "listing"
    /\ PromptFormats
    /\ NextStep(s, run[s], record[s])
    /\ UNCHANGED <<serviceVars, stream, asked>>

Thought(s, tokens) == [run[s] EXCEPT !.tokens = @ + tokens, !.unchecked = @ + 1]

Thinks(s, tokens) ==
    /\ run[s].pc = "thinking"
    /\ LET r == Thought(s, tokens)
           rec == WithStep(record[s], r.step, "think", tokens)
       IN  \/ (* Final Answer; one that begins like the loop's own is taken for it *)
              /\ \E status \in {"completed", "budget_exceeded"} : Returned(s, r, rec, status)
              /\ UNCHANGED asked
           \/ (* neither an answer nor an action *)
              NextStep(s, r, rec) /\ UNCHANGED asked
           \/ /\ run' = [run EXCEPT ![s] = [r EXCEPT !.pc = "acting"]]
              /\ record' = [record EXCEPT ![s] = rec]
              /\ asked' = asked \cup {<<s, r.step>>}
    /\ UNCHANGED <<serviceVars, stream>>

OverBudgetAbove(r) == r.tokens > MaxTokens               \* mutant: > for >=

OverBudget(r) == r.tokens >= MaxTokens

Acted(s, type) ==
    LET rec == WithStep(record[s], run[s].step, type, 0)
    IN  IF OverBudget(run[s]) THEN Returned(s, run[s], rec, "budget_exceeded")
        ELSE NextStep(s, [run[s] EXCEPT !.unchecked = 0], rec)

AnyAnswer(c) == "result"                                 \* mutant: no raise_for_status

Observed(c) == IF given[c].res = "ok" THEN "result" ELSE "failure"

Observes(s) ==
    /\ run[s].pc = "acting"
    /\ given[<<s, run[s].step>>].state = "ended"
    /\ Acted(s, Observed(<<s, run[s].step>>))
    /\ UNCHANGED <<serviceVars, stream, asked>>

(* Its client waits 30 s, or never reached the MCP gateway; the call goes on without it. *)
GivesUp(s) ==
    /\ run[s].pc = "acting"
    /\ Acted(s, "failure")
    /\ UNCHANGED <<serviceVars, stream, asked>>

(* Back in _execute_agent; Raises if Redis fails here, with the status still "running". *)
Finalizes(s) ==
    /\ run[s].pc = "returned"
    /\ run' = [run EXCEPT ![s].pc = "over"]
    /\ record' = [record EXCEPT ![s] = WithStatus(@, run[s].answer)]
    /\ UNCHANGED <<serviceVars, stream, asked>>

-----------------------------------------------------------------------------
(* stream_agent: a look at the record every half second. *)

Watch(s) ==
    /\ stream[s].pc = "off" /\ record[s] # None
    /\ stream' = [stream EXCEPT ![s].pc = "open"]
    /\ UNCHANGED <<serviceVars, record, run, asked>>

AnyStatus(status) == status # "pending"                  \* mutant: ends with the first steps

IsTerminal(status) == status \in Terminal

WaitsForRecord(s) ==                                     \* mutant: no break without a record
    IF record[s] = None THEN stream[s]
    ELSE [pc |-> IF IsTerminal(record[s].status) THEN "done" ELSE "open",
          seen |-> Len(record[s].steps)]

AfterPoll(s) ==
    IF record[s] = None THEN [stream[s] EXCEPT !.pc = "cut"]
    ELSE [pc |-> IF IsTerminal(record[s].status) THEN "done" ELSE "open",
          seen |-> Len(record[s].steps)]

Poll(s) ==
    /\ stream[s].pc = "open"
    /\ stream' = [stream EXCEPT ![s] = AfterPoll(s)]
    /\ UNCHANGED <<serviceVars, record, run, asked>>

HangUp(s) ==
    /\ stream[s].pc = "open"
    /\ stream' = [stream EXCEPT ![s].pc = "cut"]
    /\ UNCHANGED <<serviceVars, record, run, asked>>

(* The process ends, with its tasks and streams; nothing takes a session up again. *)
AgentCrash ==
    /\ run' = [s \in Sessions |-> IF Live(s) THEN [run[s] EXCEPT !.pc = "gone"] ELSE run[s]]
    /\ stream' = [s \in Sessions |-> IF stream[s].pc = "open" THEN [stream[s] EXCEPT !.pc = "cut"]
                                     ELSE stream[s]]
    /\ UNCHANGED <<serviceVars, record, asked>>

-----------------------------------------------------------------------------
(* The MCP gateway's side: an agent's call arrives late, or never. *)
Delivered(c) ==
    /\ c \in asked
    /\ asked' = asked \ {c}
    /\ Accepts(c)
    /\ UNCHANGED <<record, run, stream>>

Serves ==
    /\ GoDown \/ (\E c \in Calls : Handles(c)) \/ (\E c \in Calls \ AgentCalls : Accepts(c))
    /\ UNCHANGED agentVars

Works(s) ==
    \/ Begin(s) \/ Raises(s) \/ Listed(s)
    \/ \E tokens \in 0..PerCall : Thinks(s, tokens)
    \/ Observes(s) \/ GivesUp(s) \/ Finalizes(s)

Next ==
    \/ \E s \in Sessions :
          \/ Submit(s) \/ Works(s) \/ Evicted(s) \/ Expires(s)
          \/ Watch(s) \/ Poll(s) \/ HangUp(s)
    \/ AgentCrash
    \/ \E c \in AgentCalls : Delivered(c)
    \/ Serves

Spec == Init /\ [][Next]_vars

(* Every await of the loop has a timeout, Redis expires what is left alone, and the stream  *)
(* sleeps half a second at a time.                                                          *)
FairSpec ==
    Spec /\ \A s \in Sessions :
               WF_vars(Works(s)) /\ WF_vars(Expires(s)) /\ WF_vars(Poll(s))

-----------------------------------------------------------------------------
(* A tool result in a session's record is what the tool answered to the very call the       *)
(* agent made in that step, or to an earlier one of the same tool that the MCP gateway had   *)
(* cached: "Never make up tool results" (react_agent.py:51), also not out of a call that     *)
(* was given up, delivered late, or lost with a gateway.                                     *)
ObservationBacked ==
    \A s \in Sessions : record[s] # None =>
        \A i \in 1..Len(record[s].steps) : record[s].steps[i].type = "result" =>
            LET c == <<s, record[s].steps[i].step>>
            IN  given[c].res = "ok" /\ Own(given[c].from, given[c].tool)

(* The budget is only checked after a tool was called, so a run spends more than max_tokens *)
(* by what it thought since: without a call, by all its thoughts (react_agent.py:100-139).  *)
(* One of 0 or less is spent at the first check, whatever was thought till then.            *)
Budget == IF MaxTokens > 0 THEN MaxTokens ELSE 1

OvershootBounded ==
    \A s \in Sessions :
       /\ run[s].tokens < Budget + PerCall * run[s].unchecked
       /\ record[s] # None => record[s].tokens = run[s].tokens

(* A stream that says "done" has sent every step the record will ever have, in whatever     *)
(* order the run's last writes, the polls and the end of the run fell (agents.py:80-99).     *)
StreamDelivers ==
    \A s \in Sessions :
       stream[s].pc = "done" /\ record[s] # None => stream[s].seen = Len(record[s].steps)

(* Why: inductive. *)
RunsCoherent ==
    \A s \in Sessions :
       /\ run[s].pc \in {"thinking", "acting"} => run[s].step > 0
       /\ run[s].pc = "returned" => run[s].answer # "none"
       /\ run[s].pc = "none" => run[s] = NoRun /\ record[s] = None /\ stream[s].pc = "off"
       /\ record[s] # None /\ record[s].status \in Terminal => ~Live(s)
       /\ stream[s].pc = "done" /\ record[s] # None => record[s].status \in Terminal

IInv ==
    /\ TypeOK /\ ServiceInv /\ RunsCoherent
    /\ ObservationBacked /\ OvershootBounded /\ StreamDelivers

(* A stream ends, if only because the record of a run that raised expires after an hour. *)
StreamEnds ==
    \A s \in Sessions : stream[s].pc = "open" ~> stream[s].pc # "open"

=============================================================================
