------------------------------ MODULE ToolService ------------------------------
(***************************************************************************)
(* What the MCP gateway promises to who calls a tool through it: a call is *)
(* answered once, with what its tool returned to it or to an earlier call; *)
(* anything else is an error, and says nothing of whether the tool ran, or *)
(* still will, or whether its result, lost to this call, is given to       *)
(* others.  ToolCall implements this, AgentSession relies on it.           *)
(***************************************************************************)
EXTENDS Integers, FiniteSets

CONSTANTS Calls,    (* calls that clients may make *)
          Tools,    (* names of tools              *)
          Nobody    (* not a call, not a tool      *)

ASSUME NobodyIsNoCall == Nobody \notin Calls

VARIABLES given,    (* given[c]: what call c was given, in the end, and whose *)
                    (* result it is, or was that got lost on the way          *)
          effects   (* the calls for which a tool has run          *)

serviceVars == <<given, effects>>

Given == [state : {"idle", "open", "ended"}, tool : Tools \cup {Nobody},
          from : Calls \cup {Nobody}, res : {"none", "ok", "error"}]

NotGiven == [state |-> "idle", tool |-> Nobody, from |-> Nobody, res |-> "none"]

ServiceTypeOK == given \in [Calls -> Given] /\ effects \subseteq Calls

ServiceInit == given = [c \in Calls |-> NotGiven] /\ effects = {}

(* Its tool answered call b; it is the answer of b, or was to be. *)
Own(b, t) ==
    /\ b \in Calls /\ b \in effects
    /\ given[b].tool = t /\ given[b].from = b

Concluded(c, t, from, res) ==
    given' = [given EXCEPT ![c] = [state |-> "ended", tool |-> t, from |-> from, res |-> res]]

TakeUp(c, t) ==
    /\ given[c].state = "idle"
    /\ given' = [given EXCEPT ![c] = [state |-> "open", tool |-> t, from |-> Nobody, res |-> "none"]]
    /\ UNCHANGED effects

(* The tool of a call runs, also long after the call was concluded. *)
TakeEffect(c) ==
    /\ given[c].state # "idle"
    /\ effects' = effects \cup {c}
    /\ UNCHANGED given

Refuse(c, t) ==
    /\ given[c].state = "idle"
    /\ Concluded(c, t, Nobody, "error")
    /\ UNCHANGED effects

Answer(c, from, res) ==
    /\ given[c].state = "open"
    /\ res = "ok" => from = c
    /\ effects' \in {effects \cup {c}} \cup (IF from = c THEN {} ELSE {effects})
    /\ Concluded(c, given[c].tool, from, res)

Recall(c, t, b) ==
    /\ given[c].state = "idle" \/ (given[c].state = "open" /\ given[c].tool = t)
    /\ Own(b, t) /\ c \notin effects
    /\ Concluded(c, t, b, "ok")
    /\ UNCHANGED effects

(* The gateway went down. *)
GoDown ==
    /\ given' = [c \in Calls |->
          IF given[c].state = "open" THEN [given[c] EXCEPT !.state = "ended", !.res = "error"]
          ELSE given[c]]
    /\ UNCHANGED effects

Handles(c) ==
    \/ TakeEffect(c)
    \/ \E from \in {c, Nobody}, res \in {"ok", "error"} : Answer(c, from, res)
    \/ \E t \in Tools, b \in Calls : given[c].state = "open" /\ Recall(c, t, b)

Accepts(c) ==
    \/ \E t \in Tools : TakeUp(c, t)
    \/ \E t \in Tools \cup {Nobody} : Refuse(c, t)
    \/ \E t \in Tools, b \in Calls : given[c].state = "idle" /\ Recall(c, t, b)

ServiceNext == GoDown \/ \E c \in Calls : Handles(c) \/ Accepts(c)

ServiceSpec == ServiceInit /\ [][ServiceNext]_serviceVars

-----------------------------------------------------------------------------
(* What is answered is a tool's own result, given to that call or to one before it. *)
Founded ==
    \A c \in Calls :
       /\ given[c].res = "ok" => Own(given[c].from, given[c].tool)
       /\ given[c].res = "ok" \/ given[c].from # Nobody => given[c].state = "ended"
       /\ given[c].state = "idle" => c \notin effects

ServiceInv == ServiceTypeOK /\ Founded

=============================================================================
