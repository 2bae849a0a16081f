----------------------------- MODULE StreamGuard -----------------------------
(***************************************************************************)
(* StreamGuard (gateway/app/middleware/stream_guard.py): the hold-back     *)
(* buffer that redacts a response while it streams.                        *)
(*                                                                         *)
(* The text is abstracted to its positions 0..Length-1 and to the places   *)
(* where a rule's pattern occurs in it.  A rule is a literal that does not *)
(* overlap itself (the keyword and toxicity rules with one word), so       *)
(* finditer finds in the buffer the occurrences that lie inside it; other  *)
(* rules' occurrences may overlap them.  What is emitted is a sequence of  *)
(* items: a character as it was, or what took a match's place.             *)
(***************************************************************************)
EXTENDS Integers, Sequences, FiniteSets

CONSTANTS Length,    (* characters in the provider's response          *)
          HoldBack,  (* hold_back: MAX_PATTERN_SPAN                    *)
          Span,      (* no pattern is longer                           *)
          Rules      (* the rules there may be, numbered in their order *)

ASSUME GuardConstantsOK ==
    /\ Length \in Nat /\ HoldBack \in Nat /\ Span \in Nat \ {0}
    /\ Span <= HoldBack + 1
    /\ Rules \subseteq Nat /\ IsFiniteSet(Rules)

VARIABLES action,    (* action[r]: action_on_violation of rule r, if r is in force *)
          found,     (* where the rules match the text                          *)
          received,  (* characters pushed so far                                *)
          base,      (* characters that have left _buf: it is base..received-1  *)
          released,  (* StreamGuard.released: everything emitted                *)
          cuts       (* where flush() has emptied the buffer; no action reads it *)

guardVars == <<action, found, received, base, released, cuts>>

Actions == {"redact", "block", "warn"}

InForce == DOMAIN action

Match == {m \in [start : 0..Length, end : 0..Length, rule : Rules] :
            m.start < m.end /\ m.end - m.start <= Span}

Raw(p) == <<"raw", p>>
Item == {"raw"} \X (0..Length) \cup {"redact", "block"} \X Rules

GuardTypeOK ==
    /\ action \in UNION {[R -> Actions] : R \in SUBSET Rules}
    /\ found \subseteq {m \in Match : m.rule \in InForce}
    /\ received \in 0..Length
    /\ base \in 0..received
    /\ released \in Seq(Item)
    /\ cuts \subseteq 0..received

(* finditer of one rule never yields overlapping matches. *)
Overlap(m, n) == m.start < n.end /\ n.start < m.end

PerRule == \A m, n \in found : m # n /\ m.rule = n.rule => ~Overlap(m, n)

-----------------------------------------------------------------------------
(* _collect: what the rules find in a buffer that holds the characters lo..hi-1. *)
Collected(lo, hi) == {m \in found : lo <= m.start /\ m.end <= hi}

(* The match that _redact takes at its start: found.sort(key=(start, -end)), which *)
(* keeps the order of the rules among equal spans.                                 *)
First(M) ==
    CHOOSE m \in M : \A n \in M :
        m.start < n.start \/ (m.start = n.start /\ (m.end > n.end \/
                                (m.end = n.end /\ m.rule <= n.rule)))

RawText(lo, hi) == [i \in 1..(hi - lo) |-> Raw(lo + i - 1)]

(* What _redact puts in the place of a match. *)
Instead(m) == IF action[m.rule] = "warn" THEN RawText(m.start, m.end)
              ELSE <<<<action[m.rule], m.rule>>>>

(* _redact(text, matches) of the characters lo..hi-1: a match that starts inside one *)
(* that was taken is skipped, whatever either rule's action.                         *)
Redacted(lo, hi, M) ==
    LET from[p \in lo..hi] ==
            LET here == {m \in M : m.start = p}
            IN  IF p = hi THEN <<>>
                ELSE IF here = {} THEN <<Raw(p)>> \o from[p + 1]
                ELSE Instead(First(here)) \o from[First(here).end]
    IN  from[lo]

IsBlock(item) == item[1] = "block"

(* _redact raises GuardrailViolation. *)
Blocked(items) == \E i \in DOMAIN items : IsBlock(items[i])

AtTheBoundary(at, M) == at                     \* mutant: splits the match at the boundary
NothingAtAll(at, M) ==                         \* mutant: releases nothing across a match
    IF \E m \in M : m.start < at /\ at < m.end THEN 0 ELSE at

(* The release point, pulled back once for each match in turn that crosses it as it *)
(* then is: in order of start, so to the first that crosses it.                     *)
PulledBack(at, M) ==
    LET crossing == {m \in M : m.start < at /\ at < m.end}
    IN  IF crossing = {} THEN at ELSE First(crossing).start

Settled(at, M) == {m \in M : m.end <= at}

(* _release(at), at an absolute position: the new start of the buffer and the text *)
(* that leaves it.                                                                 *)
Release(lo, hi, at) ==
    LET M == Collected(lo, hi)
        to == PulledBack(at, M)
    IN  IF to <= lo THEN [base |-> lo, text |-> <<>>]
        ELSE [base |-> to, text |-> Redacted(lo, to, Settled(to, M))]

HeldBackShort(hi) == hi - HoldBack + 1         \* mutant: holds back one character too few

HeldBack(hi) == hi - HoldBack

(* push(delta) of n characters, and flush(), as [base, text]; without rules the text *)
(* goes straight through.                                                            *)
Pushed(n) ==
    IF InForce = {} THEN [base |-> received + n, text |-> RawText(received, received + n)]
    ELSE IF HeldBack(received + n) <= base THEN [base |-> base, text |-> <<>>]
    ELSE Release(base, received + n, HeldBack(received + n))

FlushedFrom(lo, hi) ==
    IF InForce = {} THEN [base |-> lo, text |-> <<>>] ELSE Release(lo, hi, hi)

=============================================================================
