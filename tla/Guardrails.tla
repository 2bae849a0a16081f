----------------------------- MODULE Guardrails -----------------------------
(***************************************************************************)
(* Guardrails on whole texts (gateway/app/middleware/guardrails.py): what  *)
(* happens to a prompt on its way in and to a completion on its way out.   *)
(*                                                                         *)
(* A text is a sequence of words and a rule finds some of the words.  What *)
(* a rule puts in the place of a match is words too, as many as it likes,  *)
(* and other rules, or itself, may find them; so is what a cut inside a    *)
(* word leaves of it.  The code cannot tell the one from the other; here   *)
(* each word carries who wrote it, for the properties to speak of.  What   *)
(* scanning a text ends in is a record: the text that goes on, or a        *)
(* GuardrailViolation ("blocked"), or re.error of a pattern that does not  *)
(* compile ("crashed").                                                    *)
(***************************************************************************)
EXTENDS Integers, Sequences, FiniteSets, SequencesExt

CONSTANT Words     (* what rules can find *)

(* A word as the client or the model wrote it, what a length guardrail's cut left of one, *)
(* or one that a guardrail put there.                                                      *)
Piece == [word : Words, by : {"author", "cut", "guardrail"}]

Text == Seq(Piece)

Authored(text) == \A i \in DOMAIN text : text[i].by = "author"

Message == [role : {"system", "user", "assistant"}, text : Text]

Guardrail == [type : {"pii", "toxicity", "length", "regex", "keyword"},
              action : {"block", "redact", "warn"},
              words : SUBSET Words,      (* what it looks for                    *)
              instead : [Words -> Seq(Words)],   (* what it replaces each with, and makes *)
                                                 (* of the words on either side           *)
              compiles : BOOLEAN,        (* its pattern is a regular expression  *)
              max : Nat,                 (* max_chars of a length guardrail      *)
              stump : [Words -> Words],  (* what its cut leaves of the last word *)
              input : BOOLEAN, output : BOOLEAN,   (* apply_on_input, apply_on_output *)
              system : BOOLEAN]          (* include_system                       *)

Passed(x) == [outcome |-> "ok", result |-> x]

Stopped(outcome, x) == [outcome |-> outcome, result |-> x]

Finds(g, piece) == piece.word \in g.words

FindsIn(g, text) == \E i \in DOMAIN text : Finds(g, text[i])

Inserted(words) == [i \in DOMAIN words |-> [word |-> words[i], by |-> "guardrail"]]

InPlaceOf(g, piece) == IF Finds(g, piece) THEN Inserted(g.instead[piece.word]) ELSE <<piece>>

Replaced(g, text) == FoldLeft(LAMBDA done, piece : done \o InPlaceOf(g, piece), <<>>, text)

(* "warn" leaves what the pii and toxicity rules find; the others replace it all the same. *)
Replaces(g) == g.action = "redact" \/ (g.action = "warn" /\ g.type \in {"regex", "keyword"})

(* _pii_guardrail, _toxicity_guardrail, _regex_guardrail, _keyword_guardrail *)
Scanned(g, text) ==
    IF g.type = "regex" /\ ~g.compiles THEN Stopped("crashed", text)
    ELSE IF ~FindsIn(g, text)          THEN Passed(text)
    ELSE IF g.action = "block"         THEN Stopped("blocked", text)
    ELSE Passed(IF Replaces(g) THEN Replaced(g, text) ELSE text)

(* _length_guardrail: text[:max_chars] may end inside a word, and make another of it *)
CutShort(g, piece) ==
    IF g.stump[piece.word] = piece.word THEN piece
    ELSE [word |-> g.stump[piece.word], by |-> IF piece.by = "guardrail" THEN "guardrail" ELSE "cut"]

Shortened(g, text) ==
    IF Len(text) <= g.max      THEN Passed(text)
    ELSE IF g.action = "block" THEN Stopped("blocked", text)
    ELSE Passed([i \in 1..g.max |-> IF i = g.max THEN CutShort(g, text[i]) ELSE text[i]])

(* _apply_to_text *)
AppliedToText(g, text) == IF g.type = "length" THEN Shortened(g, text) ELSE Scanned(g, text)

Exempt(g, message) == message.role = "system" /\ ~g.system

LastOnly(g, messages) ==                       \* mutant: rewrites the last message only
    [outcome |-> "ok",
     result |-> [messages EXCEPT ![Len(messages)].text = Scanned(g, @).result]]

(* One scanning guardrail over a prompt, message by message. *)
ScannedEach(g, messages) ==
    LET subject == {i \in DOMAIN messages : ~Exempt(g, messages[i])}
        stopped == {i \in subject : Scanned(g, messages[i].text).outcome # "ok"}
    IN  IF stopped # {}
        THEN Stopped(Scanned(g, messages[CHOOSE i \in stopped : TRUE].text).outcome, messages)
        ELSE Passed([i \in DOMAIN messages |->
                        IF i \in subject
                        THEN [messages[i] EXCEPT !.text = Scanned(g, @).result]
                        ELSE messages[i]])

(* A length guardrail is a budget on the prompt as a whole: it can block, not shorten. *)
Budgeted(g, messages) ==
    Stopped(Shortened(g, FlattenSeq([i \in DOMAIN messages |-> messages[i].text])).outcome, messages)

(* apply_input_guardrails, apply_output_guardrails: in their order, until one raises *)
AppliedToInput(messages, rails) ==
    FoldLeft(LAMBDA so, g : IF so.outcome # "ok" \/ ~g.input THEN so
                            ELSE IF g.type = "length" THEN Budgeted(g, so.result)
                            ELSE ScannedEach(g, so.result),
             Passed(messages), rails)

AppliedToOutput(text, rails) ==
    FoldLeft(LAMBDA so, g : IF so.outcome # "ok" \/ ~g.output THEN so
                            ELSE AppliedToText(g, so.result),
             Passed(text), rails)

-----------------------------------------------------------------------------
(* What a guardrail is there for, said without the code.  It can only speak for what the *)
(* author wrote: a later rule's replacement, or its cut, may spell what an earlier rule    *)
(* looked for, and may be longer than what it replaces.                                    *)
Enforced(g) == g.type # "length" /\ (g.action = "block" \/ Replaces(g))

LeftIn(g, text) == \E i \in DOMAIN text : text[i].by = "author" /\ Finds(g, text[i])

(* the words of a text that are the author's, or what is left of his *)
Own(text) == {i \in DOMAIN text : text[i].by # "guardrail"}

PromptIsClean(messages, rails) ==
    \A n \in DOMAIN rails, i \in DOMAIN messages :
        rails[n].input /\ Enforced(rails[n]) /\ ~Exempt(rails[n], messages[i])
            => ~LeftIn(rails[n], messages[i].text)

CompletionIsClean(text, rails) ==
    \A n \in DOMAIN rails :
        rails[n].output =>
            /\ Enforced(rails[n]) => ~LeftIn(rails[n], text)
            /\ rails[n].type = "length" => Cardinality(Own(text)) <= rails[n].max

=============================================================================
