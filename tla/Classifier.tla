----------------------------- MODULE Classifier -----------------------------
(***************************************************************************)
(* classify_intent (gateway/app/router/classifier.py): which route a       *)
(* request with route='auto' is sent to.  Keyword hints first; if they are *)
(* not confident enough a language model is asked, which may answer        *)
(* anything or not at all.  The rules are a sequence of records [intent,   *)
(* route, hints, priority].                                                *)
(***************************************************************************)
EXTENDS Integers, Sequences, FiniteSets, Guardrails

UserWords(messages) ==
    UNION {{messages[i].text[n].word : n \in DOMAIN messages[i].text} :
              i \in {j \in DOMAIN messages : messages[j].role = "user"}}

Hinted(words, rule) == words \cap rule.hints

(* _keyword_scan: the first of the highest-priority rules with a hint in the text *)
Scan(rules, words) == {i \in DOMAIN rules : Hinted(words, rules[i]) # {}}

KeywordRule(rules, words) ==
    rules[CHOOSE i \in Scan(rules, words) : \A j \in Scan(rules, words) :
             \/ rules[i].priority > rules[j].priority
             \/ rules[i].priority = rules[j].priority /\ i <= j]

(* keyword_result[2] >= 0.8 *)
Confident(rules, words) ==
    /\ Scan(rules, words) # {}
    /\ LET best == KeywordRule(rules, words)
       IN  10 * Cardinality(Hinted(words, best)) >= 8 * Cardinality(best.hints)

(* Where the language model's answer leads: to the first rule of an intent it names, *)
(* and an answer of no use to the keywords' rule.  Without keywords the request       *)
(* crashes: the log.warning ahead of the highest-priority rule has a keyword argument. *)
Named(rules) ==
    {rules[i].route : i \in {k \in DOMAIN rules : \A j \in 1..(k - 1) : rules[j].intent # rules[k].intent}}

Otherwise(rules, words) == IF Scan(rules, words) = {} THEN {} ELSE {KeywordRule(rules, words).route}

=============================================================================
