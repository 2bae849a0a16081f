---------------------------- MODULE MC_LLMRouter ----------------------------
(* Small instances of LLMRouter: four routes and the shapes of fallback graph *)
(* that an operator can write, with routes that are missing, name a provider  *)
(* nobody registered or a variable that is not set; every kind of provider    *)
(* and guardrail is there.                                                    *)
EXTENDS LLMRouter, TLC

CONSTANTS a, b, c, d

Shapes == {(a :> b @@ b :> a @@ c :> c @@ d :> NoRoute), \* a cycle, a route naming itself
           (a :> b @@ b :> c @@ c :> d @@ d :> NoRoute), \* a chain longer than MaxDepth
           (a :> c @@ b :> c @@ c :> NoRoute @@ d :> a)} \* a shared fallback

(* Words change places: a rule may put there what another looks for, or two words, or none, *)
(* and a cut inside "secret" leaves "slur".                                                   *)
MCInstead == "secret" :> <<"slur", "hello">> @@ "slur" :> <<"mask">> @@ "hello" :> <<>> @@ "mask" :> <<"mask">>

MCStump == "secret" :> "slur" @@ "slur" :> "mask" @@ "hello" :> "hello" @@ "mask" :> "mask"

Rail(type, action, words) ==
    [type |-> type, action |-> action, words |-> words, instead |-> MCInstead, compiles |-> TRUE,
     max |-> 3, stump |-> MCStump, input |-> TRUE, output |-> TRUE, system |-> FALSE]

Garbled == [Rail("regex", "redact", {"slur"}) EXCEPT !.compiles = FALSE]

MCRails ==
    (a :> <<Rail("length", "redact", {}), Rail("regex", "warn", {"slur"}), Rail("pii", "redact", {"secret"})>> @@
     b :> <<[Rail("keyword", "redact", {"hello"}) EXCEPT !.system = TRUE], [Rail("length", "block", {}) EXCEPT !.max = 4]>> @@
     c :> <<[Rail("toxicity", "block", {"slur"}) EXCEPT !.input = FALSE], Rail("length", "redact", {})>> @@
     d :> <<Rail("pii", "warn", {"secret"}), Garbled>>)

MCProvider == (a :> "openai_compatible" @@ b :> "ollama" @@ c :> "openai_compatible" @@ d :> "anthropic")

MCKey == (a :> "GROQ_API_KEY" @@ b :> "" @@ c :> "" @@ d :> "")

Faultless == [gone |-> {}, broken |-> {}, mute |-> {}, garbled |-> {}]

Troubles == {Faultless, [Faultless EXCEPT !.gone = {b}], [Faultless EXCEPT !.broken = {c}],
             [Faultless EXCEPT !.mute = {b}, !.garbled = {a}]}

MCConfigs ==
    {[r \in Routes |->
        IF r \in t.gone THEN Absent
        ELSE [present |-> TRUE, fallback |-> s[r],
              rails |-> IF r \in t.garbled THEN <<[Garbled EXCEPT !.input = FALSE]>> ELSE MCRails[r],
              provider |-> IF r \in t.broken THEN "vllm" ELSE MCProvider[r],
              key |-> IF r \in t.mute THEN "TOGETHER_API_KEY" ELSE MCKey[r]]] :
       s \in Shapes, t \in Troubles}

MCRuleSets ==
    {<<>>,
     <<[intent |-> "code", route |-> a, hints |-> {"slur"}, priority |-> 1]>>,
     <<[intent |-> "code", route |-> a, hints |-> {"hello", "bye"}, priority |-> 1],
       [intent |-> "chat", route |-> c, hints |-> {"slur"}, priority |-> 2]>>}

Wrote(words) == [i \in DOMAIN words |-> [word |-> words[i], by |-> "author"]]

Said(role, words) == [role |-> role, text |-> Wrote(words)]

MCPrompts ==
    {<<Said("system", <<"hello">>), Said("user", <<"hello", "secret">>), Said("assistant", <<"slur">>)>>,
     <<Said("user", <<"secret">>), Said("user", <<"hello", "slur", "hello", "hello">>)>>}

MCCompletions == {[text |-> Wrote(<<"secret", "slur", "secret">>), tokens |-> 0],
                  [text |-> Wrote(<<"hello", "hello", "secret", "hello">>), tokens |-> 2]}

MCHeaders == {[bearer |-> TRUE, key |-> "sk-1"], [bearer |-> TRUE, key |-> "sk-2"],
              [bearer |-> FALSE, key |-> ""]}

=============================================================================
