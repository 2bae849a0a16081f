-------------------------- MODULE MC_StreamRequest --------------------------
(* Small instances of StreamRequest: every text with at most two matches. *)
EXTENDS StreamRequest

MCTexts == {{}} \cup {{m, n} : m \in Match, n \in Match}

MCStreamRoutes ==
    {[provider |-> "openai_compatible", key |-> "GROQ_API_KEY"], [provider |-> "ollama", key |-> ""],
     [provider |-> "anthropic", key |-> ""], [provider |-> "ollama", key |-> "OLLAMA_API_KEY"]}

=============================================================================
