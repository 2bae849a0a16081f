SPECIFICATION Spec
CONSTANTS
  a = a
  b = b
  c = c
  d = d
  Routes = {a, b, c, d}
  NoRoute = none
  Configs <- MCConfigs
  RuleSets <- MCRuleSets
  Prompts <- MCPrompts
  Completions <- MCCompletions
  Headers <- MCHeaders
  RequireAuth = TRUE
  ApiKeys = {"sk-1"}
  Nameless = nameless
  Words = {"hello", "secret", "slur", "mask"}
  Environment = {"GROQ_API_KEY", "ANTHROPIC_API_KEY"}
  MaxDepth = 3
  MaxChanges = 0
INVARIANT RefusedRouteNotCalledAgain
CHECK_DEADLOCK FALSE
