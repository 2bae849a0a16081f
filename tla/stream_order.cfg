SPECIFICATION Spec
CONSTANTS
  Length = 6
  HoldBack = 2
  Span = 3
  Rules = {1, 2}
  StreamRoutes <- MCStreamRoutes
  Environment = {"GROQ_API_KEY", "ANTHROPIC_API_KEY"}
  Texts <- MCTexts
  MaxChunk = 3
INVARIANT DeliveredInOrder
CHECK_DEADLOCK FALSE
