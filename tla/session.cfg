SPECIFICATION Spec
CONSTANTS
  MaxTokens = 2
  MaxCalls = 2
INVARIANTS TabAgrees FormCanSucceed
PROPERTY KnownVisitorStays
