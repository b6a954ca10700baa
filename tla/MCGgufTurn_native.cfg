SPECIFICATION FairSpec
CONSTANTS
  NCtx = 9
  DefaultOutput = 3
  OutputFloor = 2
  Conversations <- MCConversations
  Requests = {0, 1}
  Pieces <- MCPieces
  BatchSize = 2
  Bodies <- MCBodies
  Token <- MCToken
  Template <- MCTemplate
INVARIANTS
  TypeOK
  CachedTokensAreEvaluated
  AnswersThePrompt
  LogitsAreFresh
  WindowIsKept
  TrimmingKeepsTurnsWhole
  StreamedTextIsWhole
PROPERTIES
  TurnEnds
