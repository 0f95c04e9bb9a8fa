CONSTANTS
  Modes = {"resumable", "buffered", "streamed", "plain"}
  MaxAttempts = 3
  MaxThoughts = 2
  MaxTokens = 3
  MaxPieces = 2
  None = None
SPECIFICATION FairSpec
CHECK_DEADLOCK FALSE
INVARIANTS TypeOK AnswerIsSeamless GeneratesUnderLease ToolCallsAreWhole
PROPERTIES StopsAreHeard
