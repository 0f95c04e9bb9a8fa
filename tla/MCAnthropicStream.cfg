CONSTANTS
  Payloads <- MCPayloads
  MaxPayloads = 5
  None = None
SPECIFICATION Spec
INVARIANTS TypeOK ReaderFollows AnswerIsComplete
CHECK_DEADLOCK FALSE
