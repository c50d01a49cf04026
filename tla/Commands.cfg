SPECIFICATION CommandSpec
CONSTANTS
  Countries <- MCCountries
  DTOs <- MCDTOs
  Words <- MCWords
  Assigned <- MCAssigned
  FullNames <- MCFullNames
  MaxArgs = 3
  MaxCountries = 2
  MaxReply = 2
  MaxTokenBytes = 2
  MaxBodyBytes = 2
INVARIANTS ParsedAsWritten RefusalsTouchNothing TokenIsWhole AnswerIsWhole ServerIsWhereAsked SelectIsFirstWanted ReconnectStaysInPlace
