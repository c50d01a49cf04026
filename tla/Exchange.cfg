SPECIFICATION FairSpec
CONSTANTS
  Sizes <- ExchangeSizes
  LengthBytes = 2
  MaxRequestBytes = 3
  SecretFrameBytes = 3
  ResponseBytes = 2
INVARIANTS OnlyWholeRequests WholeRequestsAccepted AnswersAreReal
PROPERTY ExchangeEnds
CHECK_DEADLOCK FALSE
