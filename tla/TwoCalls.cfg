SPECIFICATION Spec
CONSTANTS
  b1 = b1
  c1 = c1
  c2 = c2
  Bindings <- OneBinding
  Specs <- Changing
  Calls <- TwoCalls
  Requests <- SharedRequests
  RowCounts = {0, 2}
  FailureTexts <- TwoTexts
INVARIANT ReplyMatchesSnapshot
PROPERTIES
  RepliesAreFinal
  EveryCallReturns
