SPECIFICATION Spec
CONSTANTS
  b1 = b1
  c1 = c1
  c2 = c2
  Bindings <- OneBinding
  Specs <- EveryKind
  Calls <- OneCall
  Requests <- ReadsOnly
  RowCounts = {1}
  FailureTexts <- Texts
INVARIANT ReadsReachTheCaller
