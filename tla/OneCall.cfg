SPECIFICATION Spec
CONSTANTS
  b1 = b1
  c1 = c1
  c2 = c2
  Bindings <- OneBinding
  Specs <- EveryKind
  Calls <- OneCall
  Requests <- EveryRequest
  RowCounts = {0, 1, 2}
  FailureTexts <- Texts
INVARIANTS
  TypeOK
  RegistryIsServable
  OnlyGuardedSqlLeaves
  ReadOnlyNeverModifies
  AcknowledgedWriteApplied
  OneTriadPerCall
  RowsAreAccountedFor
  LabelTellsWhatHappened
PROPERTY ImplementsContract
