SPECIFICATION Spec
CONSTANTS
  b1 = b1
  c1 = c1
  c2 = c2
  Bindings <- OneBinding
  Specs <- GuardrailOnly
  Calls <- OneCall
  Requests <- ExecuteOnly
  RowCounts = {1}
  FailureTexts <- Texts
INVARIANT DocumentedSettingsServe
