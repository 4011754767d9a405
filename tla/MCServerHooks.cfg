CONSTANTS
  Element <- MCThrowing
  Kind <- MCKind
  Kids <- MCKids
  Fallback <- MCFallback
  ContextOf <- MCContextOf
  ValueOf <- MCValueOf
  Body <- MCBody
  Top = {"b", "t"}
  Nested = "n"
  Context = {"c"}
  Default = "default"
  Stream = {s1, s2}
  Inner = {inner}
  InitialThreads = 2
  MaxThreads = 4
  Nil = Nil
SPECIFICATION ServerSpec
PROPERTY HooksReset
CHECK_DEADLOCK FALSE
