SPECIFICATION Spec
CONSTANTS
  Lists = {h1, h2}
  Elem = {e1, e2, e3}
  NULL = NULL
INVARIANTS
  ArithmeticExact
  VerdictExact
  DigestExact
  TerminalExact
  PrintfExact
  LoopsExact
PROPERTY ListsSpec
CHECK_DEADLOCK FALSE
