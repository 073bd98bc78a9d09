CONSTANTS
  Values <- MCValues
  Slack = 2
  Top = 48
SPECIFICATION Spec
CHECK_DEADLOCK FALSE
INVARIANTS
  MeasuredLengthSuffices
  ErrorLeavesNothing
  CheckedWritersStayInside
  LengthsDeclared
