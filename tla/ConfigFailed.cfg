SPECIFICATION Spec
CONSTANTS
  Callers = {c1}
  Wanted <- SomeSettings
  NotRegexps <- BadExpressions
  None = None
INVARIANT ReportIsTrue
