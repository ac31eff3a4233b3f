SPECIFICATION FairSpec
CONSTANTS
  Callers = {c1, c2}
  Wanted <- SomeSettings
  NotRegexps <- BadExpressions
  None = None
INVARIANTS TypeOK ReportIsTrueAfterSuccess FailureKeepsHooks OwnHooksStay
PROPERTIES AnswersRun SetReturns
