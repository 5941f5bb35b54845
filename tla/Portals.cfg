SPECIFICATION Spec
CONSTANTS
  MaxId = 4
  MaxSent = 2
  Foreign = {2}
  MaxVisits = 2
  MaxTries = 2
INVARIANTS TypeOK SettledView SettledFigure AnswersQuery BusyMeansInFlight ReportsMissing AskedOnce
PROPERTIES RollbackExact LoadingEnds FormsSettle
CHECK_DEADLOCK FALSE
