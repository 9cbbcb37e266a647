SPECIFICATION Spec
SYMMETRY Symmetry
CONSTANTS
  Threads = {t1, t2, t3}
  MaxSubmissions = 2
  MaxReports = 2
  MaxLog = 5
INVARIANTS
  LogIsComplete
  ReportNamesItsSubmission
