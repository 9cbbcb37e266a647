SPECIFICATION Spec
CONSTANTS
  Posts = {p1, p2}
  Hosts = {h1, h2}
  Texts = {blank, text}
  Blank = blank
  Scores = {1, 2}
  MaxMedia = 2
  None = None
  Overlap = FALSE
  Faults = {"upload", "busy"}
INVARIANTS AcknowledgedIsKept AuditIsHistory
PROPERTIES ImplementsPromise
