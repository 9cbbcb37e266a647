SPECIFICATION Spec
CONSTANTS
  Posts = {p1, p2}
  Hosts = {h1}
  Texts = {blank, text}
  Blank = blank
  Scores = {1, 2}
  MaxMedia = 2
  None = None
  Overlap = TRUE
  Faults = {}
PROPERTIES ScoredIsFinal
