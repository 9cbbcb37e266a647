SPECIFICATION FairSpec
CONSTANTS
  Files = {f1, f2, f3, f4}
  Valid = {f1, f2, f3}
  Handlers = {h1, h2}
  MaxMedia = 2
  TicketLife = 0
INVARIANTS
  TypeOK
  MediaWithinLimit
PROPERTIES
  FormIsComplete
  ButtonsComeBack
