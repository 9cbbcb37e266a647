SPECIFICATION Spec
SYMMETRY Symmetry
CONSTANTS
  None = None
  Clients = {c1, c2}
  Accounts = {a, root}
  Staff = {root}
  Seasons = {s1, s2}
  Handles = {h1, h2}
  FormStatuses = {"active", "archived"}
  MaxParticipants = 2
INVARIANTS
  TypeOK
  OneParticipation
  NoOrphans
  SessionFits
PROPERTIES
  TakenOnlyIfGone
