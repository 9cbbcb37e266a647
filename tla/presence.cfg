SPECIFICATION FairSpec
CONSTANTS
  p1 = p1
  p2 = p2
  a1 = a1
  a2 = a2
  b1 = b1
  Participants <- MCParticipants
  Conns <- MCConns
  Owner <- MCOwner
  TTL = 2
INVARIANTS
  TypeOK
PROPERTIES
  TabsAreSeparate
  CountSettles
  ForgottenWhenGone
