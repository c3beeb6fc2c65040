\* Two members on one instance, two messages one from each; the second member's socket joins, leaves, closes and reads the history.
CONSTANTS
  u1 = u1
  u2 = u2
  s1 = s1
  s2 = s2
  m1 = m1
  m2 = m2
  here = here
  Users <- TwoUsers
  Sockets <- TwoSockets
  Owner <- Owners
  Instance <- OneInstance
  Messages <- TwoMessages
  Sender <- OneEach
  Restless <- Second
  MaxReads = 1
SPECIFICATION Spec
INVARIANTS
  TypeOK
  SendOrder
  UnreadCoversFresh
  RegistriesFollowSockets
  JoinThenHistory
