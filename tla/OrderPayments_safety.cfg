\* Everyone at once: two paid events and another, a failing await, a lost enqueue.
CONSTANTS
  e1 = e1
  e2 = e2
  n1 = n1
  k1 = k1
  k2 = k2
  d1 = d1
  d2 = d2
  r1 = r1
  a1 = a1
  m1 = m1
  Paid <- TwoEvents
  Unpaid <- OtherEvents
  Courses <- TwoCourses
  Deliveries <- TwoRequests
  Readers <- Reader
  Admins <- Admin
  Mentors <- Mentor
  Offers <- AllOrNothing
  MaxAttempts = 2
  Faulty <- Anyone
  MaxFaults = 1
  MaxDrops = 1
SPECIFICATION Spec
INVARIANTS
  TypeOK
  AccessIsPaid
  FulfilledIsDelivered
PROPERTIES
  RefundIsFinal
  ImplementsLedger
SYMMETRY OrderSymmetry
