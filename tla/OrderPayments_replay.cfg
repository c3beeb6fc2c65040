\* One webhook request dies; the provider redelivers the event.
CONSTANTS
  e1 = e1
  e2 = e2
  n1 = n1
  k1 = k1
  k2 = k2
  d1 = d1
  d2 = d2
  r1 = r1
  a1 = a1
  m1 = m1
  Paid <- OneEvent
  Unpaid <- None
  Courses <- TwoCourses
  Deliveries <- TwoRequests
  Readers <- None
  Admins <- None
  Mentors <- None
  Offers <- None
  MaxAttempts = 2
  Faulty <- RequestsOnly
  MaxFaults = 1
  MaxDrops = 0
SPECIFICATION RetrySpec
PROPERTIES
  ReplayRecovers
