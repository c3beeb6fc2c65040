\* A job may fail once and is tried three times.
CONSTANTS
  q1 = q1
  q2 = q2
  c1 = c1
  c2 = c2
  Questions <- MCOneQuestion
  Clients <- MCOneClient
  EditsSent = {"wrong"}
  MaxAttempts = 3
  Faulty <- Jobs
  MaxFaults = 1
  MaxDrops = 0
  PackageRemovable = FALSE
SPECIFICATION FairSpec
PROPERTIES
  GradedInTheEnd
