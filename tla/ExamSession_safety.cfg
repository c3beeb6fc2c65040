\* Two requests of the owner, both jobs, one failing await of a job, a lost enqueue.
CONSTANTS
  q1 = q1
  q2 = q2
  c1 = c1
  c2 = c2
  Questions <- MCQuestions
  Clients <- MCTwoClients
  EditsSent = {"right", "flag"}
  MaxAttempts = 2
  Faulty <- Jobs
  MaxFaults = 1
  MaxDrops = 1
  PackageRemovable = TRUE
SPECIFICATION Spec
INVARIANTS
  TypeOK
  ResultMatchesAnswers
  ReviewShowsFinalMarks
  GradeJobAtMostOnce
PROPERTIES
  ImplementsPaper
SYMMETRY SessionSymmetry
VIEW Unflagged
