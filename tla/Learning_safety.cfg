\* Three calls, a free course and a paid one with two lessons, one free and one the video.
CONSTANTS
  c1 = c1
  c2 = c2
  c3 = c3
  kFree = kFree
  kPaid = kPaid
  l1 = l1
  l2 = l2
  bronze = bronze
  silver = silver
  Calls <- ThreeCalls
  Courses <- TwoCourses
  Paid <- PaidCourse
  CourseOf <- CourseOfEach
  VideoLessons <- VideoLesson
  FreeLessons <- FreeLesson
  Awards <- SomeAwards
  Required <- Thresholds
  Attempts = 2
  MaxFaults = 1
  MaxEdits = 1
SPECIFICATION Spec
INVARIANTS
  TypeOK
  AccessIsEarned
  BadgesMatchPoints
  StuckHasACause
PROPERTIES
  StuckForGood
SYMMETRY CallSymmetry
CHECK_DEADLOCK FALSE
