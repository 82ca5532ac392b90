CONSTANTS
  Task = {t1, t2, t3, t4}
  NoTask = NoTask
SPECIFICATION CoordFairSpec
PROPERTIES NoOvertaking WaitersServed ImplementsMutex
