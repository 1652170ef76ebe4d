SPECIFICATION Spec
PROPERTIES  SchedulesKept ObjectsMirrored NextIsFound
CHECK_DEADLOCK FALSE
