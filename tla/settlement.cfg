\* Three days of settlements one after the other, and two with overlap.
SPECIFICATION MCSpec
CONSTANTS
    Member = {m1, m2}
    Run = {r1, r2}
    Sync = {y1}
    MaxDay = 3
    BackfillDays = 2
    Offset = 1
    MaxInputs = 3
    MaxFailures = 1
    OverlapDays = 2
INVARIANTS
    TypeOK
    SweptDaysExact
    CompWithinRows
    SerialCompIsRows
    ScheduleFollowsPolicy
PROPERTIES
    SerialEventuallySwept
CHECK_DEADLOCK FALSE
