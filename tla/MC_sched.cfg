\* Two tabs, one project, one edit, under fairness; a sync may fail or a tab be closed.
CONSTANTS
    Tabs <- TwoTabs
    WithInterval = TRUE
    Closable <- LastTab
    MaxStarts = 1
    Projects = {p}
    All = All
    MaxFaults = 1
    MaxEdits = 1
SPECIFICATION FairSchedSpec
INVARIANTS
    SchedTypeOK
    TimerFollowsLeadership
PROPERTIES
    IntervalCatchesUp
CHECK_DEADLOCK FALSE
