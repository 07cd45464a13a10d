\* Two tabs, one project, one edit.
CONSTANTS
    Tabs <- TwoTabs
    WithInterval = TRUE
    Closable <- NoTabs
    MaxStarts = 1
    Projects = {p}
    All = All
    MaxFaults = 0
    MaxEdits = 1
SPECIFICATION SchedSpec
PROPERTY
    DebounceReachesEdit
CHECK_DEADLOCK FALSE
