\* Two tabs, one start each.
CONSTANTS
    Tabs <- TwoTabs
    WithInterval = TRUE
    Closable <- NoTabs
    MaxStarts = 1
SPECIFICATION ElectionSpec
INVARIANT
    OneLeader
CHECK_DEADLOCK FALSE
