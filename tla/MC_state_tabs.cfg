\* Two tabs of one profile.
CONSTANTS
    Tabs = {t1, t2}
    Docs = {d1, d2}
    MaxClock = 2
    MaxQueue = 1
SPECIFICATION StateSpec
INVARIANT
    AckedIsStored
