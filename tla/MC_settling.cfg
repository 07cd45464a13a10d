\* Three connects and one disconnect; four calls on two databases; one tab
\* with two documents.
SPECIFICATION MCSpec
CONSTANTS
  MaxConnects = 3
  MaxDisconnects = 1
  DataProject = {p1, p2}
  NoProject = NoProject
  MaxDataCalls = 4
  Tabs = {t1}
  Docs = {x1, x2}
  MaxClock = 2
  MaxQueue = 3
INVARIANTS
  OneWindow ActiveIsOpen SettledRecordIsMap AckedIsStored
PROPERTIES
  RequestsSettle SpinnerStops DeletionSettles QueueMoves
CHECK_DEADLOCK FALSE
