SPECIFICATION MCSpec
CONSTANTS
  Tab = {t1, t2}
  Account = {a1, a2}
  First = t1
  Owner = a1
  MaxCalls = 2
  None = None
  Unread = Unread
INVARIANTS TypeOK LogoutSticks ConnBackedByEnvelope ConnectShowsFlow
CHECK_DEADLOCK FALSE
