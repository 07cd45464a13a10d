\* Each component with two actors, the election with three, and with as many calls
\* as it takes for one of them to overlap two others.
SPECIFICATION MCSpec
CONSTANTS
  Hook = {h1, h2}
  Linked = {a1, a2}
  Unlinked = Unlinked
  ProjectName <- TwoSpellings
  Blank <- WhiteSpace
  MaxProjects = 2
  MaxRegCalls = 3
  MigTab = {1, 2}
  MaxMigCalls = 4
  Device = {d1, d2}
  ProjectTitle = {n1, n2}
  OldTitle = n1
  MaxFolders = 6
  MaxResolves = 3
  MaxUpsets = 1
  Subscribers = {s1}
  Conflict = {c1, c2}
  Failure = {e1, e2, e3}
  ReauthFailure = {e3}
  NoError = NoError
  MaxSyncs = 2
  MaxMarks = 5
  Tabs = {1, 2, 3}
  WithInterval = TRUE
  Closable = {1, 2, 3}
  MaxStarts = 1
  Replica = {1, 2}
  MaxTime = 3
  MaxEdits = 3
  EntryTexts <- ThreeSections
  TagFilters <- OneTagOrNone
  DayFilters <- DaysAndMonth
  DoneDays = {0, 19}
  EntryDay = 18
  Today = 20
INVARIANTS
  ShownStatusCurrent OnceUnlessExcused NoTwinFolders StatusTruthful CededToSmaller
  QuietReplicasAgree FiltersNarrow ListedIsShown
PROPERTIES
  NamesSharedByRace RemovedStaysRemoved NeverGoesBack
CHECK_DEADLOCK FALSE
