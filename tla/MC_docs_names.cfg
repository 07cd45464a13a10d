\* Two devices, each request sent up to three times, renames, a file deleted in
\* Drive; the requests of the first device fail and its ids get lost.  No file
\* is updated (MaxVersion = 1): an update makes no file.
CONSTANTS
    d1 = d1
    d2 = d2
    e1 = e1
    e2 = e2
    Clients = {d1, d2}
    Calls = {d1, d2}
    ClientOf <- Identity
    Files = {f1, f2}
    Names = {n1, n2}
    Edits = {}
    Contents <- EditSets
    Author <- ByFirst
    NoContent = NoContent
    NoFile = NoFile
    Faulty = {d1}
    Trashable = {f1, f2}
    MaxTries = 3
    MaxVersion = 1
SPECIFICATION NamesSpec
INVARIANTS
    TwinsOnlyByRaceOrRepeat
CHECK_DEADLOCK FALSE
