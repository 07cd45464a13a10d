\* Two devices sync one document, each making one edit; the requests, callbacks
\* and tabs of the first fail.
CONSTANTS
    d1 = d1
    d2 = d2
    e1 = e1
    e2 = e2
    Clients = {d1, d2}
    Calls = {d1, d2}
    ClientOf <- Identity
    Files = {f1}
    Names = {n1}
    Edits = {e1, e2}
    Contents <- EditSets
    Author <- OneEditEach
    NoContent = NoContent
    NoFile = NoFile
    Faulty = {d1}
    Trashable = {}
    MaxTries = 1
    MaxVersion = 3
SPECIFICATION NamesSpec
VIEW DocView
INVARIANTS
    DocTypeOK
    SyncedMeansUploaded
PROPERTIES
    NoSilentLoss
    LocalLossOnlyInMerge
CHECK_DEADLOCK FALSE
