\* The first device's sync may die between the read and writeLocal.
CONSTANTS
    d1 = d1
    d2 = d2
    e1 = e1
    Clients = {d1, d2}
    Calls = {d1, d2}
    ClientOf <- Identity
    Files = {f1}
    Names = {n1}
    Edits = {e1}
    Contents <- EditSets
    Author <- BySecond
    NoContent = NoContent
    NoFile = NoFile
    Faulty = {d1}
    Trashable = {}
    MaxTries = 1
    MaxVersion = 4
SPECIFICATION DocSpec
PROPERTIES
    MatchingBaselineIsCurrent
CHECK_DEADLOCK FALSE
