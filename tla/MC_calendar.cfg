\* Two calls of one source with two calendars; each calendar changes once.
CONSTANTS
    Calendars = {primary, work}
    Primary = primary
    Calls = {k1, k2}
    Nobody = Nobody
    NoToken = NoToken
    MaxChanges = 1
    MaxCalls = 2
SYMMETRY CallSymmetry
SPECIFICATION Spec
INVARIANTS
    TypeOK
    TokensCovered
    SelectionStands
CHECK_DEADLOCK FALSE
