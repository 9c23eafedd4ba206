CONSTANTS
    Margin = 2
    NoVerdict = NoVerdict
    NoJSON = NoJSON
    Raised = Raised
SPECIFICATION VerdictSpec
INVARIANTS
    TieNeverTrips
    TieGoesToDeclared
CHECK_DEADLOCK FALSE
