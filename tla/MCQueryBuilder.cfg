\* Three rows, two columns.  The table starts empty and the calls fill it.
SPECIFICATION Spec
CONSTANTS
    Column = {1, 2}
    UserId = 1
    IsActive = 2
    Active = 2
    Value = {1, 2}
    Slot = {s1, s2, s3}
    None = None
    Operator <- MCOperator
    Lists <- MCLists
    Maps <- MCMaps
    Numbers <- MCNumbers
    Listings <- MCListings
SYMMETRY Symmetry
INVARIANTS
    TypeOK
    PlaceholdersFit
    RefusedIfSenseless
PROPERTIES
    StatementMeansCall
