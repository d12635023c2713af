CONSTANTS
    d1 = d1
    d2 = d2
    p1 = p1
    p2 = p2
    Docs <- TwoDocs
    Callers <- TwoCallers
    Absent = Absent
    Null = Null
    Value = Value
    Contents <- OneValue
    Page = 1
    MaxCalls = 2
    AUTH_USER_MODEL = "auth_user"
    ICV_AUTH_USER_MODEL = "auth_user"
SYMMETRY Symmetry
SPECIFICATION Spec
INVARIANTS
    SchemaAgrees
    Acknowledged
    FilterDeletes
    RowsClosed
PROPERTY StoreSpec
CHECK_DEADLOCK FALSE
