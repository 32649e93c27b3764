CONSTANTS
    Columns <- MCColumns
    Values <- MCValues
    Size <- MCSize
    Capacity = 1
    Objects <- MCObjects
    Ids = {1, 2}
    Garbage = Garbage
SPECIFICATION Spec
INVARIANTS
    TypeOK
    NoStalePointer
PROPERTY ImplementsUserTable
