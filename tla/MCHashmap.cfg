SPECIFICATION Spec
CONSTANTS
    key1 = key1
    key2 = key2
    key3 = key3
    key4 = key4
    Keys = {key1, key2, key3, key4}
    Values = {v1, v2}
    NotFound = NotFound
    Size = 2
    Hash <- MCHash
    Nodes = {n1, n2, n3}
    NULL = NULL
    Idle = Idle
    Deleted = Deleted
INVARIANTS
    Linked
    Swept
PROPERTY
    MapSpec
