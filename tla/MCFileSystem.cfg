SPECIFICATION Spec
CONSTANTS
    a = a
    b = b
    Shell = {s1}
    Name = {a, b}
    Path <- DeepPaths
    Page = {1, 2, 3, 4}
    MaxItems = 2
INVARIANTS TypeOK OnePageOneOwner PagesAccounted
PROPERTIES IsATree
CHECK_DEADLOCK FALSE
