SPECIFICATION Spec
CONSTANTS
    a = a
    b = b
    Shell = {s1, s2}
    Name = {a, b}
    Path <- RootPaths
    Page = {1, 2, 3, 4}
    MaxItems = 2
INVARIANTS MadeIsThere
