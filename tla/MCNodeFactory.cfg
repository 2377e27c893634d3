CONSTANTS
    a = a
    b = b
    tree = tree
    label = label
    Nodes = {tree}
    Texts = {label}
    Values = {a, b}
    MaxJobs = 2
    MaxString = 2
    MaxElements = 3
    None = None
    Junk = Junk
    Last = 24
    Places <- MCPlaces
    StackSpace = 2
    StackSizes = {0, 4}
    Word = 2
    Header = 1
    NodeSize = 4
    FirstSlab = 1
    InitialCapacity = 1
    LeastGrowth = 1
    MaxPrintSize = 2
SPECIFICATION Spec
INVARIANTS TypeOK Apart LastSlabSuffices
PROPERTIES ImplementsJobs
VIEW MCView
