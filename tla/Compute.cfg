SPECIFICATION Spec
CONSTANTS
    NThreads = 3
    Graphs <- MCGraphs
    MaxGraphs = 2
INVARIANTS
    NodesInOrder
    AllOrNothing
    QuietBetweenGraphs
PROPERTIES
    CallsReturn
