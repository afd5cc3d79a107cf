SPECIFICATION Spec
CONSTANTS
    MaxInits = 2
    MaxScreens = 2
    CloudModels = 1
    Sizes = {1, 2, 4}
    NCtx = 3
    MaxNew = 2
INVARIANTS
    SerialIsSafe
    OnePromptPerContext
PROPERTIES
    QuestionsEnd
CHECK_DEADLOCK FALSE
