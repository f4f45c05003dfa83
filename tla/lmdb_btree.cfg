CONSTANTS
    Stack = 5
    MaxPages = 14
    Cursors = 2
    Keys = {1, 2, 3, 4, 5, 6}
    Scenarios <- AllScenarios
SPECIFICATION Spec
INVARIANTS TreeOk CursorsFollowMap CursorsMoveRight
CHECK_DEADLOCK FALSE
