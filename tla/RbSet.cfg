CONSTANTS
    Node = {1, 2, 3, 4, 5, 6, 7, 8, 9, 10}
    MaxNodes = 10
    NULL = 0
SPECIFICATION Spec
INVARIANT TreeExact
