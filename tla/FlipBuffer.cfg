CONSTANTS
    Byte <- MCByte
    Zero = 0
    Capacity = 3
SPECIFICATION Spec
INVARIANTS
    TypeOK
    ArmedIffPending
    CountsAgree
PROPERTIES
    ImplementsQueue
