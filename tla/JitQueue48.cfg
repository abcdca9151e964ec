SPECIFICATION Spec
CONSTANTS
    ElementSize = 33
    SingleValue = FALSE
    Value = {v1, v2}
    AlienValue = {alien}
    Nothing = Nothing
    Zero = Zero
    MaxElements = 6
INVARIANTS
    TypeOK
    RingOK
    CopiesInBounds
PROPERTIES
    ImplementsChannelQueue
