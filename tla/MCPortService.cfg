CONSTANTS
    Port <- MCPort
    Callback = {handle_request, echo}
    Null = Null
    Size = 3
SPECIFICATION Spec
INVARIANTS
    TypeOK
    TableSound
PROPERTIES
    ImplementsMap
