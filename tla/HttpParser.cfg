SPECIFICATION MCSpec

CONSTANTS
    Programs = {"parse_line", "http_conn"}
    Inputs <- MCInputs
    Numbers <- MCNumbers
    SIZE = 14
    IntMax = 20

INVARIANTS
    TypeOK
    ResultSound
    ResultPrompt

PROPERTIES
    ParseReturns
    RequestAnswered

CHECK_DEADLOCK FALSE
