\* Two callers with two requests each, one of which does not stack with the others.
\* Callers run out of requests and a closed batcher stops, so a behaviour may end.
SPECIFICATION FairSpec
CONSTANTS
    c1 = c1
    c2 = c2
    Callers = {c1, c2}
    MaxBatch = 2
    ShapeOf <- MCShapeOf
    NoRequest = NoRequest
    MaxCalls = 2
INVARIANTS
    TypeOK
    OwnResult
    AnsweredInOrder
    NeverEmpty
PROPERTIES
    EveryRequestIsAnswered
CHECK_DEADLOCK FALSE
