\* Two requests, one at a time or together, to a host with two endpoints.
CONSTANTS
    Requests = {r1, r2}
    Endpoints = 2
SPECIFICATION FairSpec
INVARIANTS TypeOK AnsweredOnce EndpointValid
PROPERTY EveryRequestEnds
CHECK_DEADLOCK FALSE
