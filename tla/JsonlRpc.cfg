SPECIFICATION FairSpec
CONSTANTS
    Requests = {r1, r2}
    Unlimited = {r2}
    Notices = {n1}
    Reverse = {q1}
    Long = {r2, q1}
    Bytes <- MCBytes
    ErrorBytes = 1
    MaxLineBytes = 2
    MaxBufferedBytes = 4
    MaxId = 2
    None = None
INVARIANTS
    OneAnswer
PROPERTIES
    RequestsSettle
    KeepsPromise
CHECK_DEADLOCK FALSE
