\* A GET and a POST, with the retries of the code.
SPECIFICATION FairSpec
CONSTANTS
    get = get
    post = post
    Request <- MCRequest
    Gets <- MCGets
    MaxRetries = 2
    MaxQueryRetries = 2
INVARIANTS AtMostOnce UnauthorizedMeansUndone
PROPERTY Settles
CHECK_DEADLOCK FALSE
