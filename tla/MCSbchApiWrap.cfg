CONSTANTS
    W = 3
    Requests <- MCAllRequests
    MaxLatest = 3
SPECIFICATION Spec
INVARIANT RangeMatchesRequest
