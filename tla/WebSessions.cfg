CONSTANTS
    Browser <- MCBrowser
    NoSession = NoSession
    MaxRequests = 3
SPECIFICATION Spec
INVARIANTS
    TypeOK
    CookieNamesSession
    OrphanHasCause
    RefusalHasCause
PROPERTIES
    EveryRequestAnswered
CHECK_DEADLOCK FALSE
