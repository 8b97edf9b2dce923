CONSTANTS
    laptop = laptop
    phone = phone
    film = film
    d = d
    slashed = slashed
    Page <- MCPage
    Item <- MCItem
    NoItem = NoItem
    NoPage = NoPage
    Undefined = Undefined
    MaxRequests = 3
    MaxFailures = 1
SYMMETRY Symmetry
INIT Init
NEXT Next
INVARIANTS
    TypeOK
    RemovedLinkIsDead
    UnansweredHasCause
    ViewShowsTables
PROPERTIES
    ImplementsFavourites
CHECK_DEADLOCK FALSE
