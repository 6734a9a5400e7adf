\* Every call the service offers, three of them in any interleaving.
SPECIFICATION FairSpec
CONSTANTS
    account = account
    local = local
    vee = vee
    inbox = inbox
    late = late
    outbox = outbox
    found = found
    found2 = found2
    n1 = n1
    n2 = n2
    k1 = k1
    Services <- MCServices
    SharedStores <- MCShared
    Folders <- MCFolders
    Late <- MCLate
    SearchFolders <- MCSearches
    Home <- MCHome
    Names <- MCNames
    Given <- MCGiven
    Nothing = Nothing
    Ops <- MCOps
    NoOp = NoOp
    MaxCalls = 3
INVARIANTS
    TypeOK
    AnsweredOnce
    ParentStoreIsKnown
    RightFolder
PROPERTY WorkIsAnswered
\* A client stops when it has made its calls.
CHECK_DEADLOCK FALSE
