\* A destination whose path is no longer the newest of its folder.
SPECIFICATION Spec
CONSTANTS
    account = account
    local = local
    vee = vee
    inbox = inbox
    late = late
    outbox = outbox
    found = found
    found2 = found2
    n1 = n1
    n2 = n2
    k1 = k1
    Services <- MCServices
    SharedStores <- MCShared
    Folders <- MCFolders
    Late <- MCLate
    SearchFolders <- MCSearches
    Home <- MCHome
    Names <- MCNames
    Given <- MCGiven
    Nothing = Nothing
    Ops <- MCOps
    NoOp = NoOp
    MaxCalls = 3
INVARIANT TransfersArrive
CHECK_DEADLOCK FALSE
