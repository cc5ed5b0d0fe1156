SPECIFICATION RFairSpec
CONSTANTS
    r = r
    a = a
    leaf = leaf
    n1 = n1
    n2 = n2
    n3 = n3
    Blocks = {r, a, leaf}
    Root = r
    Links <- MCLinks
    None = None
    QueueSize = 1
    Stored = {a}
    Workers = {w1, w2}
    Faulty = TRUE
    Impatient = TRUE
    Nodes = {n1, n2, n3}
    Me = n3
    Owner <- MCOwner
    Replicas <- MCReplicas
    Concurrency = 1
    Plans = {"fetch", "delete"}
INVARIANTS
    InflightExact
    NoSendOnClosed
    FetchComplete
    ShareSafe
    
    DeleteComplete
PROPERTIES
    Ends
