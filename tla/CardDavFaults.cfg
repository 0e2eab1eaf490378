SPECIFICATION MCFairSpec
CONSTANTS
    alice = alice
    bob = bob
    phone = phone
    h1 = h1
    h2 = h2
    a1 = a1
    a2 = a2
    b1 = b1
    uidA = uidA
    uidB = uidB
    Uids = {uidA, uidB}
    NoCard = NoCard
    AnyEtag = AnyEtag
    Absent = Absent
    NoRequest = NoRequest
    NoClient = NoClient
    NoToken = NoToken
    Hrefs = {h1, h2}
    Cards = {a1, a2, b1}
    UidOf <- MCUidOf
    Clients = {alice, bob}
    Replicas = {}
    Issued <- FaultRequests
    RetryAttempts = 1
    Faults = TRUE
    AckLoss = TRUE
    MaxRevision = 3
    MaxIncarnation = 2
    Scenes = {"everyone"}
PROPERTIES ImplementsBook EveryCallAnswered
