SPECIFICATION MCSpec
CONSTANTS
    MaxMessages = 3
    User = {me, you}
    Me = me
    Text = {s, t}
    Gone = gone
    ListingCap = 2
    MaxMemories = 2
    MaxActs = 2
    ChunkMessages = 2
    CycleRows = 2
    PageLimit = 1
    MaxEpisodes = 2
    MaxRows = 2
    MaxDoubt = 1
SYMMETRY Symmetry
CHECK_DEADLOCK FALSE
INVARIANTS
    NothingDropped
    FedOncePerDoubt
    AuditIsHonest
    DrainedEpisodeIsWhole
    EndpointAddIsSearchable
PROPERTIES
    EndpointKeepsOwners
