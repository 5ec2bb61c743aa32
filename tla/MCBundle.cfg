SPECIFICATION FairSpec
CONSTANTS
    first = first
    other = other
    keyed = keyed
    plain = plain
    clash = clash
    image = image
    web = web
    NoBundle = NoBundle
    Submissions = {first, other}
    Requests <- MCRequests
    Offered <- MCOffered
    Digest <- MCDigest
    Key <- MCKey
    Keys = {"k1"}
    Contents <- MCContents
    Reach <- MCReach
    Artifacts = {image}
    Definitions = {web}
    BatchLimit = 3
    MaxFaults = 1
CHECK_DEADLOCK FALSE
INVARIANTS   AnswersAgree
PROPERTIES EntrySettles PastEnds
