SPECIFICATION FairSpec
CONSTANTS
    k1 = k1
    k2 = k2
    o1 = o1
    o2 = o2
    t1 = t1
    t2 = t2
    NoToken = NoToken
    NoOperator = NoOperator
    NoStream = NoStream
    Tokens <- OneToken
    Operators <- OneOperator
    Streams <- TwoStreams
    NameOf <- OneName
    MaxSerial = 1
    MaxFaults = 1
INVARIANT OneLiveSession
 
CHECK_DEADLOCK FALSE
