SPECIFICATION SessionSpec
CONSTANTS
    k1 = k1
    k2 = k2
    o1 = o1
    o2 = o2
    t1 = t1
    t2 = t2
    NoToken = NoToken
    NoOperator = NoOperator
    NoStream = NoStream
    Tokens <- TwoTokens
    Operators <- TwoOperators
    Streams <- OneStream
    NameOf <- DistinctNames
    MaxSerial = 2
    MaxFaults = 1
INVARIANTS OneIdentity TokenEnrolsOnce 
PROPERTY RevokedStays
CHECK_DEADLOCK FALSE
