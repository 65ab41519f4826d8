SPECIFICATION ReadersSpec
CONSTANTS
    q1 = q1
    q2 = q2
    Queries = {q1, q2}
    NoQuery = NoQuery
    Readers <- AllReaders
    Wanted <- Overlapping
    Ttl = 1
    MaxTime = 1
    MaxFailures = 2
CHECK_DEADLOCK FALSE
INVARIANTS ReadersInv EmptyIsSound NothingOfTheDayBefore
PROPERTIES FailuresAreCurrent
