SPECIFICATION FairSpec
CONSTANTS
    Worker = {w1, w2}
    Operation = {o1, o2}
    Account = {a1, a2}
    NoAccount = NoAccount
    NoOperation = NoOperation
    MaxToken = 2
CHECK_DEADLOCK FALSE
PROPERTIES GoodGrantStays DisconnectedStays LostGrantIsNoticed
