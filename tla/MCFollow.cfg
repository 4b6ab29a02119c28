SPECIFICATION Spec
CONSTANTS
    BatchSize = 2
    MaxTx = 5
CHECK_DEADLOCK FALSE
INVARIANTS InOrderOnce AtMostOneLate
PROPERTY EventuallyReceived
