SPECIFICATION QosSpec
CONSTANTS
    PortCount = 2
    QueueCount = 2
    WordMod = 4
    ByteMod = 4
    Dscps = {0, 46}
    DefaultQueue <- MCDefaultQueue
    Weights <- MCWeights
    DefaultWeights <- MCDefaultWeights
    Rates = {0, 3, 9}
    SpQueues = {1, 3, 4}
    QosBootCalls <- MCBootCalls
    QosMaxLost = 1
    NoRule = NoRule
INVARIANTS
    QosTypeOK
    WordsAreCurrent
    DscpAgrees
