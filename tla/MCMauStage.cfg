SPECIFICATION Spec
CONSTANTS
    k1 = k1
    k2 = k2
    a1 = a1
    a2 = a2
    Keys = {k1, k2}
    Matches <- MCMatches
    Acts = {a1, a2}
    Cmds = {"INSERT", "DELETE", "MODIFY", "FLUSH"}
    TableIds = {0, 1, 3}
    AddrMod = 2
    Gap = 2
    Act0 = a1
    Bubble = Bubble
    NoHit = NoHit
    NoAct = NoAct
    NoRule = NoRule
    NoWrite = NoWrite
INVARIANTS
    TypeOK
    UntornVerdict
    OwnHash
