SPECIFICATION FairSpec
CONSTANTS
    k0 = k0
    k1 = k1
    a0 = a0
    a1 = a1
    Cmds = {"INSERT", "DELETE"}
    Stages = {0}
    ParserStage = 31
    TableIds = {0, 1}
    AddrMod = 2
    Keys = {k0, k1}
    Acts = {a0, a1}
    KeyByte <- MCKeyByte
    Key0 = k0
    Act0 = a0
    Drain = 4
    MaxPolls = 4
    DpPerCtrl = 2
    NoRule = NoRule
    NoCall = NoCall
INVARIANTS
    TypeOK
    NeverTimesOut
PROPERTIES
    Implements
