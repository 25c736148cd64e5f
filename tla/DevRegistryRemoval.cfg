CONSTANTS
    a1 = a1
    a2 = a2
    dA = dA
    dB = dB
    t1 = t1
    t2 = t2
    Ip = {a1}
    DevId = {dA, dB}
    Task = {t1, t2}
    Pref <- NoPref
    MaxSave = 1
    MaxEvents = 3
    NoIp = NoIp
    NoId = NoId
    NoEntry = NoEntry
    NoDev = NoDev
    NoRaw = NoRaw
SPECIFICATION FairSpec
INVARIANTS DevsTracked
PROPERTIES RemovedGoes
