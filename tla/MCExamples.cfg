CONSTANTS
    h1 = h1
    h2 = h2
    h3 = h3
    k1 = k1
    m1 = m1
    t1 = t1
    t2 = t2
    t3 = t3
    Handle <- MCHandle
    Null = Null
    Unused = Unused
    Broken = Broken
    AesKey <- MCAesKey
    HostKey = k1
    Dummy = Dummy
    NoKey = NoKey
    Clear = Clear
    Garbage = Garbage
    Invalid = Invalid
    Message <- MCMessage
    MacKey <- MCMacKey
    ZeroKey = ZeroKey
    HostMacKey = k1
    NoOutput = NoOutput
    MaxAbsorbed = 4
    Order = 7
    Base = 3
    Width = 2
    Stale <- MCStale
    private_x1 = 3
    private_x2 = 5
    XCoord <- MCXCoord
    YCoord <- MCYCoord
    StoreHost <- MCStoreHost
    StoreOther <- MCStoreOther
    StoreObject <- MCStoreObject
    Obj1 = "object#1"
    Obj2 = "object#2"
    Obj1Data = "A1"
    Text = "text"
    TooLong = "long"
    NoObject = "none"
    NoData = "empty"
    NoHolder = "nobody"
    HotpKey <- MCHotpKey
    ShortKey = "short"
    RfcKey = "rfc"
    NoPassword = NoPassword
    Radix = 2
    CounterSize = 3
    TestValues = 5
    MaxCalls = 9
    CountHost <- MCCountHost
    Thread <- MCThread
    Retries = 2
    KeyGenHost <- MCKeyGenHost
    EcdsaKey <- MCEcdsaKey
    NoEcdsaKey = "no key"
    NoKeyGenHost = "nobody"
    Receiver <- MCReceiver
    DigestSized <- MCDigestSized
    MaxBacklog = 2
    NoReceiver = "none"

SYMMETRY MCSymmetry

SPECIFICATION Spec

INVARIANTS
    TypeOK
    AesHandles
    AesKeyInUse
    AesHostDecodes
    ShaHandles
    ShaHostMatches
    WholeIsAccepted
    HostViewHolds
    
    PasswordsInOrder
    ValuesDistinct
    PrintedWasStored
    ShownIsOwn
