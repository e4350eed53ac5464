CONSTANTS
    P = 43
    MaxMagnitude = 31
    Gx = 2
    Gy = 12
    Beta = 6
    Order = 31
    Bits = 5
    Half = 3
    MinusLambda = 26
    MinusB1 = 1
    MinusB2 = 25
    G1 = 99
    G2 = 17
    LambdaShift = 9
    WindowA = 3
    WindowG = 3
    PrecN = 3
    PrecB = 2
    NumsX = 12
    MsgHash <- MCMsgHash
    NoSeed <- MCNoSeed
    RawKeys = {0, 1, 13, 31}
    Tweaks = {0, 5, 12, 30, 31}
    Messages = {1, 9, 31}
    NonceRuns <- MCNonceRuns
    Seeds <- MCSeeds
    MaxSeeds = 2
    Encodings <- MCEncodings
SPECIFICATION Spec
INVARIANTS BlindingRight KeysAgree SignatureStands VerifyExact EncodingsExact SecretsAgree SchnorrStands
PROPERTY RefusedTogether
