CONSTANTS
    P = 43
    MaxMagnitude = 31
    Gx = 2
    Gy = 12
    Beta = 6
    Order = 31
    Bits = 5
    Half = 3
    MinusLambda = 26
    MinusB1 = 1
    MinusB2 = 25
    G1 = 99
    G2 = 17
    LambdaShift = 9
    WindowA = 3
    WindowG = 3
    PrecN = 3
    PrecB = 2
    NumsX = 12
    Operands = {0, 1, 5}
    Scales = {2}
    Multipliers = {0, 13, 30}
SPECIFICATION Spec
INVARIANT ConstMultiplyContract
