SPECIFICATION Spec
CONSTANTS
    Blank = Blank
    Field <- MCField
    Zero = 0
    One = 1
    Mul <- MCMul
    Inv <- MCInv
    RawKeys <- MCRawKeys
    ScalarOf <- MCScalarOf
    ZeroScalar = 0
    MaxCount = 4
    Junk <- MCJunk
INVARIANTS
    TypeOK
    AllInverted
    BatchRight
