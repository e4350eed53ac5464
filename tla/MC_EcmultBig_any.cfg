SPECIFICATION Spec
CONSTANTS
    Garbage = Garbage
    Field <- MCField
    Zero = 0
    One = 1
    Mul <- MCMul
    Inv <- MCInv
    N = 509
    ScalarBits = 9
    IntBits = 6
    ShiftChunk = 2
    WindowSizes = {2, 3, 4, 5, 6, 7, 8, 9}
    Ratios = {2, 3}
INVARIANT AnyWindowSize
