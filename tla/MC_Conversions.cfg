CONSTANTS
    FieldLayouts <- Fields
    ScalarLayouts <- ScalarForms
    FieldSteps = 2
    sha256 <- Hash32
    ripemd160 <- Hash20
    PublicKey <- PointBytes
    GroupOrder <- OrderBytes
    IntBits = 24
    WordBits = 8
    Mantissa = 29
    LenShift = 1
    BigSigma0 <- Rotations0
    BigSigma1 <- Rotations1
    SmallSigma0 <- Shift0
    SmallSigma1 <- Shift1
    K256 <- RoundConstants
    InitialHash <- InitialWords
    OPad = 1
    IPad = 2
    Stream <- StreamByte
    WriteSizes = {1, 2, 54, 61, 64}
    MaxWrites = 3
    MacLengths = {0, 64, 65}
    NonceExtras <- Extras
    Payloads <- Inputs
    KeyBatches <- Batches
    Byte = 32
    ScalarBytes = 2
    SizeBytes = 3
    DerOrder = 1021
    SequenceTag = 3
    IntegerTag = 2
    OctetsTag = 4
    DerPublicKey <- DerPoint
    Middle <- DerMiddle
    Contents <- IntegerBytes
    FewContents <- FewIntegerBytes
    LengthForms <- Lengths
    DerScalars <- SomeScalars
INIT Init
NEXT Next
INVARIANTS FieldLimbsRight ScalarLimbsRight ChainsRight HashRight EncodingsDecode AddressesAgree DerRight
CHECK_DEADLOCK FALSE
