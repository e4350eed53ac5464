SPECIFICATION Spec
CONSTANTS
    w1 = w1
    w2 = w2
    hit = hit
    miss = miss
    rich = rich
    poor = poor
    Main = Main
    Workers = {w1, w2}
    NumBatches = 1
    BatchSize = 2
    Keys <- MCKeys
    Addresses <- MCAddresses
    AddressesOf <- MCAddressesOf
    Funded <- MCFunded
INVARIANT EveryFundedKeyLogged
