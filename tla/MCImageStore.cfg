SPECIFICATION Spec
CONSTANTS
    Threads = {t1, t2, t3}
    i1 = i1
    i2 = i2
    i3 = i3
    Images = {i1, i2, i3}
    Serialised = {i1, i2}
    Depth = 2
    BinLayer <- MCBinLayer
    NoImage = NoImage
SYMMETRY Symmetry
INVARIANT TypeOK
PROPERTY LowerStays
