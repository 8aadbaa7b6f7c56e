SPECIFICATION Spec
CONSTANTS
    SmallHalf = 512
    LargeHalf = 8192
    Samples <- MCSamples
    MessageLens = {0, 1, 239, 240, 256}
    Sizes = {1, 239, 240, 2287, 2288, 8191}
    Noise = {0, 1, 2, 3, 9, 17, 32, 44, 101, 107, 127, 128, 240, 255}
    SalvageSizes = {7, 12, 13, 14, 20, 21, 26, 27, 28, 34, 46}
INVARIANTS
    RoundTrip
    IntWidths
    NoTornItem
    LimitShared
    SizesAsModelled
    AcceptedMeansItself
    ForeignOnlyFromHello
    SalvageIsGreedy
