SPECIFICATION HistorySpec
CONSTANTS
    ByteCount = 6
    HighByte = 5
    Max4 = 3
    Max16 = 4
    Max48 = 5
    Min16 = 2
    Min48 = 3
    Min256 = 4
    MAX_PREFIX_LEN = 1
    Key <- MCKeys
    Value = {1, 2}
    ValuesOf <- MCValuesOf
    Prefix <- MCPrefixes
    Behind = {0, 1}
    NoValue = NoValue
INVARIANTS
    IterPrefixExact
