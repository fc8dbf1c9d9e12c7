SPECIFICATION ExportSpec
CONSTANTS
    Finite <- MCFinite
    Tolerances <- MCTolerances
    Infinity = Infinity
    NegInfinity = NegInfinity
    NaN = NaN
    NegZero = NegZero
    None = None
    Sizes <- MCSizes
    Refused = Refused
    Characters <- MCCharacters
    RealText <- MCRealText
    VcdDigits = 2
    Strings <- MCStrings
INVARIANTS RealsByDistance VectorsExact ExportFaithful ConvertedSame
CHECK_DEADLOCK FALSE
