CONSTANTS
    Word32 = 16
    Word64 = 64
    Group = 4
    Types = {"C2S_Ping", "StpToken", "StpCryptoMsg", "C2S_StpCryptoNegotiate", "S2C_StpCryptoNegotiate", "S2D_StpReportStatus"}
    Numbers <- MCNumbers
    Strings <- MCStrings
    MaxEdits = 3
    MaxSends = 2
    BufferSize = 40

SPECIFICATION Spec

CHECK_DEADLOCK FALSE

INVARIANTS
    UnsetReadsDefault
    SizesAgree
    SentIsHandled
    SkewTolerated
    MergeIsConcatenation
