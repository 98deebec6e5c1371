SPECIFICATION DecoderSpec
CONSTANTS
    Bytes <- MCBytes
    Points <- MCPoints
    MaxFed = 4
    MaxText = 2
    LegacyBytes <- MCLegacyBytes
    MaxLegacy = 4
    MaxChunks = 3
INVARIANTS
    Utf8TypeOK
    StreamedAsOneShot
    FatalThrows
    RoundTrip
    LegacyAsOneShot
    SplitIsReplaced
