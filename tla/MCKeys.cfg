SPECIFICATION Spec
CONSTANTS
    Data = {a, b}
    Hashes <- MCHashes
    Given = {32}
    MaxKeys = 3
    MaxSecrets = 2
    MaxWrites = 1
    MaxMade = 1
SYMMETRY MCSymmetry
INVARIANTS
    KeysTypeOK
    TagsHoldAsMade
    SignaturesHoldAsMade
    DecryptsWhatWasEncrypted
CHECK_DEADLOCK FALSE
