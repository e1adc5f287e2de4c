CONSTANTS
    Fips = TRUE
    ByteLengths = {4, 32}
    BitLengths = {128, 224}
    NoInput = NoInput
    BadBase64 = BadBase64
SPECIFICATION Spec
INVARIANTS
    KeyLengthValid
