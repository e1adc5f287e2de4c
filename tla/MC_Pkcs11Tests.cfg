CONSTANTS
    kc = kc
    kb = kb
    test_kms_client = kc
    test_backend = kb
    Tests <- MC_PkTests
    NoTest = NoTest
    NoObj = NoObj
SPECIFICATION Pk_Spec
INVARIANTS
    Pk_TypeOK
    Pkcs11Outcomes
CHECK_DEADLOCK FALSE
