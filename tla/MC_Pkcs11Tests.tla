--------------------------- MODULE MC_Pkcs11Tests ---------------------------
EXTENDS Pkcs11Tests

CONSTANTS kc, kb

MC_PkTests == {kc, kb}
=============================================================================
