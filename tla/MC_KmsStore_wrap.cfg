CONSTANTS
    i1 = i1  i2 = i2  i3 = i3
    alice = alice  bob = bob
    m1 = m1  m2 = m2  m3 = m3
    Ids <- MC_TwoIds
    Users <- MC_Users
    Materials <- MC_TwoMats
    DefaultUsername = alice
    ForceDefaultUsername = FALSE
    NoId = NoId
    NoObj = NoObj
    Plain = Plain
    Garbage = Garbage
    MaxBlobs = 1
    GrantRights = {"Decrypt", "Destroy"}
SPECIFICATION Spec
SYMMETRY MC_Symmetry
INVARIANTS TypeOK

