CONSTANTS
    d1 = d1
    d2 = d2
    r1 = r1
    r2 = r2
    Deks <- MC_Deks
    Resources <- MC_Resources
    ErrorCodes = {401, 403, 409, 422, 500}
    Forged = Forged
    NoValue = NoValue
SPECIFICATION Spec
SYMMETRY MC_Symmetry
INVARIANTS
    SuccessCarriesResult
