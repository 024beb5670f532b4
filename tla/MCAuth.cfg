SPECIFICATION AuthHSpec
CONSTANTS
    Sids = {s1, s2}
    Tokens = {t1, t2, t3}
    Requests = {r1, r2}
    NoSid = NoSid
    RefreshTTL = 1
    AccessTokenTTL = 1
    AuthCodeTTL = 1
    KeyConfigured = TRUE
SYMMETRY AuthSymmetry
INVARIANTS
    RevokedIsDead
    OneCredential
    DenyOutlivesTokens
    RevocationBounded
PROPERTIES
    RefinesFamily
    SilenceEndsSession
