SPECIFICATION ServerSpec
CONSTANTS
    Unset = Unset
    Bad = Bad
    Empty = Empty
    k1 = k1
    k2 = k2
    Keys = {k1, k2, k3, k4}
    Tokens = {t1}
    Grants <- SomeGrants
    AccessTokenTTL = 2
    Configs <- AllConfigs
    Reconfigs <- SomeReconfigs
INVARIANTS
    ListenPrecedence
    NeverOpenOffHost
    ScopesHold
    TokensFollowKey
