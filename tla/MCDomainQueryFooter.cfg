SPECIFICATION QuerySpec
CONSTANTS
    tld = tld
    other = other
    e1 = e1
    e2 = e2
    e3 = e3
    noetag = noetag
    registrySrv = registrySrv
    registrarSrv = registrarSrv
    registryPort = registryPort
    thirdSrv = thirdSrv
    noname = noname
    Callers = {c1}
    TLDs = {tld, other}
    Asked = tld
    NoEtag = noetag
    Embedded <- MCEmbedded
    Documents <- MCDocuments
    Members = {"nameservers"}
    MaxEntities = 1
    Hosts <- MCHosts
    Names <- MCNames
    hostOnly <- MCHostOnly
    NoName = noname
    Templated = {registrySrv, registrarSrv}
    Bodies <- MCBodies
    MaxReferralHops = 3
    HostFor = noname
    ReferralsAllowed = TRUE
    SeedHost = registrySrv
INVARIANT FreeOnlyWithoutRecord
