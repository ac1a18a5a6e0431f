SPECIFICATION RegistrySpec
CONSTANTS
    Peer = {"p", "q", "r"}
    Key = {"k1", "k2"}
    Cert = {"c1", "c2"}
    Fd = {3, 4}
    MAX_ACTIVE = 2
    provisioned <- MCProvisioned
    Traffic <- MCUnpinTraffic
    MaxNodes = 4
    MaxQueue = 1
INVARIANT UnpinAcceptsNewKey
