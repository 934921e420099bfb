CONSTANTS
    ipv4 = ipv4
    ipv6 = ipv6
    IPv4 <- ipv4
    IPv6 <- ipv6
    Inputs <- SameFamilyInputs
SPECIFICATION Spec
INVARIANTS CompiledMatchesReference
CHECK_DEADLOCK FALSE
