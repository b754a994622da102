\* Two connections, two machines, two proxies, one of them with a universal token.
SPECIFICATION Spec
CONSTANTS
    Proxies = {p1, p2}
    Universal = {p2}
    Machines = {m1, m2}
    Conns = {k1, k2}
    Nobody = Nobody
INVARIANTS CloseOnce RegistrySound OneMachine
PROPERTIES ImplementsRegistry LostLeaves
