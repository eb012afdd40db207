SPECIFICATION GateSpec
CONSTANTS
    o1 = o1
    o2 = o2
    m1 = m1
    m2 = m2
    e1 = e1
    e2 = e2
    Names <- MCNames
    Modules <- MCModules
    Gated <- MCModules
    Endpoints <- MCEndpoints
    EndpointOf <- MCEndpointOf
    HandEdit = HandEdit
    Absent = Absent
INVARIANTS
    ServedOnce
    NothingElseServed
PROPERTIES
    RegenerationRepairs
