\* One client, configurations in any order.
SPECIFICATION Spec
CONSTANTS
    SidLen = 2
    Bytes = {0, 1}
    Configs <- AllConfigs
    Dialled <- ClientIds
    Conns = {c1}
    Nodes = {"", "child1", "child2"}
    Home = ""
INVARIANTS
    TypeOK
    TransportsAgree
    AttributedToOwner
