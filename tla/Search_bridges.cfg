SPECIFICATION SearchSpec
CONSTANTS
    f = f
    a = a
    b = b
    c = c
    d = d
    e = e
    t = t
    stranger = stranger
    Node <- Nodes
    Graph <- Graphs
    Query <- Queries
    MaxCount = 2
INVARIANTS BridgesReturned
